-------------------------- MODULE RealnetSessionProofs --------------------------
(***************************************************************************)
(* Theorems about RealnetSession, for any number of sessions and any       *)
(* rates: a session that counts left nothing behind, what was measured was *)
(* configured, what belongs to someone else is kept, and run_all's exit    *)
(* status tells.  The invariants follow the statement a session is at.     *)
(***************************************************************************)
EXTENDS RealnetSession, SequenceTheorems, TLAPS

-----------------------------------------------------------------------------
(* Type correctness *)

\* A session is under way at every statement but those of run_all.
AtWork == pc \notin {"plan", "preflight", "idle", "over"} => session \in Ids

\* What the ExitStack does to the callbacks keeps them callbacks.
LEMMA StackTyped ==
    ASSUME NEW s \in Seq(Callbacks)
    PROVE  /\ << >> \in Seq(Callbacks) /\ << "game" >> \in Seq(Callbacks)
           /\ << "clear" >> \o s \in Seq(Callbacks)
           /\ << "sender" >> \o s \in Seq(Callbacks)
           /\ << "receiver", "log" >> \o s \in Seq(Callbacks)
           /\ s # << >> => Tail(s) \in Seq(Callbacks)
<1>1. << >> \in Seq(Callbacks) /\ << "game" >> \in Seq(Callbacks)
      /\ << "clear" >> \in Seq(Callbacks) /\ << "sender" >> \in Seq(Callbacks)
      /\ << "receiver", "log" >> \in Seq(Callbacks)
  BY DEF Callbacks
<1>2. s # << >> => Tail(s) \in Seq(Callbacks)
  BY HeadTailProperties
<1>. QED
  BY <1>1, <1>2, ConcatProperties

\* Each group of actions keeps the types of what it changes.
LEMMA RunAllTyped ==
    ASSUME TypeOK, AtWork, CheckPlan \/ Preflight \/ EndRun \/ StartSession
    PROVE  TypeOK'
<1>1. CASE CheckPlan
  BY <1>1 DEF TypeOK, CheckPlan, Exit, Goto, shaper, remote, game
<1>2. CASE Preflight
  BY <1>2 DEF TypeOK, Preflight, Exit, Goto, shaper, remote, game
<1>3. CASE EndRun
  BY <1>3 DEF TypeOK, EndRun, Exit, shaper, remote, game
<1>4. CASE StartSession
  <2>1. session' \in 0..MaxSessions
    BY <1>4, SessionBound DEF TypeOK, StartSession
  <2>2. stack' \in Seq(Callbacks)
    BY <1>4, StackTyped DEF StartSession, TypeOK
  <2>. QED
    BY <1>4, <2>1, <2>2 DEF TypeOK, StartSession, Raise, local, remote, game, runAll
<1>. QED
  BY <1>1, <1>2, <1>3, <1>4

\* The game: its display and content.
LEMMA GameTyped ==
    ASSUME TypeOK, AtWork, StartXvfb \/ StartContent \/ UndoGame \/ UnwindGame \/ GameDies
    PROVE  TypeOK'
<1>1. CASE StartXvfb
  <2>1. session \in 0..Someone /\ session \in Ids
    BY <1>1, SessionBound DEF TypeOK, AtWork, StartXvfb, Someone, Ids
  <2>. QED
    BY <1>1, <2>1 DEF TypeOK, StartXvfb, Goto, Unstart, runAll, shaper, remote
<1>2. CASE StartContent
  BY <1>2, StackTyped DEF TypeOK, AtWork, StartContent, Rendering, Goto, Unstart, runAll, shaper,
     remote, Ids
<1>3. CASE UndoGame
  <2>1. 0 \in 0..Someone
    BY SessionBound DEF Someone
  <2>. QED
    BY <1>3, <2>1 DEF TypeOK, UndoGame, StopGame, Raise, runAll, shaper, remote
<1>4. CASE UnwindGame
  <2>1. 0 \in 0..Someone
    BY SessionBound DEF Someone
  <2>2. stack' \in Seq(Callbacks)
    BY <1>4, StackTyped DEF TypeOK, UnwindGame, Pop
  <2>3. failed' \in BOOLEAN
    BY <1>4 DEF TypeOK, UnwindGame, Callback
  <2>. QED
    BY <1>4, <2>1, <2>2, <2>3 DEF TypeOK, UnwindGame, StopGame, Pop, runAll, shaper, remote
<1>5. CASE GameDies
  <2>1. 0 \in 0..Someone
    BY SessionBound DEF Someone
  <2>. QED
    BY <1>5, <2>1 DEF TypeOK, GameDies, runAll, shaper, remote
<1>. QED
  BY <1>1, <1>2, <1>3, <1>4, <1>5

\* The remote receiver and its log.
LEMMA ReceiverTyped ==
    ASSUME TypeOK, AtWork, Launch \/ AlreadyOwned \/ Ready \/ UnwindReceiver \/ UnwindLog \/ ReceiverDies
    PROVE  TypeOK'
<1>0. 0 \in 0..MaxSessions
  BY SessionBound
<1>1. CASE Launch
  BY <1>1 DEF TypeOK, AtWork, Launch, Listening, Then, Goto, Raise, local, game, runAll, shaper, Ids
<1>2. CASE AlreadyOwned
  BY <1>2 DEF TypeOK, AlreadyOwned, Raise, local, game, runAll, shaper, remote
<1>3. CASE Ready
  <2>1. stack' \in Seq(Callbacks)
    BY <1>3, StackTyped DEF TypeOK, Ready
  <2>2. pc' \in {"spawn", "check", "unwind"} /\ failed' \in BOOLEAN
    BY <1>3 DEF TypeOK, Ready, Goto, Raise
  <2>3. /\ receivers' \subseteq Ids
        /\ owned' \in 0..MaxSessions /\ finished' \in 0..MaxSessions
    <3>1. CASE UNCHANGED remote
      BY <3>1 DEF TypeOK, remote
    <3>2. CASE \E o \in Outcomes : Stop(o)
      BY <3>2, <1>0 DEF TypeOK, Stop
    <3>. QED
      BY <1>3, <3>1, <3>2 DEF Ready
  <2>. QED
    BY <1>3, <2>1, <2>2, <2>3 DEF TypeOK, Ready, local, game, runAll, shaper
<1>4. CASE UnwindReceiver
  <2>1. stack' \in Seq(Callbacks)
    BY <1>4, StackTyped DEF TypeOK, UnwindReceiver, Pop
  <2>2. failed' \in BOOLEAN
    BY <1>4 DEF TypeOK, UnwindReceiver, Callback
  <2>3. /\ receivers' \subseteq Ids
        /\ owned' \in 0..MaxSessions /\ finished' \in 0..MaxSessions
    BY <1>4, <1>0 DEF TypeOK, UnwindReceiver, Stop
  <2>. QED
    BY <1>4, <2>1, <2>2, <2>3 DEF TypeOK, UnwindReceiver, Pop, local, game, runAll, shaper
<1>5. CASE UnwindLog
  BY <1>5, StackTyped DEF TypeOK, UnwindLog, Pop, Callback, game, runAll, shaper, remote, Ids
<1>6. CASE ReceiverDies
  BY <1>6 DEF TypeOK, ReceiverDies, local, game, runAll, shaper
<1>. QED
  BY <1>1, <1>2, <1>3, <1>4, <1>5, <1>6

\* What clear does to the interface: nothing, or it removes a root of ours.
LEMMA ClearWrites ==
    ASSUME NEW o \in Outcomes, Clear(o)
    PROVE  /\ qdisc' = qdisc \/ qdisc' = Default
           /\ ~applied \/ qdisc.root # "ours" => UNCHANGED << qdisc, applied >>
           /\ applied /\ ~ClearRaises(o) => qdisc' = Default
<1>1. CASE applied /\ qdisc.root = "ours" /\ o # "failed"
  BY <1>1 DEF Clear
<1>2. CASE ~(applied /\ qdisc.root = "ours" /\ o # "failed")
  BY <1>2 DEF Clear, ClearRaises
<1>. QED
  BY <1>1, <1>2

\* The interfaces there are.
Qdiscs == [root : {"default", "ours", "foreign"}, netem : Rates \cup {0},
           filter : {"off", "on"}]

\* What clear leaves is still an interface.
LEMMA ClearTyped ==
    ASSUME TypeOK, NEW o \in Outcomes, Clear(o)
    PROVE  qdisc' \in Qdiscs
<1>1. Default \in Qdiscs
  BY DEF Default, Qdiscs
<1>2. qdisc \in Qdiscs
  BY DEF TypeOK, Qdiscs
<1>. QED
  BY <1>1, <1>2, ClearWrites, Zenon

\* The shaper, and someone who configures the interface.
LEMMA ShaperTyped ==
    ASSUME TypeOK, AtWork, \/ CheckQdiscs \/ AddRoot \/ AddNetem \/ AddFilters \/ Undo
                   \/ Change \/ UnwindClear \/ Configure
    PROVE  TypeOK'
<1>. USE DEF local, game, runAll, remote, Default, Foreign
<1>1. CASE CheckQdiscs
  BY <1>1 DEF TypeOK, CheckQdiscs, Goto, Raise, shaper
<1>2. CASE AddRoot
  BY <1>2 DEF TypeOK, AddRoot, Then, Goto, Raise
<1>3. CASE AddNetem
  BY <1>3 DEF TypeOK, AddNetem, Step, Goto
<1>4. CASE AddFilters
  BY <1>4 DEF TypeOK, AddFilters, Step, Goto
<1>5. CASE Undo
  <2>1. applied' \in BOOLEAN
    BY <1>5 DEF TypeOK, Undo, Clear
  <2>2. qdisc' \in Qdiscs
    BY <1>5, ClearTyped DEF Undo
  <2>3. failed' \in BOOLEAN /\ pc' = "unwind"
    BY <1>5 DEF Undo, Raise
  <2>. QED
    BY <1>5, <2>1, <2>2, <2>3 DEF TypeOK, Undo, Qdiscs
<1>6. CASE Change
  BY <1>6 DEF TypeOK, Change, Proposed, Then, Goto, Raise
<1>7. CASE UnwindClear
  <2>1. applied' \in BOOLEAN
    BY <1>7 DEF TypeOK, UnwindClear, Clear
  <2>2. qdisc' \in Qdiscs
    BY <1>7, ClearTyped DEF UnwindClear
  <2>3. stack' \in Seq(Callbacks)
    BY <1>7, StackTyped DEF TypeOK, UnwindClear, Pop
  <2>4. failed' \in BOOLEAN
    BY <1>7 DEF TypeOK, UnwindClear, Callback
  <2>. QED
    BY <1>7, <2>1, <2>2, <2>3, <2>4 DEF TypeOK, UnwindClear, Pop, Qdiscs
<1>8. CASE Configure
  BY <1>8 DEF TypeOK, Configure
<1>. QED
  BY <1>1, <1>2, <1>3, <1>4, <1>5, <1>6, <1>7, <1>8

\* The sender and the end of a session.
LEMMA SenderTyped ==
    ASSUME TypeOK, AtWork, Spawn \/ SenderEnds \/ UnwindSender \/ FinishSession
    PROVE  TypeOK'
<1>. USE DEF local, game, runAll, shaper, remote
<1>1. CASE Spawn
  BY <1>1, StackTyped DEF TypeOK, Spawn, Goto, Raise
<1>2. CASE SenderEnds
  BY <1>2 DEF TypeOK, SenderEnds, Goto, Raise
<1>3. CASE UnwindSender
  BY <1>3, StackTyped DEF TypeOK, UnwindSender, Pop, Callback
<1>4. CASE FinishSession
  BY <1>4 DEF TypeOK, AtWork, FinishSession, Fails
<1>. QED
  BY <1>1, <1>2, <1>3, <1>4

\* Every step keeps the types and AtWork.
TInv == TypeOK /\ AtWork

\* Only StartSession changes the session, to the next one.
LEMMA AtWorkStep ==
    ASSUME TypeOK, AtWork, Next
    PROVE  AtWork'
<1>1. CASE StartSession
  BY <1>1, SessionBound DEF TypeOK, AtWork, StartSession, Ids
<1>2. CASE CheckPlan \/ Preflight \/ EndRun
  BY <1>2 DEF AtWork, CheckPlan, Preflight, EndRun, Exit, Goto
<1>3. CASE StartXvfb \/ StartContent \/ UndoGame \/ UnwindGame \/ GameDies
  BY <1>3 DEF AtWork, StartXvfb, StartContent, UndoGame, UnwindGame, GameDies, Pop
<1>4. CASE Launch \/ AlreadyOwned \/ Ready \/ UnwindReceiver \/ UnwindLog \/ ReceiverDies
  BY <1>4 DEF AtWork, Launch, AlreadyOwned, Ready, UnwindReceiver, UnwindLog, ReceiverDies, Pop
<1>5. CASE CheckQdiscs \/ AddRoot \/ AddNetem \/ AddFilters \/ Undo
  BY <1>5 DEF AtWork, CheckQdiscs, AddRoot, AddNetem, AddFilters, Undo
<1>6. CASE Change \/ UnwindClear \/ Configure
  BY <1>6 DEF AtWork, Change, UnwindClear, Configure, Pop
<1>7. CASE Spawn \/ SenderEnds \/ UnwindSender \/ FinishSession
  BY <1>7 DEF AtWork, Spawn, SenderEnds, UnwindSender, FinishSession, Pop
<1>. QED
  BY <1>1, <1>2, <1>3, <1>4, <1>5, <1>6, <1>7 DEF Next

\* The types hold at the beginning,
LEMMA TypedInit == Init => TInv
<1>. SUFFICES ASSUME Init PROVE TInv
  OBVIOUS
<1>1. 0 \in 0..MaxSessions /\ 0 \in 0..Someone /\ Someone \in 0..Someone
  BY SessionBound DEF Someone
<1>2. Default \in Qdiscs /\ Foreign \in Qdiscs
  BY DEF Default, Foreign, Qdiscs
<1>3. << >> \in Seq(Callbacks)
  OBVIOUS
<1>4. qdisc \in Qdiscs
  BY <1>2 DEF Init
<1>5. display \in 0..Someone
  BY <1>1 DEF Init
<1>. QED
  <2>1. /\ failed \in BOOLEAN /\ sender \in BOOLEAN /\ applied \in BOOLEAN
        /\ bad \in BOOLEAN /\ noShape \in BOOLEAN
    BY Zenon DEF Init
  <2>2. logs \in [Ids -> 0..MaxSessions]
    BY <1>1 DEF Init
  <2>3. TypeOK
    BY <1>1, <1>3, <1>4, <1>5, <2>1, <2>2 DEF Init, TypeOK, Qdiscs
  <2>. QED
    BY <2>3 DEF Init, TInv, AtWork

\* and are kept by each step.
LEMMA TypedStep == TInv /\ [Next]_vars => TInv'
<1>1. ASSUME TInv, Next PROVE TInv'
  BY <1>1, AtWorkStep, RunAllTyped, GameTyped, ReceiverTyped, ShaperTyped, SenderTyped
     DEF TInv, Next
<1>2. ASSUME TInv, UNCHANGED vars PROVE TInv'
  BY <1>2 DEF TInv, TypeOK, AtWork, vars, local, game, runAll, shaper, remote
<1>. QED
  BY <1>1, <1>2

\* The variables keep their types in every behaviour of run_all.
THEOREM TypeCorrect == Spec => []TypeOK
<1>1. Spec => []TInv
  BY TypedInit, TypedStep, PTL DEF Spec
<1>. QED
  BY <1>1, PTL DEF TInv

-----------------------------------------------------------------------------
(* The interface *)

Shaping == {"check", "root", "netem", "filter", "undo"}

Ours(netem, filter) == [root |-> "ours", netem |-> netem, filter |-> filter]

\* What the interface holds at each statement: apply finds it bare and builds on
\* what it did, someone else's configuration takes ours away, and with NO_SHAPE
\* there never is any of ours.
ShapeInv ==
    /\ qdisc.root # "ours" => qdisc \in {Default, Foreign}
    /\ noShape => ~applied /\ qdisc.root # "ours" /\ pc \notin Shaping
    /\ pc = "root" => qdisc = Default
    /\ pc \in {"netem", "filter", "undo"} => applied
    /\ pc = "netem" => qdisc = Ours(0, "off")
    /\ pc = "filter" => qdisc = Ours(rate, "off")
    /\ pc = "spawn" /\ ~noShape => applied /\ qdisc = Ours(rate, "on")
    /\ pc = "run" /\ ~noShape => applied /\ qdisc \in {Foreign, Ours(rate, "on")}

\* Whose root an interface has, and what the tc commands make of it.
LEMMA QdiscFacts ==
    /\ Default.root = "default" /\ Foreign.root = "foreign"
    /\ [Default EXCEPT !.root = "ours"] = Ours(0, "off")
    /\ \A n, m, f, g :
          /\ Ours(n, f).root = "ours"
          /\ [Ours(n, f) EXCEPT !.netem = m] = Ours(m, f)
          /\ [Ours(n, f) EXCEPT !.filter = g] = Ours(n, g)
BY DEF Default, Foreign, Ours

\* The interface at the beginning.
LEMMA ShapeInit == Init => ShapeInv
BY DEF Init, ShapeInv, Default, Foreign, Shaping

\* A step that leaves the shaper alone and goes to no statement that counts on it.
LEMMA ShapeFrame ==
    ASSUME ShapeInv, UNCHANGED << applied, rate, qdisc, noShape >>,
           pc' = pc \/ pc' \notin Shaping \cup {"spawn", "run"}
    PROVE  ShapeInv'
BY DEF ShapeInv, Shaping

\* Each statement leaves the interface as the next one counts on.
LEMMA ShapeStep ==
    ASSUME TInv, ShapeInv, Next
    PROVE  ShapeInv'
<1>. USE DEF shaper, local, runAll
<1>1. CASE CheckPlan \/ Preflight \/ EndRun
  BY <1>1, ShapeFrame DEF CheckPlan, Preflight, EndRun, Exit, Goto, Shaping
<1>2. CASE StartXvfb \/ StartContent \/ UndoGame \/ UnwindGame \/ GameDies
  BY <1>2, ShapeFrame DEF StartXvfb, StartContent, UndoGame, UnwindGame, GameDies, Pop,
     Rendering, Unstart, Goto, Raise, Shaping
<1>3. CASE Launch \/ AlreadyOwned
  BY <1>3, ShapeFrame DEF Launch, AlreadyOwned, Then, Goto, Raise, Shaping
<1>4. CASE UnwindReceiver \/ UnwindLog \/ ReceiverDies \/ UnwindSender \/ FinishSession
  BY <1>4, ShapeFrame DEF UnwindReceiver, UnwindLog, ReceiverDies, UnwindSender,
     FinishSession, Pop, Shaping
<1>5. CASE StartSession
  BY <1>5 DEF StartSession, Raise, ShapeInv, Shaping
<1>6. CASE Ready
  BY <1>6 DEF Ready, Goto, Raise, ShapeInv, Shaping
<1>7. CASE CheckQdiscs
  BY <1>7, QdiscFacts DEF CheckQdiscs, Free, Goto, Raise, ShapeInv, Shaping
<1>8. CASE AddRoot
  <2>1. PICK o \in Outcomes :
           /\ qdisc' = IF o = "failed" THEN qdisc ELSE Ours(0, "off")
           /\ applied' <=> o = "done"
           /\ Then(o, "netem")
    BY <1>8, QdiscFacts DEF AddRoot
  <2>2. CASE o = "done"
    BY <1>8, <2>1, <2>2, QdiscFacts DEF AddRoot, Then, Goto, ShapeInv, Shaping
  <2>3. CASE o # "done"
    BY <1>8, <2>1, <2>3, QdiscFacts DEF AddRoot, Then, Raise, ShapeInv, Shaping
  <2>. QED
    BY <2>2, <2>3
<1>9. CASE AddNetem
  BY <1>9, QdiscFacts DEF AddNetem, Step, Goto, ShapeInv, Shaping
<1>10. CASE AddFilters
  BY <1>10, QdiscFacts DEF AddFilters, Step, Goto, ShapeInv, Shaping
<1>11. CASE Undo
  BY <1>11, ClearWrites, QdiscFacts DEF Undo, Raise, ShapeInv, Shaping
<1>12. CASE Change
  BY <1>12, QdiscFacts DEF Change, Proposed, Then, Goto, Raise, ShapeInv, Shaping
<1>13. CASE Spawn
  BY <1>13 DEF Spawn, Goto, Raise, ShapeInv, Shaping
<1>14. CASE SenderEnds
  BY <1>14, ShapeFrame DEF SenderEnds, Goto, Raise, Shaping
<1>15. CASE UnwindClear
  BY <1>15, ClearWrites, QdiscFacts DEF UnwindClear, Pop, ShapeInv, Shaping
<1>16. CASE Configure
  BY <1>16 DEF Configure, ShapeInv, Shaping, Foreign
<1>. QED
  BY <1>1, <1>2, <1>3, <1>4, <1>5, <1>6, <1>7, <1>8, <1>9, <1>10, <1>11, <1>12, <1>13,
     <1>14, <1>15, <1>16 DEF Next

\* The invariants so far, in every behaviour.
LEMMA ShapeAlways == Spec => [](TInv /\ ShapeInv)
<1>1. TInv /\ ShapeInv /\ [Next]_vars => ShapeInv'
  <2>1. ASSUME ShapeInv, UNCHANGED vars PROVE ShapeInv'
    BY <2>1, ShapeFrame DEF vars, shaper, local, runAll
  <2>. QED
    BY <2>1, ShapeStep
<1>. QED
  BY <1>1, TypedInit, TypedStep, ShapeInit, PTL DEF Spec

\* No step of a session takes what someone else configured, or the X display that
\* someone else runs: the shaper deletes, changes and builds on its own root only,
\* and a game stops its own Xvfb.
THEOREM ForeignStays == Spec => ForeignKept
<1>1. ASSUME TInv, ShapeInv, Next, qdisc = Foreign
      PROVE  qdisc' = Foreign
  <2>1. qdisc.root = "foreign"
    BY <1>1, QdiscFacts
  <2>2. pc \notin {"root", "netem", "filter"}
    BY <1>1, <2>1, QdiscFacts DEF ShapeInv
  <2>3. CASE UnwindClear \/ Undo
    BY <1>1, <2>1, <2>3, ClearWrites DEF UnwindClear, Undo
  <2>4. CASE Change
    BY <1>1, <2>1, <2>4 DEF Change
  <2>5. CASE StartSession \/ CheckQdiscs \/ Configure
    BY <1>1, <2>5 DEF StartSession, CheckQdiscs, Configure, shaper
  <2>6. CASE AddRoot \/ AddNetem \/ AddFilters
    BY <2>2, <2>6 DEF AddRoot, AddNetem, AddFilters
  <2>. QED
    BY <1>1, <2>3, <2>4, <2>5, <2>6 DEF Next, shaper, CheckPlan, Preflight, EndRun,
       StartXvfb, StartContent, UndoGame, Launch, AlreadyOwned, Ready, Spawn, SenderEnds,
       UnwindSender, UnwindReceiver, UnwindLog, UnwindGame, FinishSession, ReceiverDies,
       GameDies
<1>2. ASSUME TInv, Next, display = Someone
      PROVE  display' = Someone
  <2>1. display # 0 /\ display # session /\ display \notin Ids
    BY <1>2, SessionBound DEF TInv, TypeOK, Someone, Ids
  <2>. USE DEF local, game
  <2>2. CASE StartXvfb
    BY <1>2, <2>1, <2>2 DEF StartXvfb
  <2>3. CASE UndoGame \/ UnwindGame
    BY <1>2, <2>1, <2>3 DEF UndoGame, UnwindGame, StopGame
  <2>4. CASE GameDies
    BY <1>2, <2>1, <2>4 DEF GameDies
  <2>. QED
    BY <1>2, <2>2, <2>3, <2>4 DEF Next, CheckPlan, Preflight, EndRun, StartSession,
       StartContent, Launch, AlreadyOwned, Ready, CheckQdiscs, AddRoot, AddNetem,
       AddFilters, Undo, Change, Spawn, SenderEnds, UnwindSender, UnwindClear,
       UnwindReceiver, UnwindLog, FinishSession, ReceiverDies, Configure
<1>3. TInv /\ ShapeInv /\ [Next]_vars
         => [ /\ qdisc = Foreign => qdisc' = Foreign
              /\ display = Someone => display' = Someone ]_vars
  BY <1>1, <1>2
<1>. QED
  BY <1>3, ShapeAlways, PTL DEF Spec, ForeignKept

-----------------------------------------------------------------------------
(* The receiver *)

\* The statements after the receiver was seen to be ready.
Answered == {"check", "root", "netem", "filter", "spawn", "run"}

\* One receiver has the port; once the session's own was seen to be ready, it is
\* that one, or has died.
AnswerInv ==
    /\ \A s, t \in receivers : s = t
    /\ pc \in Answered \cup {"ready"} => owned = session
    /\ pc \in Answered => receivers \subseteq {session}

\* Only Launch starts a receiver, and none if one has the port.
LEMMA AnswerStep ==
    ASSUME TInv, AnswerInv, Next
    PROVE  AnswerInv'
<1>. USE DEF remote
<1>1. CASE CheckPlan \/ Preflight \/ EndRun \/ StartSession
  BY <1>1 DEF CheckPlan, Preflight, EndRun, StartSession, Exit, Goto, Raise, AnswerInv, Answered
<1>2. CASE StartXvfb \/ StartContent \/ UndoGame \/ UnwindGame \/ GameDies
  BY <1>2 DEF StartXvfb, StartContent, UndoGame, UnwindGame, GameDies, Pop,
     Rendering, Unstart, Goto, Raise, AnswerInv, Answered
<1>3. CASE Launch \/ AlreadyOwned
  BY <1>3 DEF Launch, AlreadyOwned, Listening, Then, Goto, Raise, AnswerInv, Answered
<1>4. CASE Ready
  BY <1>4 DEF Ready, Stop, Goto, Raise, AnswerInv, Answered
<1>5. CASE CheckQdiscs \/ AddRoot \/ AddNetem \/ AddFilters
  BY <1>5 DEF CheckQdiscs, AddRoot, AddNetem, AddFilters, Then, Step, Goto, Raise,
     AnswerInv, Answered
<1>6. CASE Undo \/ Change \/ UnwindClear \/ Configure
  BY <1>6 DEF Undo, Change, UnwindClear, Configure, Pop, Then, Goto, Raise, AnswerInv, Answered
<1>7. CASE Spawn \/ SenderEnds \/ UnwindSender \/ FinishSession
  BY <1>7 DEF Spawn, SenderEnds, UnwindSender, FinishSession, Pop, Goto, Raise,
     AnswerInv, Answered
<1>8. CASE UnwindReceiver \/ UnwindLog
  BY <1>8 DEF UnwindReceiver, UnwindLog, Stop, Pop, AnswerInv, Answered
<1>9. CASE ReceiverDies
  BY <1>9 DEF ReceiverDies, AnswerInv, Answered
<1>. QED
  BY <1>1, <1>2, <1>3, <1>4, <1>5, <1>6, <1>7, <1>8, <1>9 DEF Next

\* The invariants so far, in every behaviour.
LEMMA AnswerAlways == Spec => [](TInv /\ ShapeInv /\ AnswerInv)
<1>1. Init => AnswerInv
  BY DEF Init, AnswerInv, Answered
<1>2. TInv /\ AnswerInv /\ [Next]_vars => AnswerInv'
  <2>1. ASSUME AnswerInv, UNCHANGED vars PROVE AnswerInv'
    BY <2>1 DEF AnswerInv, vars, remote
  <2>. QED
    BY <2>1, AnswerStep
<1>. QED
  BY <1>1, <1>2, ShapeAlways, PTL DEF Spec

\* What a session measures is what was configured, in every session of every run.
THEOREM Measured == Spec => []MeasuredAsConfigured
<1>1. ASSUME TInv, ShapeInv, AnswerInv PROVE MeasuredAsConfigured
  BY <1>1 DEF ShapeInv, AnswerInv, Answered, MeasuredAsConfigured, Ours
<1>. QED
  BY <1>1, AnswerAlways, PTL

-----------------------------------------------------------------------------
(* What counts *)

\* A session counts at its end at the earliest; until a test is bad, all before it
\* count.
CountInv ==
    /\ ok \subseteq 1..session
    /\ pc \in {"plan", "preflight"} => session = 0
    /\ pc \notin {"plan", "preflight", "idle", "over"} => session \notin ok
    /\ ~bad => 1..(session - 1) \subseteq ok
    /\ ~bad /\ pc \in {"idle", "over"} => 1..session \subseteq ok
    /\ pc = "over" /\ exit = 0 => ~bad

\* A step inside a session counts nothing.
LEMMA CountFrame ==
    ASSUME CountInv, UNCHANGED << session, ok, bad, exit >>,
           pc \notin {"plan", "preflight", "idle", "over"},
           pc' \notin {"plan", "preflight", "idle", "over"}
    PROVE  CountInv'
BY DEF CountInv

\* A session counts, or a test turns bad, at FinishSession only.
LEMMA CountStep ==
    ASSUME TInv, CountInv, Next
    PROVE  CountInv'
<1>. USE DEF local, runAll
<1>0. session \in Nat
  BY SessionBound DEF TInv, TypeOK
<1>1. CASE CheckPlan \/ Preflight
  <2>1. session = 0 /\ 1..session = {} /\ 1..(session - 1) = {}
    BY <1>1 DEF CheckPlan, Preflight, CountInv
  <2>2. UNCHANGED << session, ok, bad >> /\ (pc' = "over" => exit' # 0)
    BY <1>1 DEF CheckPlan, Preflight, Exit, Goto
  <2>. QED
    BY <2>1, <2>2 DEF CountInv
<1>2. CASE EndRun
  BY <1>2, <1>0 DEF EndRun, Exit, CountInv
<1>3. CASE StartSession
  BY <1>3, <1>0 DEF StartSession, Raise, CountInv
<1>4. CASE FinishSession
  <2>1. ok' = ok \/ ok' = ok \cup {session}
    BY <1>4 DEF FinishSession
  <2>2. session \in 1..session /\ 1..session = 1..(session - 1) \cup {session}
    BY <1>4, <1>0 DEF FinishSession, TInv, AtWork, Ids
  <2>3. ~bad' => ~bad /\ session \in ok'
    BY <1>4 DEF FinishSession, Fails
  <2>4. ok' \subseteq 1..session /\ (~bad' => 1..session \subseteq ok')
    BY <2>1, <2>2, <2>3 DEF CountInv
  <2>. QED
    BY <1>4, <2>2, <2>4 DEF FinishSession, CountInv
<1>5. CASE StartXvfb \/ StartContent \/ UndoGame \/ UnwindGame
  BY <1>5, CountFrame DEF StartXvfb, StartContent, UndoGame, UnwindGame, Pop,
     Rendering, Unstart, Goto, Raise
<1>6. CASE Launch \/ AlreadyOwned \/ Ready \/ UnwindReceiver \/ UnwindLog
  BY <1>6, CountFrame DEF Launch, AlreadyOwned, Ready, UnwindReceiver, UnwindLog, Pop,
     Then, Goto, Raise
<1>7. CASE CheckQdiscs \/ AddRoot \/ AddNetem \/ AddFilters
  BY <1>7, CountFrame DEF CheckQdiscs, AddRoot, AddNetem, AddFilters, Then, Step, Goto, Raise
<1>8. CASE Undo \/ Change \/ UnwindClear
  BY <1>8, CountFrame DEF Undo, Change, UnwindClear, Pop, Then, Goto, Raise
<1>9. CASE Spawn \/ SenderEnds \/ UnwindSender
  BY <1>9, CountFrame DEF Spawn, SenderEnds, UnwindSender, Pop, Goto, Raise
<1>10. CASE ReceiverDies \/ GameDies \/ Configure
  <2>1. UNCHANGED << session, pc, ok, bad, exit >>
    BY <1>10 DEF ReceiverDies, GameDies, Configure
  <2>. QED
    BY <2>1 DEF CountInv
<1>. QED
  BY <1>1, <1>2, <1>3, <1>4, <1>5, <1>6, <1>7, <1>8, <1>9, <1>10 DEF Next

\* What counts, in every behaviour.
LEMMA CountAlways == Spec => [](TInv /\ CountInv)
<1>1. Init => CountInv
  BY DEF Init, CountInv
<1>2. TInv /\ CountInv /\ [Next]_vars => CountInv'
  <2>1. ASSUME CountInv, UNCHANGED vars PROVE CountInv'
    BY <2>1 DEF CountInv, vars, local, runAll
  <2>. QED
    BY <2>1, CountStep
<1>. QED
  BY <1>1, <1>2, TypedInit, TypedStep, PTL DEF Spec

\* run_all's exit status 0 means that every session it began counts.
THEOREM ExitTells == Spec => []ExitTellsAll
<1>1. CountInv => ExitTellsAll
  BY DEF CountInv, ExitTellsAll
<1>. QED
  BY <1>1, CountAlways, PTL

-----------------------------------------------------------------------------
(* What a session leaves *)

GameStack     == << "game" >>
LogStack      == << "log", "game" >>
ReceiverStack == << "receiver", "log", "game" >>
ClearStack    == << "clear", "receiver", "log", "game" >>
BareStack     == << "sender", "receiver", "log", "game" >>
FullStack     == << "sender", "clear", "receiver", "log", "game" >>

\* The callbacks pushed at each statement.
StackInv ==
    /\ pc \in {"xvfb", "content"} => stack = GameStack
    /\ pc \in {"launch", "ready"} => stack = ReceiverStack
    /\ pc \in {"check", "root", "netem", "filter"} => stack = ClearStack
    /\ pc = "spawn" => stack = IF noShape THEN ReceiverStack ELSE ClearStack
    /\ pc = "run"   => stack = IF noShape THEN BareStack ELSE FullStack

\* How the stacks follow from one another, by a push.
LEMMA Pushes ==
    /\ << "receiver", "log" >> \o GameStack = ReceiverStack
    /\ << "clear" >> \o ReceiverStack = ClearStack
    /\ << "sender" >> \o ReceiverStack = BareStack
    /\ << "sender" >> \o ClearStack = FullStack
<1>. DEFINE S == {"sender", "clear", "receiver", "log", "game"}
<1>1. << "receiver", "log" >> \o GameStack = ReceiverStack
  <2>. DEFINE r == << "receiver", "log" >> \o << "game" >>
              t == << "receiver", "log", "game" >>
  <2>1. r \in Seq(S) /\ t \in Seq(S)
    OBVIOUS
  <2>2. Len(r) = 3 /\ Len(t) = 3
    OBVIOUS
  <2>3. r[1] = t[1] /\ r[2] = t[2] /\ r[3] = t[3]
    OBVIOUS
  <2>4. r = t
    <3>. HIDE DEF r, t, S
    <3>. QED
      BY <2>1, <2>2, <2>3, SeqEqual
  <2>. QED
    BY <2>4 DEF GameStack, ReceiverStack
<1>2. << "clear" >> \o ReceiverStack = ClearStack
  <2>. DEFINE r == << "clear" >> \o << "receiver", "log", "game" >>
              t == << "clear", "receiver", "log", "game" >>
  <2>1. r \in Seq(S) /\ t \in Seq(S)
    OBVIOUS
  <2>2. Len(r) = 4 /\ Len(t) = 4
    OBVIOUS
  <2>3. r[1] = t[1] /\ r[2] = t[2] /\ r[3] = t[3] /\ r[4] = t[4]
    OBVIOUS
  <2>4. r = t
    <3>. HIDE DEF r, t, S
    <3>. QED
      BY <2>1, <2>2, <2>3, SeqEqual
  <2>. QED
    BY <2>4 DEF ReceiverStack, ClearStack
<1>3. << "sender" >> \o ReceiverStack = BareStack
  <2>. DEFINE r == << "sender" >> \o << "receiver", "log", "game" >>
              t == << "sender", "receiver", "log", "game" >>
  <2>1. r \in Seq(S) /\ t \in Seq(S)
    OBVIOUS
  <2>2. Len(r) = 4 /\ Len(t) = 4
    OBVIOUS
  <2>3. r[1] = t[1] /\ r[2] = t[2] /\ r[3] = t[3] /\ r[4] = t[4]
    OBVIOUS
  <2>4. r = t
    <3>. HIDE DEF r, t, S
    <3>. QED
      BY <2>1, <2>2, <2>3, SeqEqual
  <2>. QED
    BY <2>4 DEF ReceiverStack, BareStack
<1>4. << "sender" >> \o ClearStack = FullStack
  <2>. DEFINE r == << "sender" >> \o << "clear", "receiver", "log", "game" >>
              t == << "sender", "clear", "receiver", "log", "game" >>
  <2>1. r \in Seq(S) /\ t \in Seq(S)
    OBVIOUS
  <2>2. Len(r) = 5 /\ Len(t) = 5
    OBVIOUS
  <2>3. r[1] = t[1] /\ r[2] = t[2] /\ r[3] = t[3] /\ r[4] = t[4] /\ r[5] = t[5]
    OBVIOUS
  <2>4. r = t
    <3>. HIDE DEF r, t, S
    <3>. QED
      BY <2>1, <2>2, <2>3, SeqEqual
  <2>. QED
    BY <2>4 DEF ClearStack, FullStack
<1>. QED
  BY <1>1, <1>2, <1>3, <1>4

\* And by a pop.
LEMMA Pops ==
    /\ FullStack # << >> /\ Head(FullStack) = "sender" /\ Tail(FullStack) = ClearStack
    /\ BareStack # << >> /\ Head(BareStack) = "sender" /\ Tail(BareStack) = ReceiverStack
    /\ ClearStack # << >> /\ Head(ClearStack) = "clear" /\ Tail(ClearStack) = ReceiverStack
    /\ ReceiverStack # << >> /\ Head(ReceiverStack) = "receiver"
    /\ Tail(ReceiverStack) = LogStack
    /\ LogStack # << >> /\ Head(LogStack) = "log" /\ Tail(LogStack) = GameStack
    /\ GameStack # << >> /\ Head(GameStack) = "game" /\ Tail(GameStack) = << >>
<1>1. FullStack # << >> /\ Head(FullStack) = "sender" /\ Tail(FullStack) = ClearStack
  BY DEF FullStack, ClearStack
<1>2. BareStack # << >> /\ Head(BareStack) = "sender" /\ Tail(BareStack) = ReceiverStack
  BY DEF BareStack, ReceiverStack
<1>3. ClearStack # << >> /\ Head(ClearStack) = "clear" /\ Tail(ClearStack) = ReceiverStack
  BY DEF ClearStack, ReceiverStack
<1>4. /\ ReceiverStack # << >> /\ Head(ReceiverStack) = "receiver"
      /\ Tail(ReceiverStack) = LogStack
  BY DEF ReceiverStack, LogStack
<1>5. LogStack # << >> /\ Head(LogStack) = "log" /\ Tail(LogStack) = GameStack
  BY DEF LogStack, GameStack
<1>6. GameStack # << >> /\ Head(GameStack) = "game" /\ Tail(GameStack) = << >>
  BY DEF GameStack
<1>. QED
  BY <1>1, <1>2, <1>3, <1>4, <1>5, <1>6

\* Each push finds the stack that the statement before left.
LEMMA StackStep ==
    ASSUME TInv, ShapeInv, StackInv, Next
    PROVE  StackInv'
<1>. USE DEF local, runAll
<1>1. CASE CheckPlan \/ Preflight \/ EndRun
  BY <1>1 DEF CheckPlan, Preflight, EndRun, Exit, Goto, StackInv
<1>2. CASE StartSession
  BY <1>2 DEF StartSession, Raise, StackInv, GameStack
<1>3. CASE StartXvfb \/ UndoGame
  BY <1>3 DEF StartXvfb, UndoGame, Unstart, Goto, Raise, StackInv
<1>4. CASE StartContent
  BY <1>4, Pushes DEF StartContent, Rendering, Unstart, Goto, StackInv
<1>5. CASE Launch \/ AlreadyOwned
  BY <1>5 DEF Launch, AlreadyOwned, Then, Goto, Raise, StackInv
<1>6. CASE Ready
  BY <1>6, Pushes DEF Ready, Goto, Raise, StackInv
<1>7. CASE CheckQdiscs \/ AddRoot \/ Change
  BY <1>7 DEF CheckQdiscs, AddRoot, Change, Then, Goto, Raise, StackInv
<1>8. CASE AddNetem
  BY <1>8 DEF AddNetem, Step, Goto, StackInv
<1>9. CASE AddFilters
  BY <1>9 DEF AddFilters, Step, Goto, StackInv, ShapeInv, Shaping
<1>10. CASE Undo \/ SenderEnds
  BY <1>10 DEF Undo, SenderEnds, Goto, Raise, StackInv
<1>11. CASE Spawn
  BY <1>11, Pushes DEF Spawn, Goto, Raise, StackInv
<1>12. CASE UnwindSender \/ UnwindClear \/ UnwindReceiver \/ UnwindLog \/ UnwindGame
  BY <1>12 DEF UnwindSender, UnwindClear, UnwindReceiver, UnwindLog, UnwindGame, Pop, StackInv
<1>13. CASE FinishSession
  BY <1>13 DEF FinishSession, StackInv
<1>14. CASE ReceiverDies \/ GameDies \/ Configure
  BY <1>14 DEF ReceiverDies, GameDies, Configure, StackInv
<1>. QED
  BY <1>1, <1>2, <1>3, <1>4, <1>5, <1>6, <1>7, <1>8, <1>9, <1>10, <1>11, <1>12, <1>13,
     <1>14 DEF Next

\* The receiver is the session's own, if it is running at all.
OwnReceiver == owned = session /\ receivers \subseteq {session}

NoReceiver == receivers = {} /\ ~sender /\ qdisc.root # "ours"

\* How far an unwinding without an exception has come, by the callbacks left.
Unwound ==
    \/ stack = FullStack /\ OwnReceiver /\ applied
    \/ stack = BareStack /\ OwnReceiver /\ noShape
    \/ stack = ClearStack /\ OwnReceiver /\ applied /\ ~sender
    \/ stack = ReceiverStack /\ OwnReceiver /\ ~sender /\ qdisc.root # "ours"
    \/ stack = LogStack /\ NoReceiver /\ owned = 0 /\ finished = session
    \/ stack = GameStack /\ NoReceiver /\ logs[session] = session
    \/ /\ stack = << >> /\ NoReceiver /\ logs[session] = session
       /\ session \notin content /\ display # session

CleanInv ==
    /\ pc = "unwind" /\ ~failed => Unwound
    /\ OkIsClean

\* All that the cleanup rests on.
Sound == TInv /\ ShapeInv /\ AnswerInv /\ CountInv /\ StackInv

\* The unwinding of a session, callback by callback: each stack has one top.
LEMMA TopSender ==
    ASSUME Unwound, Pop("sender")
    PROVE  /\ OwnReceiver
           /\ \/ applied /\ stack' = ClearStack
              \/ noShape /\ stack' = ReceiverStack
BY Pops DEF Unwound, Pop

\* Below the sender, the shaper's callback,
LEMMA TopClear ==
    ASSUME Unwound, Pop("clear")
    PROVE  OwnReceiver /\ applied /\ ~sender /\ stack' = ReceiverStack
BY Pops DEF Unwound, Pop

\* then the receiver's,
LEMMA TopReceiver ==
    ASSUME Unwound, Pop("receiver")
    PROVE  OwnReceiver /\ ~sender /\ qdisc.root # "ours" /\ stack' = LogStack
BY Pops DEF Unwound, Pop

\* then its log's,
LEMMA TopLog ==
    ASSUME Unwound, Pop("log")
    PROVE  NoReceiver /\ owned = 0 /\ finished = session /\ stack' = GameStack
BY Pops DEF Unwound, Pop

\* then the game's,
LEMMA TopGame ==
    ASSUME Unwound, Pop("game")
    PROVE  NoReceiver /\ logs[session] = session /\ stack' = << >>
BY Pops DEF Unwound, Pop

\* and nothing is left to undo.
LEMMA Bottom ==
    ASSUME Unwound, stack = << >>
    PROVE  /\ NoReceiver /\ logs[session] = session
           /\ session \notin content /\ display # session
BY Pops DEF Unwound

\* A callback that does not raise does its part.
LEMMA UnwindStep ==
    ASSUME Sound, CleanInv, ~failed',
           \/ UnwindSender \/ UnwindClear \/ UnwindReceiver \/ UnwindLog \/ UnwindGame
    PROVE  Unwound'
<1>. USE DEF local, game, shaper, remote
<1>1. CASE UnwindSender
  <2>1. ~failed /\ ~sender' /\ Pop("sender")
    BY <1>1 DEF UnwindSender, Callback
  <2>2. Unwound
    BY <2>1 DEF CleanInv, Pop
  <2>3. noShape => qdisc.root # "ours"
    BY DEF Sound, ShapeInv
  <2>. QED
    BY <1>1, <2>1, <2>2, <2>3, TopSender DEF UnwindSender, Pop, Unwound, OwnReceiver
<1>2. CASE UnwindClear
  <2>1. Pop("clear") /\ \E o \in Outcomes : Clear(o) /\ ~failed /\ ~ClearRaises(o)
    BY <1>2 DEF UnwindClear, Callback
  <2>2. Unwound
    BY <2>1 DEF CleanInv, Pop
  <2>3. qdisc'.root # "ours"
    BY <2>1, <2>2, TopClear, ClearWrites, QdiscFacts
  <2>. QED
    BY <1>2, <2>1, <2>2, <2>3, TopClear DEF UnwindClear, Pop, Unwound, OwnReceiver
<1>3. CASE UnwindReceiver
  <2>1. Pop("receiver") /\ \E o \in Outcomes : Stop(o) /\ ~failed /\ ~StopRaises(o)
    BY <1>3 DEF UnwindReceiver, Callback
  <2>2. Unwound
    BY <2>1 DEF CleanInv, Pop
  <2>3. session # 0
    BY <2>1, SessionBound DEF Sound, TInv, AtWork, Pop, Ids
  <2>4. receivers' = {} /\ owned' = 0 /\ finished' = session
    BY <2>1, <2>2, <2>3, TopReceiver DEF OwnReceiver, Stop, StopRaises
  <2>. QED
    BY <1>3, <2>1, <2>2, <2>4, TopReceiver DEF UnwindReceiver, Pop, Unwound, NoReceiver
<1>4. CASE UnwindLog
  <2>1. Pop("log") /\ ~failed
    BY <1>4 DEF UnwindLog, Callback
  <2>2. Unwound
    BY <2>1 DEF CleanInv, Pop
  <2>3. session \in Ids /\ session # 0
    BY <2>1, SessionBound DEF Sound, TInv, AtWork, Pop, Ids
  <2>4. logs' = [logs EXCEPT ![session] = session]
    BY <1>4, <2>1, <2>2, <2>3, TopLog DEF UnwindLog, Callback, Outcomes
  <2>5. logs'[session] = session
    BY <2>3, <2>4 DEF Sound, TInv, TypeOK
  <2>. QED
    BY <1>4, <2>1, <2>2, <2>5, TopLog DEF UnwindLog, Pop, Unwound, NoReceiver
<1>5. CASE UnwindGame
  <2>1. Pop("game") /\ ~failed /\ StopGame("done")
    BY <1>5 DEF UnwindGame, Callback
  <2>2. Unwound
    BY <2>1 DEF CleanInv, Pop
  <2>3. session # 0
    BY <2>1, SessionBound DEF Sound, TInv, AtWork, Pop, Ids
  <2>4. session \notin content' /\ display' # session
    BY <2>1, <2>3 DEF StopGame
  <2>. QED
    BY <1>5, <2>1, <2>2, <2>4, TopGame DEF UnwindGame, Pop, Unwound, NoReceiver
<1>. QED
  BY <1>1, <1>2, <1>3, <1>4, <1>5

\* The statements from which an unwinding begins raise; only the sender's end may not.
LEMMA UnwindBegins ==
    ASSUME Sound, Next, pc # "unwind", pc' = "unwind", ~failed'
    PROVE  Unwound'
<1>1. SenderEnds
  <2>1. ~(CheckPlan \/ Preflight \/ EndRun \/ StartSession)
    BY DEF CheckPlan, Preflight, EndRun, StartSession, Exit, Goto, Raise
  <2>2. ~(StartXvfb \/ StartContent \/ UndoGame \/ UnwindGame \/ GameDies)
    BY DEF StartXvfb, StartContent, UndoGame, UnwindGame, GameDies, Rendering, Unstart,
       Goto, Raise, Pop
  <2>3. ~(Launch \/ AlreadyOwned \/ Ready \/ UnwindReceiver \/ UnwindLog \/ ReceiverDies)
    BY DEF Launch, AlreadyOwned, Ready, UnwindReceiver, UnwindLog, ReceiverDies, Then,
       Goto, Raise, Pop
  <2>4. ~(CheckQdiscs \/ AddRoot \/ AddNetem \/ AddFilters \/ Undo)
    BY DEF CheckQdiscs, AddRoot, AddNetem, AddFilters, Undo, Then, Step, Goto, Raise
  <2>5. ~(Change \/ UnwindClear \/ Configure)
    BY DEF Change, UnwindClear, Configure, Then, Goto, Raise, Pop
  <2>6. ~(Spawn \/ UnwindSender \/ FinishSession)
    BY DEF Spawn, UnwindSender, FinishSession, Goto, Raise, Pop
  <2>. QED
    BY <2>1, <2>2, <2>3, <2>4, <2>5, <2>6 DEF Next
<1>2. pc = "run" /\ UNCHANGED << session, stack, noShape, applied, owned, receivers >>
  BY <1>1 DEF SenderEnds, local, runAll, shaper, remote
<1>3. OwnReceiver'
  BY <1>2 DEF Sound, AnswerInv, Answered, OwnReceiver
<1>4. IF noShape THEN stack = BareStack ELSE stack = FullStack /\ applied
  BY <1>2 DEF Sound, StackInv, ShapeInv
<1>. QED
  BY <1>2, <1>3, <1>4 DEF Unwound

\* A step during the unwinding that is not one of the callbacks'.
LEMMA UnwindFrame ==
    ASSUME CleanInv, Next, pc = "unwind", pc' = "unwind", ~failed',
           ~(UnwindSender \/ UnwindClear \/ UnwindReceiver \/ UnwindLog \/ UnwindGame),
           Sound
    PROVE  Unwound'
<1>1. ReceiverDies \/ GameDies
  BY DEF Next, CheckPlan, Preflight, EndRun, StartSession, StartXvfb, StartContent, UndoGame,
     Launch, AlreadyOwned, Ready, CheckQdiscs, AddRoot, AddNetem, AddFilters, Undo, Change,
     Spawn, SenderEnds, FinishSession, Configure
<1>2. /\ UNCHANGED << session, pc, stack, failed, sender, logs, noShape, applied, qdisc,
                      owned, finished >>
      /\ receivers' \subseteq receivers /\ content' \subseteq content
      /\ display' = display \/ display' = 0
  BY <1>1 DEF ReceiverDies, GameDies, local, game, runAll, shaper, remote
<1>3. session # 0
  BY SessionBound DEF Sound, TInv, AtWork, Ids
<1>. QED
  BY <1>2, <1>3 DEF CleanInv, Unwound, OwnReceiver, NoReceiver

\* A session that counts is clean at its end, and stays so until the next.
LEMMA OkStep ==
    ASSUME Sound, CleanInv, Next
    PROVE  OkIsClean'
<1>. SUFFICES ASSUME pc' = "idle", session' \in ok' PROVE OkIsClean'
  BY DEF OkIsClean
<1>0. session' # 0 /\ session # 0
  <2>1. session \in Nat /\ ok \subseteq 1..session
    BY SessionBound DEF Sound, TInv, TypeOK, CountInv
  <2>2. CASE FinishSession
    BY <2>2, SessionBound DEF FinishSession, Sound, TInv, AtWork, Ids
  <2>3. CASE ~FinishSession
    <3>1. UNCHANGED << session, ok >>
      BY <2>3 DEF Next, CheckPlan, Preflight, EndRun, StartSession, StartXvfb, StartContent,
         UndoGame, Launch, AlreadyOwned, Ready, CheckQdiscs, AddRoot, AddNetem, AddFilters,
         Undo, Change, Spawn, SenderEnds, UnwindSender, UnwindClear, UnwindReceiver,
         UnwindLog, UnwindGame, ReceiverDies, GameDies, Configure, Pop, local, Raise
    <3>. QED
      BY <2>1, <3>1
  <2>. QED
    BY <2>2, <2>3
<1>1. CASE FinishSession
  <2>1. pc = "unwind" /\ session \notin ok /\ stack = << >>
    BY <1>1 DEF FinishSession, Sound, CountInv
  <2>2. ~failed
    BY <1>1, <2>1 DEF FinishSession
  <2>3. Unwound
    BY <2>1, <2>2 DEF CleanInv
  <2>. QED
    BY <1>1, <2>1, <2>3, Bottom DEF FinishSession, game, shaper, remote, NoReceiver, OkIsClean
<1>2. CASE CheckPlan \/ Preflight
  BY <1>2 DEF CheckPlan, Preflight, Exit, Goto, Sound, CountInv
<1>3. CASE ReceiverDies \/ GameDies
  <2>1. /\ UNCHANGED << session, pc, ok, sender, logs, qdisc >>
        /\ receivers' \subseteq receivers /\ content' \subseteq content
        /\ display' = display \/ display' = 0
    BY <1>3 DEF ReceiverDies, GameDies, local, game, shaper, remote
  <2>. QED
    BY <1>0, <2>1 DEF CleanInv, OkIsClean
<1>4. CASE Configure
  BY <1>4, QdiscFacts DEF Configure, local, game, remote, CleanInv, OkIsClean
<1>5. pc # "idle" /\ pc' = "idle" => CheckPlan \/ Preflight \/ FinishSession
  BY DEF Next, EndRun, StartSession, StartXvfb, StartContent, UndoGame,
     Launch, AlreadyOwned, Ready, CheckQdiscs, AddRoot, AddNetem, AddFilters, Undo, Change,
     Spawn, SenderEnds, UnwindSender, UnwindClear, UnwindReceiver, UnwindLog, UnwindGame,
     ReceiverDies, GameDies, Configure, Pop, Exit, Goto, Raise, Then, Step, Rendering, Unstart
<1>6. pc = "idle" /\ pc' = "idle" => ReceiverDies \/ GameDies \/ Configure
  BY DEF Next, CheckPlan, Preflight, EndRun, StartSession, StartXvfb, StartContent, UndoGame,
     Launch, AlreadyOwned, Ready, CheckQdiscs, AddRoot, AddNetem, AddFilters, Undo, Change,
     Spawn, SenderEnds, UnwindSender, UnwindClear, UnwindReceiver, UnwindLog, UnwindGame,
     FinishSession, Pop, Exit, Raise
<1>. QED
  BY <1>1, <1>2, <1>3, <1>4, <1>5, <1>6

\* All of it, in every behaviour.
LEMMA SoundAlways == Spec => []Sound
<1>1. Init => StackInv
  BY DEF Init, StackInv
<1>2. TInv /\ ShapeInv /\ StackInv /\ [Next]_vars => StackInv'
  <2>1. ASSUME StackInv, UNCHANGED vars PROVE StackInv'
    BY <2>1 DEF StackInv, vars, local, runAll
  <2>. QED
    BY <2>1, StackStep
<1>3. Spec => []StackInv
  BY <1>1, <1>2, ShapeAlways, PTL DEF Spec
<1>. QED
  BY <1>3, ShapeAlways, AnswerAlways, CountAlways, PTL DEF Sound

\* A session whose result counts left nothing behind, for any number of sessions.
THEOREM OkClean == Spec => []OkIsClean
<1>1. Init => CleanInv
  BY DEF Init, CleanInv, OkIsClean
<1>2. Sound /\ CleanInv /\ [Next]_vars => CleanInv'
  <2>1. ASSUME CleanInv, UNCHANGED vars PROVE CleanInv'
    BY <2>1 DEF CleanInv, OkIsClean, Unwound, OwnReceiver, NoReceiver, vars, local, game,
       runAll, shaper, remote
  <2>2. ASSUME Sound, CleanInv, Next PROVE CleanInv'
    <3>1. pc' = "unwind" /\ ~failed' => Unwound'
      BY <2>2, UnwindStep, UnwindBegins, UnwindFrame
    <3>. QED
      BY <2>2, <3>1, OkStep DEF CleanInv
  <2>. QED
    BY <2>1, <2>2
<1>. QED
  BY <1>1, <1>2, SoundAlways, PTL DEF Spec, CleanInv
===============================================================================
