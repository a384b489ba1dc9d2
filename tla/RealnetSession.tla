---------------------------- MODULE RealnetSession ----------------------------
(***************************************************************************)
(* The two-machine experiments: run_all.py with its preflight checks and   *)
(* one session after another on one port, and run_session of session.py    *)
(* with the game of gamesim.py, the Shaper of netshape.py and the remote   *)
(* receivers of remote.py.                                                 *)
(*                                                                         *)
(* Each command, tc or ssh, may succeed, fail, or fail although it took    *)
(* effect (a timeout, a connection lost).  A failure raises: the session's *)
(* ExitStack then runs the callbacks pushed so far, last first, each of    *)
(* which may raise too, and the next session begins.                       *)
(***************************************************************************)
EXTENDS Naturals, Sequences, FiniteSets

CONSTANTS
    MaxSessions,    \* bound: sessions run
    Rates           \* rates the link is shaped to

ASSUME SessionBound == MaxSessions \in Nat
ASSUME RateKinds == Rates \subseteq Nat \ {0} /\ Rates # {}

Ids     == 1..MaxSessions
Someone == MaxSessions + 1      \* who is none of our sessions

VARIABLES
    session,        \* number of the session, its receiver's token
    pc,             \* the next statement of run_session
    stack,          \* callbacks of the ExitStack, last pushed first
    failed,         \* is an exception on its way out?
    ok,             \* sessions whose result counts, meta["ok"]
    sender,         \* is the sender process running?
    applied, rate,  \* the Shaper's applied and rate_mbit
    owned, finished,\* remote's _owned and _finished at the port, 0 for none
    qdisc,          \* the interface: whose root, netem's rate, the filter
    receivers,      \* tokens of receivers running at the other machine
    logs,           \* whose log each session's receiver.log is, 0 for none
    display,        \* whose Xvfb serves the X display, 0 for none
    content,        \* sessions whose game or test pattern runs
    backend, noShape, \* config's GAME_BACKEND and NO_SHAPE
    bad, exit       \* run_all: did a test fail, and what it exits with

game   == << display, content >>
runAll == << backend, noShape, bad, exit >>
local  == << ok, logs, game, runAll >>
shaper == << applied, rate, qdisc >>
remote == << owned, finished, receivers >>
vars   == << session, pc, stack, failed, sender, local, shaper, remote >>

Default == [root |-> "default", netem |-> 0, filter |-> "off"]
Foreign == [root |-> "foreign", netem |-> 0, filter |-> "off"]

Callbacks == {"sender", "clear", "receiver", "log", "game"}
Backends  == {"auto", "ffplay", "doom", "black"}

TypeOK ==
    /\ session \in 0..MaxSessions
    /\ pc \in {"plan", "preflight", "over", "idle", "xvfb", "content", "unstart",
               "launch", "ready", "check", "root", "netem", "filter", "undo",
               "spawn", "run", "unwind"}
    /\ stack \in Seq(Callbacks)
    /\ failed \in BOOLEAN /\ sender \in BOOLEAN /\ applied \in BOOLEAN
    /\ ok \subseteq Ids
    /\ rate \in Rates
    /\ owned \in 0..MaxSessions /\ finished \in 0..MaxSessions
    /\ qdisc \in [root : {"default", "ours", "foreign"}, netem : Rates \cup {0},
                  filter : {"off", "on"}]
    /\ receivers \subseteq Ids
    /\ logs \in [Ids -> 0..MaxSessions]
    /\ display \in 0..Someone /\ content \subseteq Ids
    /\ backend \in Backends /\ noShape \in BOOLEAN
    /\ bad \in BOOLEAN /\ exit \in 0..2

Init ==
    /\ session = 0 /\ pc = "plan" /\ stack = << >> /\ failed = FALSE
    /\ ok = {} /\ sender = FALSE
    /\ applied = FALSE /\ rate \in Rates
    /\ owned = 0 /\ finished = 0
    /\ qdisc \in {Default, Foreign} /\ receivers = {}
    /\ logs = [s \in Ids |-> 0]
    /\ display \in {0, Someone} /\ content = {}
    /\ backend \in Backends /\ noShape \in BOOLEAN
    /\ bad = FALSE /\ exit = 0

\* What becomes of a command: "late" took effect and raises all the same.
Outcomes == {"done", "failed", "late"}

Goto(next) == pc' = next /\ UNCHANGED failed
Raise      == pc' = "unwind" /\ failed' = TRUE

\* A command between two statements.
Then(o, next) == IF o = "done" THEN Goto(next) ELSE Raise

-----------------------------------------------------------------------------
(* run_all *)

Exit(status) == pc' = "over" /\ exit' = status /\ UNCHANGED failed

\* Unknown tests end it; the preflight may be skipped.
CheckPlan ==
    /\ pc = "plan"
    /\ \/ Exit(2)
       \/ (Goto("preflight") \/ Goto("idle")) /\ UNCHANGED exit
    /\ UNCHANGED << session, stack, sender, ok, logs, game, backend, noShape, bad,
                    shaper, remote >>

\* What the preflight looks at: each check is made, and all must pass.
Checks ==
    {"sender", "receiver", "Xvfb", "xdpyinfo", "ping", "ssh"}
        \cup (CASE backend \in {"auto", "ffplay"} -> {"ffplay"}
                [] backend = "doom"              -> {"chocolate-doom"}
                [] backend = "black"             -> {})
        \cup (IF noShape THEN {} ELSE {"tc", "sudo"})

Preflight ==
    /\ pc = "preflight"
    /\ \E passed \in SUBSET Checks :
          IF passed = Checks THEN Goto("idle") /\ UNCHANGED exit ELSE Exit(1)
    /\ UNCHANGED << session, stack, sender, ok, logs, game, backend, noShape, bad,
                    shaper, remote >>

\* No more tests: run_all counts those that went well.
EndRun ==
    /\ pc = "idle"
    /\ Exit(IF bad THEN 1 ELSE 0)
    /\ UNCHANGED << session, stack, sender, ok, logs, game, backend, noShape, bad,
                    shaper, remote >>

\* The next session: a bad argument, or no answer to a ping that is needed, raises
\* at once.  run_session's callbacks are pushed before what they undo is begun.
StartSession ==
    /\ pc = "idle" /\ session < MaxSessions
    /\ session' = session + 1
    /\ \/ pc' = "xvfb" /\ failed' = FALSE /\ stack' = << "game" >>
       \/ Raise /\ stack' = << >>
    /\ applied' = FALSE /\ rate' \in Rates
    /\ UNCHANGED << sender, local, qdisc, remote >>

-----------------------------------------------------------------------------
(* The game *)

\* A failure in GameSim.start stops what was started, then raises.
Unstart == Goto("unstart")

\* A display that answers is used, whoever runs it; else an Xvfb is started, which
\* may be up in time or not, or exit.
StartXvfb ==
    /\ pc = "xvfb"
    /\ \/ display # 0 /\ Goto("content") /\ UNCHANGED display
       \/ display = 0 /\ (Goto("content") \/ Unstart) /\ display' = session
       \/ Unstart /\ UNCHANGED display
    /\ UNCHANGED << session, stack, sender, ok, logs, content, runAll, shaper, remote >>

\* Then the receiver's callbacks are pushed.
Rendering == Goto("launch") /\ stack' = << "receiver", "log" >> \o stack

StartContent ==
    /\ pc = "content"
    /\ \/ backend = "black" /\ Rendering /\ UNCHANGED content
       \/ backend # "black" /\ Rendering /\ content' = content \cup {session}
       \/ /\ backend # "black" /\ Unstart
          /\ content' \in {content, content \cup {session}}
          /\ UNCHANGED stack
    /\ UNCHANGED << session, sender, ok, logs, display, runAll, shaper, remote >>

\* stop: the content, then our own Xvfb; the wait after a kill may raise, and what
\* comes after it is not stopped.
StopGame(o) ==
    /\ o = "content" => session \in content
    /\ o = "xvfb" => display = session
    /\ content' = IF o = "content" THEN content ELSE content \ {session}
    /\ display' = IF o = "done" /\ display = session THEN 0 ELSE display

StopOutcomes == {"done", "content", "xvfb"}

UndoGame ==
    /\ pc = "unstart"
    /\ \E o \in StopOutcomes : StopGame(o)
    /\ Raise
    /\ UNCHANGED << session, stack, sender, ok, logs, runAll, shaper, remote >>

-----------------------------------------------------------------------------
(* The remote receiver *)

\* A receiver that finds its port taken exits.
Listening == IF receivers = {} THEN {session} ELSE receivers

Launch ==
    /\ pc = "launch" /\ owned = 0
    /\ \E o \in Outcomes :
          /\ receivers' = IF o = "failed" THEN receivers ELSE Listening
          /\ owned' = IF o = "done" THEN session ELSE owned
          /\ Then(o, "ready")
    /\ UNCHANGED << session, stack, sender, local, shaper, finished >>

AlreadyOwned ==
    /\ pc = "launch" /\ owned # 0
    /\ Raise
    /\ UNCHANGED << session, stack, sender, local, shaper, remote >>

\* stop_receiver: its state moves to _finished when the command returns, and the
\* receiver is dead then: the last KILL is not waited for, but nothing survives it.
Stop(o) ==
    /\ receivers' = IF o = "failed" THEN receivers ELSE receivers \ {owned}
    /\ owned' = IF o = "done" THEN 0 ELSE owned
    /\ finished' = IF o = "done" /\ owned # 0 THEN owned ELSE finished

StopRaises(o) == owned # 0 /\ o # "done"

\* The readiness loop; `clear' is pushed right after it, if the link is shaped.
Ready ==
    /\ pc = "ready"
    /\ \/ /\ session \in receivers
          /\ IF noShape THEN Goto("spawn") /\ UNCHANGED stack
             ELSE Goto("check") /\ stack' = << "clear" >> \o stack
          /\ UNCHANGED remote
       \/ /\ Raise /\ UNCHANGED stack
          /\ \E o \in Outcomes : Stop(o)
    /\ UNCHANGED << session, sender, local, shaper >>

-----------------------------------------------------------------------------
(* The shaper *)

\* apply refuses an interface that is configured.
Free == qdisc.root = "default"

CheckQdiscs ==
    /\ pc = "check"
    /\ \/ Free /\ Goto("root")
       \/ Raise
    /\ UNCHANGED << session, stack, sender, local, shaper, remote >>

AddRoot ==
    /\ pc = "root"
    /\ \E o \in Outcomes :
          /\ qdisc' = IF o = "failed" THEN qdisc ELSE [Default EXCEPT !.root = "ours"]
          /\ applied' = (o = "done")
          /\ Then(o, "netem")
    /\ UNCHANGED << session, stack, sender, local, rate, remote >>

\* clear: "late" also stands for a root deleted whose result could not be read.
ClearAny(o) ==                              \* mutant of Clear
    IF applied /\ o # "failed" THEN qdisc' = Default /\ applied' \in {FALSE, o = "late"}
    ELSE UNCHANGED << qdisc, applied >>
Clear(o) ==
    IF applied /\ qdisc.root = "ours" /\ o # "failed"
    THEN qdisc' = Default /\ applied' \in {FALSE, o = "late"}
    ELSE UNCHANGED << qdisc, applied >>

ClearRaises(o) == applied /\ (qdisc.root # "ours" \/ o # "done")

\* The commands after the root is added: a failure is undone.
StepUnchecked(o, next) == Goto(next)        \* mutant of Step
Step(o, next) == IF o = "done" THEN Goto(next) ELSE Goto("undo")

AddNetem ==
    /\ pc = "netem"
    /\ \E o \in Outcomes :
          /\ qdisc' = IF o = "failed" THEN qdisc ELSE [qdisc EXCEPT !.netem = rate]
          /\ Step(o, "filter")
    /\ UNCHANGED << session, stack, sender, local, applied, rate, remote >>

AddFilters ==
    /\ pc = "filter"
    /\ \E o \in Outcomes :
          /\ qdisc' = IF o = "failed" THEN qdisc ELSE [qdisc EXCEPT !.filter = "on"]
          /\ Step(o, "spawn")
    /\ UNCHANGED << session, stack, sender, local, applied, rate, remote >>

\* apply clears, and raises whether that worked or not.
Undo ==
    /\ pc = "undo"
    /\ \E o \in Outcomes : Clear(o)
    /\ Raise
    /\ UNCHANGED << session, stack, sender, local, rate, remote >>

\* What a scheduled change does not name, 0, stays.
Proposed(given) == IF given = 0 THEN rate ELSE given

\* change: the Shaper's own rate follows only when the command succeeded.
Change ==
    /\ pc = "run" /\ ~noShape
    /\ \E o \in Outcomes, given \in Rates \cup {0} :
          /\ o # "failed" => qdisc.root = "ours"
          /\ qdisc' = IF o = "failed" THEN qdisc ELSE [qdisc EXCEPT !.netem = Proposed(given)]
          /\ rate' = IF o = "done" THEN Proposed(given) ELSE rate
          /\ Then(o, "run")
    /\ UNCHANGED << session, stack, sender, local, applied, remote >>

-----------------------------------------------------------------------------
(* The sender, and the way out *)

Spawn ==
    /\ pc = "spawn"
    /\ \/ sender' = TRUE /\ stack' = << "sender" >> \o stack /\ Goto("run")
       \/ Raise /\ UNCHANGED << sender, stack >>
    /\ UNCHANGED << session, local, shaper, remote >>

\* The sender exits well, or badly, or outlives its time.
SenderEnds ==
    /\ pc = "run"
    /\ \/ sender' = FALSE /\ (Goto("unwind") \/ Raise)
       \/ Raise /\ UNCHANGED sender
    /\ UNCHANGED << session, stack, local, shaper, remote >>

Pop(callback) == /\ pc = "unwind" /\ stack # << >> /\ Head(stack) = callback
                 /\ stack' = Tail(stack)
                 /\ UNCHANGED << session, pc >>

\* An exception of a callback does not keep the others from running, and counts.
CallbackIgnored(raises) == UNCHANGED failed         \* mutant of Callback
Callback(raises) == failed' = (failed \/ raises)

UnwindSender ==
    /\ Pop("sender")
    /\ sender' \in {FALSE, sender}
    /\ Callback(sender')
    /\ UNCHANGED << local, shaper, remote >>

UnwindClear ==
    /\ Pop("clear")
    /\ \E o \in Outcomes : Clear(o) /\ Callback(ClearRaises(o))
    /\ UNCHANGED << sender, local, rate, remote >>

UnwindReceiver ==
    /\ Pop("receiver")
    /\ \E o \in Outcomes : Stop(o) /\ Callback(StopRaises(o))
    /\ UNCHANGED << sender, local, shaper >>

\* fetch_receiver_log copies the log of the port's receiver, owned or finished.
UnwindLog ==
    /\ Pop("log")
    /\ LET whose == IF owned # 0 THEN owned ELSE finished
       IN  \E o \in IF whose = 0 THEN {"done"} ELSE Outcomes :
              /\ logs' = IF o = "failed" THEN logs ELSE [logs EXCEPT ![session] = whose]
              /\ Callback(o # "done")
    /\ UNCHANGED << ok, game, runAll, sender, shaper, remote >>

UnwindGame ==
    /\ Pop("game")
    /\ \E o \in StopOutcomes : StopGame(o) /\ Callback(o # "done")
    /\ UNCHANGED << ok, logs, runAll, sender, shaper, remote >>

\* A test with a session that failed has failed, whatever follows.
FailsLast(counts) == ~counts                        \* mutant of Fails
Fails(counts) == bad \/ ~counts

\* The results are evaluated, which may raise.
FinishSession ==
    /\ pc = "unwind" /\ stack = << >>
    /\ pc' = "idle"
    /\ ok' \in {ok, IF failed THEN ok ELSE ok \cup {session}}
    /\ bad' = Fails(session \in ok')
    /\ UNCHANGED << session, stack, failed, sender, logs, game, backend, noShape, exit,
                    shaper, remote >>

-----------------------------------------------------------------------------
(* The environment *)

ReceiverDies ==
    /\ \E t \in receivers : receivers' = receivers \ {t}
    /\ UNCHANGED << session, pc, stack, failed, sender, local, shaper, owned, finished >>

\* A game process, or an Xvfb of ours, dies on its own.
GameDies ==
    /\ \/ \E s \in content : content' = content \ {s} /\ UNCHANGED display
       \/ display \in Ids /\ display' = 0 /\ UNCHANGED content
    /\ UNCHANGED << session, pc, stack, failed, sender, ok, logs, runAll, shaper, remote >>

\* Someone configures the interface, between sessions or while the sender runs.
Configure ==
    /\ pc \in {"idle", "run"} /\ qdisc.root # "foreign"
    /\ qdisc' = Foreign
    /\ UNCHANGED << session, pc, stack, failed, sender, local, applied, rate, remote >>

Next ==
    \/ CheckPlan \/ Preflight \/ EndRun \/ StartSession
    \/ StartXvfb \/ StartContent \/ UndoGame
    \/ Launch \/ AlreadyOwned \/ Ready
    \/ CheckQdiscs \/ AddRoot \/ AddNetem \/ AddFilters \/ Undo \/ Change
    \/ Spawn \/ SenderEnds
    \/ UnwindSender \/ UnwindClear \/ UnwindReceiver \/ UnwindLog \/ UnwindGame
    \/ FinishSession
    \/ ReceiverDies \/ GameDies \/ Configure

Spec == Init /\ [][Next]_vars

-----------------------------------------------------------------------------
(* Properties *)

\* A session whose result counts left nothing behind, whichever commands failed
\* or took effect late in it and in the sessions before it: no shaping of ours, no
\* receiver, no sender, no game or Xvfb that it started, and the log it kept is its
\* own receiver's (session.py:52-86, netshape.py:65-95, remote.py:30-65,
\* gamesim.py:104-122).
OkIsClean ==
    pc = "idle" /\ session \in ok =>
        /\ qdisc.root # "ours" /\ receivers = {} /\ ~sender
        /\ session \notin content /\ display # session
        /\ logs[session] = session

\* What is measured is what was configured: while the sender runs and nobody else
\* touched the interface, its traffic is shaped to the rate the Shaper believes, by
\* netem and filter, or with NO_SHAPE not at all, whatever the sessions before it
\* left, and no other session's receiver answers it.
MeasuredAsConfigured ==
    pc = "run" => /\ receivers \subseteq {session}
                  /\ qdisc = Foreign \/ qdisc =
                        IF noShape THEN Default
                        ELSE [root |-> "ours", netem |-> rate, filter |-> "on"]

\* What someone else configured or runs is left alone (TECHNICAL_DOCUMENTATION.md
\* 510, gamesim.py:43-45): the interface, also by the cleanup of a session in the
\* middle of which it appeared, and an X display that sessions use.
ForeignKept ==
    [][ /\ qdisc = Foreign => qdisc' = Foreign
        /\ display = Someone => display' = Someone ]_vars

\* run_all exits with 0 only if every session of every test counts, and so was
\* clean (run_all.py:72-82, 109-113), unless it had none to run.
ExitTellsAll == pc = "over" /\ exit = 0 => 1..session \subseteq ok
===============================================================================
