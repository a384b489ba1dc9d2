------------------------- MODULE SenderFeedbackProofs -------------------------
(***************************************************************************)
(* Theorems about SenderFeedback, for any numbers of packets, probes and   *)
(* frames, any time-outs and any failures of its threads.                  *)
(*                                                                         *)
(* Every step of the sender is one of FrameLedger or leaves the ledger     *)
(* alone, a sender that has stopped leaves no frame without an outcome, no *)
(* packet of a frame that counts as sent is forgotten, and neither losses  *)
(* nor retransmissions come early.  Every variable keeps its type, the     *)
(* marks for retransmission and the deque agree, and a frame retransmitted *)
(* or told of as repaired never counts as clean.                           *)
(***************************************************************************)
EXTENDS SenderFeedback, FiniteSetTheorems, SequenceTheorems, WellFoundedInduction, TLAPS

-----------------------------------------------------------------------------
(* Numbers *)

Less == {p \in Nat \X Nat : p[1] < p[2]}

\* Natural numbers do not decrease for ever.
LEMMA LessWellFounded == IsWellFoundedOn(Less, Nat)
BY NatLessThanWellFounded DEF OpToRel, Less

\* A set of numbers up to n has a greatest one.
LEMMA HasGreatest ==
    ASSUME NEW n \in Nat, NEW S, S \subseteq 1..n, S # {}
    PROVE  \E m \in S : \A k \in S : k <= m
<1>1. \A k \in S : k \in Nat /\ n - k \in Nat
  OBVIOUS
<1>. DEFINE T == {n - k : k \in S}
<1>2. T \subseteq Nat
  BY <1>1
<1>3. T # {}
  OBVIOUS
<1>4. PICK x \in T : \A y \in T : ~ (<< y, x >> \in Less)
  <2>. HIDE DEF T
  <2>. QED
    BY <1>2, <1>3, LessWellFounded, WFMin
<1>5. PICK m \in S : x = n - m
  BY <1>4
<1>6. ASSUME NEW k \in S
      PROVE  k <= m
  <2>1. n - k \in T /\ n - k \in Nat /\ n - m \in Nat
    BY <1>1
  <2>2. << n - k, n - m >> \notin Less
    BY <1>4, <1>5, <2>1
  <2>3. ~(n - k < n - m)
    BY <2>1, <2>2 DEF Less
  <2>. QED
    BY <1>1, <2>3
<1>. QED
  BY <1>6

-----------------------------------------------------------------------------
(* Frames in flight *)

\* What the proofs need of a frame's record.
IsFrame(fr) ==
    /\ {"created", "allSent", "sentAt", "acked", "queued"} \subseteq DOMAIN fr
    /\ fr.created \in Ages
    /\ fr.sentAt \in [Pids -> Delays]

FlightInv ==
    /\ startedAge \in Ages
    /\ lag \in Nat
    /\ \A f \in Live : IsFrame(inflight[f])

\* h is g after an ACK or the timers: its times stay, acknowledged packets too.
After(g, h) ==
    /\ h.created = g.created /\ h.sentAt = g.sentAt /\ h.allSent = g.allSent
    /\ Pids \ h.acked \subseteq Pids \ g.acked

\* h is g after the pacer: what was sent stays sent, nothing new is marked.
Sent(g, h) ==
    /\ h.created = g.created
    /\ h.queued \subseteq g.queued
    /\ h.acked = g.acked
    /\ \A p \in Pids : g.sentAt[p] # NotYet => h.sentAt[p] # NotYet

\* An ACK changes no time, and only takes marks for retransmission away.
LEMMA AckEffect ==
    ASSUME NEW fr, IsFrame(fr), NEW a
    PROVE  /\ IsFrame(Acknowledge(fr, a))
           /\ After(fr, Acknowledge(fr, a))
           /\ Acknowledge(fr, a).queued \subseteq fr.queued
<1>. DEFINE marked ==
        [fr EXCEPT !.loss   = @ \/ a.kind = "recovered",
                   !.probes = IF a.kind = "probe" THEN @ \cup {a.pid} ELSE @,
                   !.acked  = IF a.kind = "probe" THEN @ ELSE @ \cup {a.pid},
                   !.queued = IF a.kind = "probe" THEN @ ELSE @ \ {a.pid}]
<1>1. /\ IsFrame(marked) /\ After(fr, marked) /\ marked.queued \subseteq fr.queued
  BY DEF IsFrame, After
<1>. HIDE DEF marked
<1>. DEFINE whole == [marked EXCEPT !.delivered = TRUE, !.acked = Pids, !.queued = {}]
<1>2. /\ IsFrame(whole) /\ After(fr, whole) /\ whole.queued \subseteq fr.queued
  BY <1>1 DEF IsFrame, After
<1>. HIDE DEF whole
<1>3. Acknowledge(fr, a) = IF a.complete THEN whole ELSE marked
  BY DEF Acknowledge, marked, whole
<1>. QED
  BY <1>1, <1>2, <1>3

\* Timers change no time, and mark only packets that are due.
LEMMA DueEffect ==
    ASSUME NEW fr, IsFrame(fr)
    PROVE  /\ IsFrame(WithDue(fr))
           /\ After(fr, WithDue(fr))
           /\ WithDue(fr).queued = fr.queued \cup Due(fr)
BY DEF IsFrame, After, WithDue

\* A packet that is due was sent retry_delay_us ago, a frame that has expired
\* began FRAME_TIMEOUT ago: the listener's clock is behind, never ahead.
LEMMA ReallyOver ==
    ASSUME FlightInv, NEW fr, IsFrame(fr)
    PROVE  /\ \A p \in Due(fr) : fr.sentAt[p] >= RetryDelay
           /\ Expired(fr) => fr.created > FrameTimeout
<1>1. lag \in Nat /\ RetryDelay \in Nat /\ FrameTimeout \in Nat
  BY Times DEF FlightInv
<1>2. fr.created \in Int /\ \A p \in Pids : fr.sentAt[p] \in Int
  BY DEF IsFrame, Ages, Delays, NotYet
<1>3. \A p \in Due(fr) : p \in Pids /\ DelayOver(fr.sentAt[p])
  BY DEF Due
<1>. QED
  BY <1>1, <1>2, <1>3 DEF DelayOver, Since, Expired

\* A frame that the pacer begins has nothing sent.
LEMMA NewIsFrame ==
    ASSUME NEW age \in Ages
    PROVE  IsFrame(NewFrame(age)) /\ ~NewFrame(age).allSent
BY Times DEF IsFrame, NewFrame, Delays, MaxDelay, NotYet

\* What the pacer does to frames in flight between beginning two.
LEMMA PacerEffect ==
    ASSUME FlightInv, PacerResend \/ PacerData \/ PacerSent \/ PacerProbed
    PROVE  /\ Live' = Live
           /\ \A f \in Live : IsFrame(inflight'[f]) /\ Sent(inflight[f], inflight'[f])
<1>. USE DEF FlightInv, Live
<1>1. CASE PacerResend
  <2>1. PICK g, p : Resend(g, p)
    BY <1>1 DEF PacerResend
  <2>2. 0 \in Delays /\ 0 # NotYet
    BY Times DEF Delays, MaxDelay, NotYet
  <2>. QED
    BY <2>1, <2>2 DEF Resend, IsFrame, Sent
<1>2. CASE PacerData
  <2>2. 0 \in Delays /\ 0 # NotYet
    BY Times DEF Delays, MaxDelay, NotYet
  <2>. QED
    BY <1>2, <2>2 DEF PacerData, IsFrame, Sent
<1>3. CASE PacerSent
  BY <1>3 DEF PacerSent, IsFrame, Sent
<1>4. CASE PacerProbed
  BY <1>4 DEF PacerProbed, IsFrame, Sent
<1>. QED
  BY <1>1, <1>2, <1>3, <1>4

\* A frame that is one age older, as far as ages are told apart.
LEMMA TickEffect ==
    ASSUME FlightInv, Tick
    PROVE  /\ Live' = Live
           /\ \A f \in Live : /\ IsFrame(inflight'[f])
                              /\ inflight'[f].allSent = inflight[f].allSent
                              /\ inflight'[f].acked = inflight[f].acked
                              /\ inflight'[f].queued = inflight[f].queued
                              /\ \A p \in Pids : inflight[f].sentAt[p] # NotYet
                                                 => inflight'[f].sentAt[p] # NotYet
<1>1. ASSUME NEW age \in Ages
      PROVE  Older(age, MaxAge) \in Ages
  BY <1>1, Times DEF Older, Ages, MaxAge, NotYet
<1>2. ASSUME NEW age \in Delays
      PROVE  Older(age, MaxDelay) \in Delays /\ (age # NotYet => Older(age, MaxDelay) # NotYet)
  BY <1>2, Times DEF Older, Delays, MaxDelay, NotYet
<1>. DEFINE older(fr) == [fr EXCEPT !.created  = Older(@, MaxAge),
                                    !.probesAt = Older(@, MaxDelay),
                                    !.sentAt   = [p \in Pids |-> Older(@[p], MaxDelay)]]
<1>3. inflight' = [f \in Live |-> older(inflight[f])]
  BY DEF Tick
<1>4. ASSUME NEW fr, IsFrame(fr)
      PROVE  /\ IsFrame(older(fr))
             /\ older(fr).allSent = fr.allSent /\ older(fr).acked = fr.acked
             /\ older(fr).queued = fr.queued
             /\ \A p \in Pids : fr.sentAt[p] # NotYet => older(fr).sentAt[p] # NotYet
  BY <1>1, <1>2, <1>4 DEF IsFrame
<1>. HIDE DEF older
<1>. QED
  BY <1>3, <1>4 DEF FlightInv, Live

-----------------------------------------------------------------------------
(* The listener *)

Outcomes == {"clean", "lossy", "unsampled", "lost"}

\* A step that resolves the frames in done: they are the oldest in flight, each
\* has an outcome, and the others are no worse for it.
Handled(done) ==
    /\ done \subseteq Live
    /\ \A f \in done, g \in Live : g <= f => g \in done
    /\ Live' = Live \ done
    /\ \A f \in Live \ done :
          /\ IsFrame(inflight'[f]) /\ After(inflight[f], inflight'[f])
          /\ \A p \in inflight'[f].queued \ inflight[f].queued :
                inflight[f].sentAt[p] >= RetryDelay
    /\ \E o \in [Live -> Outcomes] :
          /\ outcome' = [i \in Ids |-> IF i \in done THEN o[i] ELSE outcome[i]]
          /\ \A f \in done : o[f] = "lost" => inflight[f].created > FrameTimeout

\* Every frame has some outcome, and a loss only if it was not delivered.
LEMMA SomeOutcome ==
    ASSUME NEW fr, NEW measured
    PROVE  /\ OutcomeOf(fr, measured) \in Outcomes
           /\ OutcomeOf(fr, measured) = "lost" => ~fr.delivered
BY DEF OutcomeOf, Outcomes

\* The ACK, the timers and resolve together.
LEMMA ListenerHandles ==
    ASSUME FlightInv, Live \subseteq Nat, ListenerStep
    PROVE  \E done : Handled(done)
<1>. DEFINE fs   == TakeAck(got)
            due  == [f \in Live |-> WithDue(fs[f])]
            done == Resolved(due)
            owd  == hasOwd \/ got.kind \in {"data", "probe"}
<1>1. /\ inflight' = [f \in Live \ done |-> due[f]]
      /\ outcome' = [i \in Ids |-> IF i \in done THEN OutcomeOf(due[i], owd)
                                   ELSE outcome[i]]
  BY DEF ListenerStep
<1>2. ASSUME NEW f \in Live
      PROVE  /\ IsFrame(fs[f]) /\ After(inflight[f], fs[f])
             /\ fs[f].queued \subseteq inflight[f].queued
  <2>1. IsFrame(inflight[f])
    BY DEF FlightInv
  <2>2. CASE fs[f] = inflight[f]
    BY <2>1, <2>2 DEF After
  <2>3. CASE fs[f] = Acknowledge(inflight[f], got)
    BY <2>1, <2>3, AckEffect
  <2>4. fs[f] = inflight[f] \/ fs[f] = Acknowledge(inflight[f], got)
    BY DEF TakeAck, Live
  <2>. QED
    BY <2>2, <2>3, <2>4
<1>. HIDE DEF fs
<1>3. ASSUME NEW f \in Live
      PROVE  /\ IsFrame(due[f]) /\ After(inflight[f], due[f])
             /\ due[f].queued \subseteq inflight[f].queued \cup Due(fs[f])
             /\ \A p \in Due(fs[f]) : inflight[f].sentAt[p] >= RetryDelay
             /\ Expired(due[f]) => inflight[f].created > FrameTimeout
  <2>1. /\ IsFrame(fs[f]) /\ After(inflight[f], fs[f])
        /\ fs[f].queued \subseteq inflight[f].queued
    BY <1>2
  <2>2. /\ IsFrame(due[f]) /\ After(fs[f], due[f])
        /\ due[f].queued = fs[f].queued \cup Due(fs[f])
    BY <2>1, DueEffect
  <2>3. After(inflight[f], due[f])
    BY <2>1, <2>2 DEF After
  <2>4. /\ \A p \in Due(fs[f]) : inflight[f].sentAt[p] >= RetryDelay
        /\ Expired(due[f]) => inflight[f].created > FrameTimeout
    BY <2>1, <2>2, <2>3, ReallyOver DEF After
  <2>. QED
    BY <2>1, <2>2, <2>3, <2>4
<1>4. DOMAIN due = Live
  OBVIOUS
<1>. HIDE DEF due
<1>5. /\ done \subseteq Live
      /\ \A f \in done, g \in Live : g <= f => g \in done
      /\ \A f \in done : Resolvable(due[f])
  <2>1. done = {f \in Live : \A g \in Live : g <= f => Resolvable(due[g])}
    BY <1>4 DEF Resolved
  <2>2. \A f, g, h \in Live : f <= f /\ (h <= g /\ g <= f => h <= f)
    OBVIOUS
  <2>. QED
    BY <2>1, <2>2
<1>6. ASSUME NEW f \in done
      PROVE  OutcomeOf(due[f], owd) = "lost" => inflight[f].created > FrameTimeout
  BY <1>3, <1>5, SomeOutcome DEF Resolvable
<1>. HIDE DEF done
<1>7. /\ Live' = Live \ done
      /\ \A f \in Live \ done : inflight'[f] = due[f]
  BY <1>1 DEF Live
<1>8. ASSUME NEW f \in Live \ done
      PROVE  /\ IsFrame(inflight'[f]) /\ After(inflight[f], inflight'[f])
             /\ \A p \in inflight'[f].queued \ inflight[f].queued :
                   inflight[f].sentAt[p] >= RetryDelay
  BY <1>3, <1>7
<1>9. \E o \in [Live -> Outcomes] :
          /\ outcome' = [i \in Ids |-> IF i \in done THEN o[i] ELSE outcome[i]]
          /\ \A f \in done : o[f] = "lost" => inflight[f].created > FrameTimeout
  <2>. DEFINE o == [f \in Live |-> OutcomeOf(due[f], owd)]
  <2>1. o \in [Live -> Outcomes]
    BY SomeOutcome
  <2>2. \A f \in done : o[f] = OutcomeOf(due[f], owd)
    BY <1>5
  <2>. HIDE DEF o
  <2>3. outcome' = [i \in Ids |-> IF i \in done THEN o[i] ELSE outcome[i]]
    BY <1>1, <2>2
  <2>4. \A f \in done : o[f] = "lost" => inflight[f].created > FrameTimeout
    BY <1>6, <2>2
  <2>. QED
    BY <2>1, <2>3, <2>4
<1>. QED
  BY <1>5, <1>7, <1>8, <1>9 DEF Handled

\* Times are times, whatever the threads do.
LEMMA FlightInvStep ==
    ASSUME FlightInv, Live \subseteq Nat, [Next]_vars
    PROVE  FlightInv'
<1>0. NotYet \in Ages /\ 0 \in Ages /\ 0 \in Nat
  BY Times DEF Ages, MaxAge, NotYet
<1>1. CASE PacerBegin
  <2>1. IsFrame(NewFrame(startedAge))
    BY NewIsFrame DEF FlightInv
  <2>. QED
    BY <1>0, <1>1, <2>1 DEF PacerBegin, FlightInv, Live
<1>2. CASE PacerResend \/ PacerData \/ PacerSent \/ PacerProbed
  <2>1. UNCHANGED << startedAge, lag >>
    BY <1>2 DEF PacerResend, PacerData, PacerSent, PacerProbed, threads
  <2>. QED
    BY <1>2, <2>1, PacerEffect DEF FlightInv
<1>3. CASE ListenerStep
  <2>1. PICK done : Handled(done)
    BY <1>3, ListenerHandles
  <2>2. lag' \in Nat /\ startedAge' \in Ages
    BY <1>0, <1>3 DEF ListenerStep, FlightInv
  <2>. QED
    BY <2>1, <2>2 DEF Handled, FlightInv
<1>4. CASE Tick
  <2>1. /\ lag' = IF listener = "lock" THEN lag + 1 ELSE lag
        /\ startedAge' = IF pacer = "begin" THEN Older(startedAge, MaxAge) ELSE startedAge
    BY <1>4, Zenon DEF Tick
  <2>2. lag' \in Nat /\ startedAge' \in Ages
    BY <2>1, Times DEF FlightInv, Older, Ages, MaxAge, NotYet
  <2>. QED
    BY <1>4, <2>1, <2>2, TickEffect DEF FlightInv
<1>5. CASE MainCloses
  BY <1>5 DEF MainCloses, FlightInv, Live
<1>6. CASE /\ UNCHANGED inflight
           /\ startedAge' \in {startedAge, NotYet, 0} /\ lag' \in {lag, 0}
  BY <1>0, <1>6 DEF FlightInv, Live
<1>7. CASE CaptureCheck \/ CapturePush \/ CaptureEnds \/ Fail \/ MainStopsProducing
           \/ MainJoinsCapture \/ MainStops \/ UNCHANGED vars
  BY <1>6, <1>7 DEF CaptureCheck, CapturePush, CaptureEnds, Fail, MainStopsProducing,
     MainJoinsCapture, MainStops, vars, shared, threads
<1>8. CASE PacerNoResend \/ PacerIdle \/ PacerProbe \/ ListenerRead \/ ListenerEnds
  BY <1>6, <1>8 DEF PacerNoResend, PacerIdle, PacerProbe, ListenerRead, ListenerEnds, shared
<1>. QED
  BY <1>1, <1>2, <1>3, <1>4, <1>5, <1>7, <1>8 DEF Next, Pacer, Listener

-----------------------------------------------------------------------------
(* The ledger *)

\* Frames that wait or are being encoded have an identifier left for each.
QueueInv ==
    /\ nextId \in Nat /\ 1 <= nextId
    /\ queue \in Nat /\ nextId + queue <= MaxFrames + 1
    /\ capture = "encode" => nextId + queue <= MaxFrames

\* In flight are exactly the frames begun that have no outcome yet.
LedgerInv ==
    /\ QueueInv
    /\ outcome \in [Ids -> Outcomes \cup {"open"}]
    /\ Live = {i \in 1..(nextId - 1) : outcome[i] = "open"}
    /\ \A i \in Ids : i >= nextId => outcome[i] = "open"

\* Frames in flight are frames.
LEMMA LiveAreIds ==
    ASSUME LedgerInv
    PROVE  Live \subseteq Ids /\ Live \subseteq Nat /\ Live \subseteq 1..(nextId - 1)
BY FrameBound DEF LedgerInv, QueueInv, Ids

\* The steps that resolve frames: one of the listener, and the last one of stop().
LEMMA Resolving ==
    ASSUME FlightInv, LedgerInv, ListenerStep \/ MainCloses
    PROVE  \E done, o :
              /\ done \subseteq Live /\ Live' = Live \ done
              /\ \A f \in done, g \in Live : g <= f => g \in done
              /\ o \in [Live -> Outcomes]
              /\ outcome' = [i \in Ids |-> IF i \in done THEN o[i] ELSE outcome[i]]
<1>1. CASE ListenerStep
  <2>1. PICK done : Handled(done)
    BY <1>1, LiveAreIds, ListenerHandles
  <2>. QED
    BY <2>1 DEF Handled
<1>2. CASE MainCloses
  <2>. DEFINE o == [f \in Live |-> OutcomeOf(inflight[f], FALSE)]
  <2>1. o \in [Live -> Outcomes]
    BY SomeOutcome
  <2>2. outcome' = [i \in Ids |-> IF i \in Live THEN o[i] ELSE outcome[i]]
    BY <1>2 DEF MainCloses, Closing
  <2>3. Live' = {}
    BY <1>2 DEF MainCloses, Live
  <2>. HIDE DEF o
  <2>4. \A f \in Live, g \in Live : g <= f => g \in Live
    OBVIOUS
  <2>. QED
    BY <2>1, <2>2, <2>3, <2>4
<1>. QED
  BY <1>1, <1>2

\* Every other step begins a frame or none, and resolves none.
LEMMA NotResolving ==
    ASSUME FlightInv, LedgerInv, [Next]_vars, ~ListenerStep, ~MainCloses
    PROVE  /\ UNCHANGED outcome
           /\ \/ UNCHANGED nextId /\ Live' = Live
              \/ PacerBegin /\ nextId' = nextId + 1 /\ Live' = Live \cup {nextId}
<1>1. CASE PacerResend \/ PacerData \/ PacerSent \/ PacerProbed
  <2>1. UNCHANGED << outcome, nextId >>
    BY <1>1 DEF PacerResend, PacerData, PacerSent, PacerProbed, history
  <2>. QED
    BY <1>1, <2>1, PacerEffect
<1>2. CASE PacerBegin
  BY <1>2 DEF PacerBegin, history, Live
<1>3. CASE Tick
  BY <1>3, TickEffect DEF Tick, history
<1>4. CASE CaptureCheck \/ CapturePush \/ CaptureEnds \/ Fail \/ MainStopsProducing
           \/ MainJoinsCapture \/ MainStops \/ UNCHANGED vars
  BY <1>4 DEF CaptureCheck, CapturePush, CaptureEnds, Fail, MainStopsProducing,
     MainJoinsCapture, MainStops, vars, shared, history, Live
<1>5. CASE PacerNoResend \/ PacerIdle \/ PacerProbe \/ ListenerRead \/ ListenerEnds
  BY <1>5 DEF PacerNoResend, PacerIdle, PacerProbe, ListenerRead, ListenerEnds, shared,
     history, Live
<1>. QED
  BY <1>1, <1>2, <1>3, <1>4, <1>5 DEF Next, Pacer, Listener

\* A frame that is queued takes an identifier that is left.
LEMMA QueueStep ==
    ASSUME QueueInv, [Next]_vars
    PROVE  QueueInv'
<1>. USE FrameBound DEF QueueInv
<1>1. CASE CaptureCheck
  BY <1>1 DEF CaptureCheck, shared
<1>2. CASE CapturePush
  <2>1. /\ capture = "encode" /\ capture' = "check" /\ nextId' = nextId
        /\ queue' = queue \/ queue' = queue + 1
    BY <1>2 DEF CapturePush
  <2>. QED
    BY <2>1
<1>3. CASE PacerBegin
  <2>1. queue > 0 /\ queue' = queue - 1 /\ nextId' = nextId + 1 /\ UNCHANGED capture
    BY <1>3, Zenon DEF PacerBegin
  <2>. QED
    BY <2>1
<1>4. CASE MainCloses
  <2>1. queue' = 0 /\ UNCHANGED << nextId, capture >> /\ capture = "ended"
    BY <1>4 DEF MainCloses, Joined
  <2>. QED
    BY <2>1
<1>5. CASE UNCHANGED << nextId, queue >> /\ capture' \in {capture, "ended"}
  BY <1>5
<1>6. CASE CaptureEnds \/ Fail \/ MainStopsProducing \/ MainJoinsCapture \/ MainStops
           \/ Tick \/ UNCHANGED vars
  BY <1>5, <1>6 DEF CaptureEnds, Fail, MainStopsProducing, MainJoinsCapture, MainStops,
     Tick, vars, shared, threads
<1>7. CASE PacerResend \/ PacerNoResend \/ PacerIdle \/ PacerData \/ PacerSent
           \/ PacerProbe \/ PacerProbed \/ Listener
  BY <1>5, <1>7 DEF PacerResend, PacerNoResend, PacerIdle, PacerData, PacerSent,
     PacerProbe, PacerProbed, Listener, ListenerRead, ListenerEnds, ListenerStep,
     shared, threads
<1>. QED
  BY <1>1, <1>2, <1>3, <1>4, <1>6, <1>7 DEF Next, Pacer

\* Only the pacer moves next_id.
LEMMA ResolvingKeepsIds ==
    ASSUME ListenerStep \/ MainCloses
    PROVE  UNCHANGED nextId
BY DEF ListenerStep, MainCloses

\* What is in flight stays what has no outcome.
LEMMA LedgerInvStep ==
    ASSUME FlightInv, LedgerInv, [Next]_vars
    PROVE  LedgerInv'
<1>1. CASE ListenerStep \/ MainCloses
  <2>1. PICK done, o :
              /\ done \subseteq Live /\ Live' = Live \ done
              /\ o \in [Live -> Outcomes]
              /\ outcome' = [i \in Ids |-> IF i \in done THEN o[i] ELSE outcome[i]]
    BY <1>1, Resolving
  <2>2. \A f \in done : o[f] \in Outcomes /\ o[f] # "open" /\ f \in 1..(nextId - 1)
    BY <2>1, LiveAreIds DEF Outcomes
  <2>3. outcome' \in [Ids -> Outcomes \cup {"open"}]
    BY <2>1, <2>2 DEF LedgerInv
  <2>4. Live' = {i \in 1..(nextId' - 1) : outcome'[i] = "open"}
    BY <1>1, <2>1, <2>2, ResolvingKeepsIds, FrameBound DEF LedgerInv, QueueInv, Ids
  <2>5. \A i \in Ids : i >= nextId' => outcome'[i] = "open"
    <3>1. nextId' = nextId
      BY <1>1, ResolvingKeepsIds
    <3>2. ASSUME NEW i \in Ids, i >= nextId
          PROVE  i \notin done
      BY <2>2, <3>2, FrameBound DEF LedgerInv, QueueInv, Ids
    <3>. QED
      BY <2>1, <3>1, <3>2 DEF LedgerInv
  <2>. QED
    BY <2>3, <2>4, <2>5, QueueStep DEF LedgerInv
<1>2. CASE ~ListenerStep /\ ~MainCloses
  <2>1. Live' = {i \in 1..(nextId' - 1) : outcome'[i] = "open"}
    <3>1. CASE UNCHANGED nextId /\ Live' = Live
      BY <1>2, <3>1, NotResolving DEF LedgerInv
    <3>2. CASE nextId' = nextId + 1 /\ Live' = Live \cup {nextId}
      <4>1. nextId \in Ids
        BY <3>2, QueueStep, FrameBound DEF LedgerInv, QueueInv, Ids
      <4>. QED
        BY <1>2, <3>2, <4>1, NotResolving DEF LedgerInv, QueueInv
    <3>. QED
      BY <1>2, <3>1, <3>2, NotResolving
  <2>2. \A i \in Ids : i >= nextId' => outcome'[i] = "open"
    <3>1. nextId' \in {nextId, nextId + 1} /\ UNCHANGED outcome
      BY <1>2, NotResolving
    <3>2. \A i \in Ids : i >= nextId' => i >= nextId
      BY <3>1, FrameBound DEF LedgerInv, QueueInv, Ids
    <3>. QED
      BY <3>1, <3>2 DEF LedgerInv
  <2>. QED
    BY <1>2, <2>1, <2>2, QueueStep, NotResolving DEF LedgerInv
<1>. QED
  BY <1>1, <1>2

\* Times are times, and in flight are exactly the frames begun without an outcome:
\* what the in-flight map of sender.cc holds.
THEOREM Invariants == Spec => [](FlightInv /\ LedgerInv)
<1>1. Init => FlightInv /\ LedgerInv
  <2>1. NotYet \in Ages
    BY Times DEF Ages, MaxAge, NotYet
  <2>2. Init => Live = {}
    BY DEF Init, Live
  <2>3. Init => FlightInv
    BY <2>1, <2>2 DEF Init, FlightInv
  <2>4. Init => QueueInv
    BY FrameBound DEF Init, QueueInv
  <2>. QED
    BY <2>2, <2>3, <2>4 DEF Init, LedgerInv
<1>2. FlightInv /\ LedgerInv /\ [Next]_vars => (FlightInv /\ LedgerInv)'
  BY FlightInvStep, LedgerInvStep, LiveAreIds
<1>. QED
  BY <1>1, <1>2, PTL DEF Spec

\* A step of the sender is a step of the ledger, or leaves it alone: it begins
\* the next frame, or gives the oldest open ones an outcome each.
LEMMA LedgerStep ==
    ASSUME FlightInv, LedgerInv, [Next]_vars
    PROVE  [Ledger!Next]_<< nextId - 1, outcome >>
<1>0. Ledger!Ids = Ids /\ Ledger!Outcomes = Outcomes /\ Ledger!Open = Live
  BY DEF Ledger!Ids, Ledger!Outcomes, Ledger!Open, Ids, Outcomes, LedgerInv
<1>1. CASE ListenerStep \/ MainCloses
  <2>1. PICK done, o :
              /\ done \subseteq Live /\ Live' = Live \ done
              /\ \A f \in done, g \in Live : g <= f => g \in done
              /\ o \in [Live -> Outcomes]
              /\ outcome' = [i \in Ids |-> IF i \in done THEN o[i] ELSE outcome[i]]
    BY <1>1, Resolving
  <2>2. UNCHANGED nextId
    BY <1>1, ResolvingKeepsIds
  <2>3. CASE done = {}
    <3>1. outcome' = outcome
      BY <2>1, <2>3 DEF LedgerInv
    <3>. QED
      BY <2>2, <3>1
  <2>4. CASE done # {}
    <3>1. nextId - 1 \in Nat /\ done \subseteq 1..(nextId - 1)
      BY <2>1, LiveAreIds DEF LedgerInv, QueueInv
    <3>2. PICK n \in done : \A k \in done : k <= n
      BY <2>4, <3>1, HasGreatest
    <3>3. \A i \in Ids : i \in done <=> i \in Live /\ i <= n
      BY <2>1, <3>2
    <3>. DEFINE all == [i \in Ids |-> IF i \in Live THEN o[i] ELSE "lost"]
    <3>4. all \in [Ids -> Outcomes]
      BY <2>1 DEF Outcomes
    <3>5. outcome' = [i \in Ids |-> IF i \in Live /\ i <= n THEN all[i] ELSE outcome[i]]
      BY <2>1, <3>3
    <3>. HIDE DEF all
    <3>6. /\ outcome' \in [Ids -> Outcomes \cup {"open"}]
          /\ \A i \in Ids : IF i \in Live /\ i <= n THEN outcome'[i] \in Outcomes
                                                    ELSE outcome'[i] = outcome[i]
      <4>1. \A i \in Ids : outcome[i] \in Outcomes \cup {"open"}
        BY DEF LedgerInv
      <4>. QED
        BY <3>4, <3>5, <4>1
    <3>7. Ledger!Report
      BY <1>0, <2>1, <2>2, <3>2, <3>6 DEF Ledger!Report
    <3>. QED
      BY <3>7 DEF Ledger!Next
  <2>. QED
    BY <2>3, <2>4
<1>2. CASE ~ListenerStep /\ ~MainCloses
  <2>1. CASE UNCHANGED nextId
    BY <1>2, <2>1, NotResolving
  <2>2. CASE nextId' = nextId + 1
    <3>1. nextId - 1 < MaxFrames /\ nextId' - 1 = nextId - 1 + 1
      BY <2>2, QueueStep, FrameBound DEF LedgerInv, QueueInv
    <3>2. Ledger!Send
      BY <1>2, <3>1, NotResolving DEF Ledger!Send
    <3>. QED
      BY <3>2 DEF Ledger!Next
  <2>. QED
    BY <1>2, <2>1, <2>2, NotResolving
<1>. QED
  BY <1>1, <1>2

\* The sender implements the ledger: every frame begun gets at most one outcome,
\* and frames get theirs in order, whatever ACKs, failures and clocks do.
THEOREM ImplementsLedger == Spec => Ledger!SafeSpec
<1>1. Init => Ledger!Init
  BY DEF Init, Ledger!Init, Ledger!Ids, Ids
<1>2. FlightInv /\ LedgerInv /\ [Next]_vars => [Ledger!Next]_<< nextId - 1, outcome >>
  BY LedgerStep
<1>. QED
  BY <1>1, <1>2, Invariants, PTL DEF Spec, Ledger!SafeSpec

-----------------------------------------------------------------------------
(* Shutdown, losses, retransmissions *)

\* A stopped sender has no thread left that could begin anything.
StopInv ==
    main = "stopped" => /\ Joined
                        /\ Live = {} /\ inflight = << >> /\ queue = 0 /\ retries = << >>

\* Nothing happens after stop().
LEMMA StoppedStays ==
    ASSUME main = "stopped", Joined, [Next]_vars
    PROVE  UNCHANGED vars
BY DEF Joined, Next, CaptureCheck, CapturePush, CaptureEnds, Pacer, PacerResend,
   PacerNoResend, PacerBegin, PacerIdle, PacerData, PacerSent, PacerProbe, PacerProbed,
   Listener, ListenerRead, ListenerEnds, ListenerStep, Fail, MainStopsProducing,
   MainJoinsCapture, MainStops, MainCloses, Tick

\* Every step but stop()'s last leaves a sender that has not stopped, or nothing
\* to stop.
LEMMA StopInvStep ==
    ASSUME StopInv, [Next]_vars
    PROVE  StopInv'
<1>1. CASE main = "stopped"
  <2>1. UNCHANGED vars
    BY <1>1, StoppedStays DEF StopInv
  <2>. QED
    BY <2>1 DEF StopInv, Joined, Live, vars, shared, threads
<1>2. CASE main # "stopped" /\ MainCloses
  BY <1>2 DEF StopInv, MainCloses, Joined, Live
<1>3. CASE main # "stopped" /\ ~MainCloses
  <2>1. main' # "stopped"
    BY <1>3 DEF Next, CaptureCheck, CapturePush, CaptureEnds, Pacer, PacerResend,
       PacerNoResend, PacerBegin, PacerIdle, PacerData, PacerSent, PacerProbe, PacerProbed,
       Listener, ListenerRead, ListenerEnds, ListenerStep, Fail, MainStopsProducing,
       MainJoinsCapture, MainStops, Tick, vars, shared, threads
  <2>. QED
    BY <2>1 DEF StopInv
<1>. QED
  BY <1>1, <1>2, <1>3

\* stop() leaves nothing behind: a frame begun while the sender was stopping, or
\* being sent when a worker failed, has an outcome too.
THEOREM ShutdownLeavesNothing == Spec => []ShutdownCloses
<1>1. Init => StopInv
  BY DEF Init, StopInv
<1>2. StopInv /\ [Next]_vars => StopInv'
  BY StopInvStep
<1>3. StopInv /\ LedgerInv => ShutdownCloses
  BY DEF StopInv, LedgerInv, ShutdownCloses
<1>. QED
  BY <1>1, <1>2, <1>3, Invariants, PTL DEF Spec

\* While the sender runs, no frame is given up before FRAME_TIMEOUT has passed.
THEOREM LateLosses == Spec => LossesAreLate
<1>1. FlightInv /\ LedgerInv /\ [Next]_vars =>
      [\A f \in Live : outcome'[f] = "lost" /\ main # "stop" =>
          inflight[f].created > FrameTimeout]_vars
  <2>. SUFFICES ASSUME FlightInv, LedgerInv, [Next]_vars,
                       NEW f \in Live, outcome'[f] = "lost", main # "stop"
                PROVE  inflight[f].created > FrameTimeout
    OBVIOUS
  <2>1. outcome[f] = "open" /\ f \in Ids
    BY LiveAreIds DEF LedgerInv
  <2>2. ~MainCloses
    BY DEF MainCloses
  <2>3. ListenerStep
    BY <2>1, <2>2, NotResolving
  <2>4. PICK done : Handled(done)
    BY <2>3, LiveAreIds, ListenerHandles
  <2>. QED
    BY <2>1, <2>4 DEF Handled
<1>. QED
  BY <1>1, Invariants, PTL DEF Spec, LossesAreLate

\* No packet is marked for retransmission before retry_delay_us has passed.
THEOREM DueRetransmits == Spec => RetransmitsAreDue
<1>1. FlightInv /\ LedgerInv /\ [Next]_vars =>
      [\A f \in Live : f \in DOMAIN inflight' =>
          \A p \in inflight'[f].queued \ inflight[f].queued :
              inflight[f].sentAt[p] >= RetryDelay]_vars
  <2>. SUFFICES ASSUME FlightInv, LedgerInv, [Next]_vars,
                       NEW f \in Live, f \in Live',
                       NEW p \in inflight'[f].queued \ inflight[f].queued
                PROVE  inflight[f].sentAt[p] >= RetryDelay
    BY DEF Live
  <2>1. CASE ListenerStep
    <3>1. PICK done : Handled(done)
      BY <2>1, LiveAreIds, ListenerHandles
    <3>. QED
      BY <3>1 DEF Handled
  <2>2. CASE PacerResend \/ PacerData \/ PacerSent \/ PacerProbed
    BY <2>2, PacerEffect DEF Sent
  <2>3. CASE Tick
    BY <2>3, TickEffect
  <2>4. CASE PacerBegin
    <3>1. f # nextId
      BY LiveAreIds DEF LedgerInv, QueueInv
    <3>. QED
      BY <2>4, <3>1 DEF PacerBegin
  <2>5. CASE MainCloses
    BY <2>5 DEF MainCloses, Live
  <2>6. CASE CaptureCheck \/ CapturePush \/ CaptureEnds \/ Fail \/ MainStopsProducing
             \/ MainJoinsCapture \/ MainStops \/ UNCHANGED vars
    BY <2>6 DEF CaptureCheck, CapturePush, CaptureEnds, Fail, MainStopsProducing,
       MainJoinsCapture, MainStops, vars, shared
  <2>7. CASE PacerNoResend \/ PacerIdle \/ PacerProbe \/ ListenerRead \/ ListenerEnds
    BY <2>7 DEF PacerNoResend, PacerIdle, PacerProbe, ListenerRead, ListenerEnds, shared
  <2>. QED
    BY <2>1, <2>2, <2>3, <2>4, <2>5, <2>6, <2>7 DEF Next, Pacer, Listener
<1>. QED
  BY <1>1, Invariants, PTL DEF Spec, RetransmitsAreDue

-----------------------------------------------------------------------------
(* Packets of a frame that counts as sent *)

AllSent(fr) == \A p \in Pids : fr.sentAt[p] # NotYet

\* While the sender runs, what the pacer has passed of its frame was sent, and
\* all of a frame that counts as sent.
SendInv ==
    /\ pid \in Nat
    /\ cur < nextId /\ cur \in Nat
    /\ running => \A f \in Live :
          /\ inflight[f].allSent => AllSent(inflight[f])
          /\ f = cur /\ pacer \in {"resend", "data"} =>
                \A p \in Pids : p < pid => inflight[f].sentAt[p] # NotYet
          /\ f = cur /\ pacer = "sent" => AllSent(inflight[f])

\* The pacer's packets are sent one after the other, and all of them before the
\* frame counts as sent.
LEMMA SendInvStep ==
    ASSUME FlightInv, LedgerInv, SendInv, [Next]_vars
    PROVE  SendInv'
<1>. USE DEF SendInv
<1>0. running' => running
  BY DEF Next, CaptureCheck, CapturePush, CaptureEnds, Pacer, PacerResend,
     PacerNoResend, PacerBegin, PacerIdle, PacerData, PacerSent, PacerProbe, PacerProbed,
     Listener, ListenerRead, ListenerEnds, ListenerStep, Fail, MainStopsProducing,
     MainJoinsCapture, MainStops, MainCloses, Tick, vars, shared
<1>1. CASE PacerBegin
  <2>1. /\ pid' = 0 /\ cur' = nextId /\ nextId' = nextId + 1
        /\ Live' = Live \cup {nextId}
        /\ \A f \in Live : f # nextId /\ inflight'[f] = inflight[f]
        /\ ~inflight'[nextId].allSent
        /\ pacer' = NextPacket(0)
    BY <1>1, LiveAreIds, NewIsFrame DEF PacerBegin, LedgerInv, QueueInv, FlightInv, Live
  <2>2. running => pacer' = "resend"
    BY <2>1, FrameShape DEF NextPacket
  <2>3. nextId \in Nat
    BY DEF LedgerInv, QueueInv
  <2>4. \A p \in Pids : ~(p < pid')
    BY <2>1 DEF Pids
  <2>5. ASSUME running', NEW f \in Live'
        PROVE  /\ inflight'[f].allSent => AllSent(inflight'[f])
               /\ f = cur' => pacer' = "resend"
    BY <1>0, <2>1, <2>2, <2>5
  <2>. QED
    BY <2>1, <2>3, <2>4, <2>5
<1>2. CASE PacerData
  <2>0. 0 # NotYet
    BY DEF NotYet
  <2>1. CASE cur \in Live
    <3>1. /\ inflight' = [inflight EXCEPT ![cur].sentAt[pid] = 0]
          /\ pid' = pid + 1 /\ pacer' = NextPacket(pid + 1) /\ pacer = "data"
          /\ UNCHANGED << nextId, cur, running >>
      BY <1>2, <2>1 DEF PacerData
    <3>2. /\ Live' = Live
          /\ \A f \in Live \ {cur} : inflight'[f] = inflight[f]
          /\ inflight'[cur].allSent = inflight[cur].allSent
          /\ \A p \in Pids : inflight'[cur].sentAt[p] =
                                IF p = pid THEN 0 ELSE inflight[cur].sentAt[p]
      BY <2>1, <3>1 DEF Live, FlightInv, IsFrame
    <3>3. ASSUME running
          PROVE  \A p \in Pids : p < pid' => inflight'[cur].sentAt[p] # NotYet
      <4>1. \A p \in Pids : p < pid + 1 => p < pid \/ p = pid
        BY DEF Pids
      <4>. QED
        BY <2>0, <2>1, <3>1, <3>2, <3>3, <4>1
    <3>4. ASSUME running, pacer' = "sent"
          PROVE  AllSent(inflight'[cur])
      <4>1. \A p \in Pids : p < pid'
        BY <3>1, <3>4, FrameShape DEF NextPacket, Pids
      <4>. QED
        BY <3>3, <3>4, <4>1 DEF AllSent
    <3>5. ASSUME running, NEW f \in Live, inflight'[f].allSent
          PROVE  AllSent(inflight'[f])
      BY <2>0, <3>2, <3>5 DEF AllSent
    <3>. QED
      BY <3>1, <3>2, <3>3, <3>4, <3>5
  <2>2. CASE cur \notin Live
    BY <1>2, <2>2 DEF PacerData, Live
  <2>. QED
    BY <2>1, <2>2
<1>3. CASE PacerSent
  <2>1. /\ pid' = 0 /\ pacer' \in {"probe", "probed"} /\ pacer = "sent"
        /\ UNCHANGED << nextId, cur, running >>
    BY <1>3 DEF PacerSent
  <2>2. /\ Live' = Live
        /\ \A f \in Live : /\ inflight'[f].sentAt = inflight[f].sentAt
                           /\ f = cur \/ inflight'[f].allSent = inflight[f].allSent
    BY <1>3 DEF PacerSent, Live, FlightInv, IsFrame
  <2>. QED
    BY <2>1, <2>2 DEF AllSent
<1>4. CASE PacerResend \/ PacerProbed \/ Tick
  <2>1. /\ UNCHANGED << pid, cur, nextId, running >>
        /\ pacer' \in {"resend", "data", "sent"} => pacer' = pacer
    BY <1>4 DEF PacerResend, PacerProbed, Tick, threads
  <2>2. /\ Live' = Live
        /\ \A f \in Live : /\ inflight'[f].allSent = inflight[f].allSent
                           /\ \A p \in Pids : inflight[f].sentAt[p] # NotYet
                                              => inflight'[f].sentAt[p] # NotYet
    <3>1. CASE PacerResend \/ PacerProbed
      <4>1. /\ Live' = Live
            /\ \A f \in Live : Sent(inflight[f], inflight'[f])
        BY <3>1, PacerEffect
      <4>2. \A f \in Live : inflight'[f].allSent = inflight[f].allSent
        <5>1. CASE PacerResend
          <6>1. PICK g, p : Resend(g, p)
            BY <5>1 DEF PacerResend
          <6>. QED
            BY <6>1 DEF Resend, FlightInv, IsFrame, Live
        <5>2. CASE PacerProbed
          BY <5>2 DEF PacerProbed, FlightInv, IsFrame, Live
        <5>. QED
          BY <3>1, <5>1, <5>2
      <4>. QED
        BY <4>1, <4>2 DEF Sent
    <3>2. CASE Tick
      BY <3>2, TickEffect
    <3>. QED
      BY <1>4, <3>1, <3>2
  <2>. QED
    BY <2>1, <2>2 DEF AllSent
<1>5. CASE ListenerStep
  <2>1. PICK done : Handled(done)
    BY <1>5, LiveAreIds, ListenerHandles
  <2>2. UNCHANGED << pid, cur, nextId, running, pacer >>
    BY <1>5 DEF ListenerStep
  <2>3. \A f \in Live' : /\ f \in Live
                         /\ inflight'[f].sentAt = inflight[f].sentAt
                         /\ inflight'[f].allSent = inflight[f].allSent
    BY <2>1 DEF Handled, After
  <2>. QED
    BY <2>2, <2>3 DEF AllSent
<1>6. CASE MainCloses
  BY <1>6 DEF MainCloses, Live
<1>7. CASE /\ UNCHANGED << inflight, nextId, cur >>
           /\ pid' \in {pid, pid + 1}
           /\ pacer' \in {"resend", "data", "sent"} =>
                 /\ pid' = pid /\ pacer \in {"resend", "data", "sent"}
                 /\ pacer' = "sent" <=> pacer = "sent"
  BY <1>0, <1>7 DEF Live, AllSent
<1>8. CASE CaptureCheck \/ CapturePush \/ CaptureEnds \/ Fail \/ MainStopsProducing
           \/ MainJoinsCapture \/ MainStops \/ UNCHANGED vars
  BY <1>7, <1>8 DEF CaptureCheck, CapturePush, CaptureEnds, Fail, MainStopsProducing,
     MainJoinsCapture, MainStops, vars, shared, threads
<1>9. CASE PacerNoResend \/ PacerIdle \/ PacerProbe \/ ListenerRead \/ ListenerEnds
  BY <1>7, <1>9 DEF PacerNoResend, PacerIdle, PacerProbe, ListenerRead, ListenerEnds, shared
<1>. QED
  BY <1>1, <1>2, <1>3, <1>4, <1>5, <1>6, <1>8, <1>9 DEF Next, Pacer, Listener

\* A frame that counts as sent has no packet nobody will send.
THEOREM NothingForgotten == Spec => []NoPacketForgotten
<1>1. Init => SendInv
  BY DEF Init, SendInv, Live
<1>2. FlightInv /\ LedgerInv /\ SendInv /\ [Next]_vars => SendInv'
  BY SendInvStep
<1>3. SendInv => NoPacketForgotten
  BY DEF SendInv, AllSent, NoPacketForgotten
<1>. QED
  BY <1>1, <1>2, <1>3, Invariants, PTL DEF Spec

-----------------------------------------------------------------------------
(* Sets in order *)

\* InOrder is a strict order, and total.
LEMMA InOrderFacts ==
    /\ \A e : e \in Nat \X Nat => ~InOrder(e, e)
    /\ \A d, e \in Nat \X Nat : d # e => InOrder(d, e) \/ InOrder(e, d)
    /\ \A c, d, e \in Nat \X Nat : InOrder(c, d) /\ InOrder(d, e) => InOrder(c, e)
BY DEF InOrder

\* What is later in a set has more before it.
LEMMA RankGrows ==
    ASSUME NEW S, IsFiniteSet(S), S \subseteq Nat \X Nat
    PROVE  /\ \A e \in S : Cardinality(Earlier(S, e)) \in 0..(Cardinality(S) - 1)
           /\ \A d, e \in S : Cardinality(Earlier(S, d)) = Cardinality(Earlier(S, e)) => d = e
<1>1. ASSUME NEW e \in S
      PROVE  /\ IsFiniteSet(Earlier(S, e)) /\ e \notin Earlier(S, e)
             /\ Cardinality(Earlier(S, e)) \in 0..(Cardinality(S) - 1)
  <2>1. Earlier(S, e) \in SUBSET (S \ {e}) /\ e \notin Earlier(S, e)
    BY InOrderFacts DEF Earlier
  <2>2. /\ IsFiniteSet(S \ {e}) /\ Cardinality(S \ {e}) = Cardinality(S) - 1
        /\ Cardinality(S) \in Nat
    BY FS_RemoveElement, FS_CardinalityType
  <2>3. /\ IsFiniteSet(Earlier(S, e))
        /\ Cardinality(Earlier(S, e)) <= Cardinality(S) - 1
    BY <2>1, <2>2, FS_Subset
  <2>4. Cardinality(Earlier(S, e)) \in Nat
    BY <2>3, FS_CardinalityType
  <2>. QED
    BY <2>1, <2>2, <2>3, <2>4
<1>2. ASSUME NEW d \in S, NEW e \in S, InOrder(d, e)
      PROVE  Cardinality(Earlier(S, d)) # Cardinality(Earlier(S, e))
  <2>1. Earlier(S, d) \in SUBSET Earlier(S, e)
    BY <1>2, InOrderFacts DEF Earlier
  <2>2. d \in Earlier(S, e) /\ d \notin Earlier(S, d)
    BY <1>1, <1>2 DEF Earlier
  <2>. QED
    BY <1>1, <2>1, <2>2, FS_Subset
<1>. QED
  BY <1>1, <1>2, InOrderFacts

\* A finite set in order is a sequence of its members, each once.
LEMMA OrderedEnumerates ==
    ASSUME NEW S, IsFiniteSet(S), S \subseteq Nat \X Nat
    PROVE  /\ Ordered(S) \in Seq(S) /\ Len(Ordered(S)) \in Nat
           /\ \A e \in S : \E i \in 1..Len(Ordered(S)) : Ordered(S)[i] = e
           /\ \A i, j \in 1..Len(Ordered(S)) : Ordered(S)[i] = Ordered(S)[j] => i = j
<1>. DEFINE n == Cardinality(S)
            rank(e) == Cardinality(Earlier(S, e))
            place == [e \in S |-> rank(e) + 1]
<1>1. n \in Nat
  BY FS_CardinalityType
<1>2. /\ \A e \in S : rank(e) \in 0..(n - 1)
      /\ \A d, e \in S : rank(d) = rank(e) => d = e
  BY RankGrows
<1>. HIDE DEF rank, n
<1>3. \A e \in S : place[e] = rank(e) + 1 /\ rank(e) \in Nat /\ place[e] \in 1..n
  BY <1>1, <1>2
<1>4. place \in Injection(S, 1..n)
  BY <1>2, <1>3 DEF Injection, IsInjective
<1>5. IsFiniteSet(1..n) /\ Cardinality(1..n) = n
  BY <1>1, FS_Interval
<1>6. place \in Surjection(S, 1..n)
  BY <1>4, <1>5, FS_Injection DEF n
<1>7. ASSUME NEW i \in 1..n
      PROVE  \E e \in S : rank(e) = i - 1
  <2>1. PICK e \in S : place[e] = i
    BY <1>6 DEF Surjection
  <2>. QED
    BY <1>1, <1>3, <2>1
<1>8. Ordered(S) = [i \in 1..n |-> CHOOSE e \in S : rank(e) = i - 1]
  BY DEF Ordered, rank, n
<1>9. \A i \in 1..n : Ordered(S)[i] \in S /\ rank(Ordered(S)[i]) = i - 1
  BY <1>7, <1>8
<1>10. Ordered(S) \in [1..n -> S]
  BY <1>8, <1>9
<1>11. Ordered(S) \in Seq(S) /\ Len(Ordered(S)) = n
  BY <1>1, <1>10
<1>12. ASSUME NEW e \in S
       PROVE  \E i \in 1..n : Ordered(S)[i] = e
  <2>1. place[e] \in 1..n /\ rank(Ordered(S)[place[e]]) = rank(e) /\ Ordered(S)[place[e]] \in S
    BY <1>1, <1>3, <1>9
  <2>. QED
    BY <1>2, <2>1
<1>13. \A i, j \in 1..n : Ordered(S)[i] = Ordered(S)[j] => i = j
  BY <1>1, <1>9
<1>. QED
  BY <1>1, <1>11, <1>12, <1>13

-----------------------------------------------------------------------------
(* The marks and the deque *)

Entries(r) == {r[i] : i \in 1..Len(r)}
Distinct(r) == \A i, j \in 1..Len(r) : r[i] = r[j] => i = j

\* A frame's record: its type, and what its marks mean.
FrameOK(fr) ==
    /\ fr \in SentFrames
    /\ fr.queued \cap fr.acked = {}
    /\ fr.queued # {} => fr.loss
    /\ \A p \in fr.queued : fr.attempt[p] < MaxAttempt

\* The deque's entries are of frames begun, each there once; the marks say which
\* of them will be sent.
MarksAgree(fs, r) ==
    \A f \in DOMAIN fs, p \in Pids :
        /\ p \in fs[f].queued => << f, p >> \in Entries(r)
        /\ << f, p >> \in Entries(r) => p \in fs[f].queued \cup fs[f].acked

BookInv ==
    /\ \A f \in Live : FrameOK(inflight[f])
    /\ retries \in Seq(Ids \X Pids) /\ Distinct(retries)
    /\ \A e \in Entries(retries) : e[1] < nextId
    /\ MarksAgree(inflight, retries)

\* ACKs for frames of S, or none.
AcksOf(S) == {NoAck} \cup {AckOf(k, f, p, c) : k \in {"data", "recovered", "probe"},
                            f \in S, p \in Pids \cup Probes, c \in BOOLEAN}

\* The ACK the listener holds is for a packet of a frame that is in flight still.
GotInv ==
    /\ listener \in {"recv", "lock", "ended"}
    /\ listener # "lock" => got = NoAck
    /\ got \in AcksOf(Live)
    /\ got.kind \in {"data", "recovered"} => got.pid \in Pids
    /\ got.kind = "probe" => got.pid \in Probes

\* Probes follow the data.
ProbeInv ==
    /\ pid \in Nat
    /\ pacer = "probe" => pid < NProbe
    /\ cur \in Live /\ inflight[cur].allSent =>
           pid <= NProbe /\ pacer \notin {"resend", "data", "sent"}

\* A frame that was retransmitted, or told of as repaired, counts as lossy.
TouchInv ==
    /\ touched \subseteq 1..(nextId - 1)
    /\ \A f \in touched : f \in Live => inflight[f].loss
    /\ CleanUnlessUnheard
-----------------------------------------------------------------------------
(* Sequences *)

\* What is appended comes after what was there.
LEMMA Appended ==
    ASSUME NEW A, NEW r \in Seq(A), NEW s \in Seq(A)
    PROVE  /\ r \o s \in Seq(A)
           /\ Entries(r \o s) = Entries(r) \cup Entries(s)
           /\ Distinct(r) /\ Distinct(s) /\ Entries(r) \cap Entries(s) = {} => Distinct(r \o s)
<1>1. /\ r \o s \in Seq(A) /\ Len(r \o s) = Len(r) + Len(s)
      /\ Len(r) \in Nat /\ Len(s) \in Nat
      /\ \A i \in 1..(Len(r) + Len(s)) :
            (r \o s)[i] = IF i <= Len(r) THEN r[i] ELSE s[i - Len(r)]
  OBVIOUS
<1>. DEFINE t == r \o s
<1>. HIDE DEF t
<1>2. \A i \in 1..Len(r) : i \in 1..Len(t) /\ t[i] = r[i]
  BY <1>1 DEF t
<1>3. \A i \in 1..Len(s) : i + Len(r) \in 1..Len(t) /\ t[i + Len(r)] = s[i]
  BY <1>1 DEF t
<1>4. \A i \in 1..Len(t) : \/ i \in 1..Len(r) /\ t[i] = r[i]
                           \/ i - Len(r) \in 1..Len(s) /\ t[i] = s[i - Len(r)]
  BY <1>1 DEF t
<1>5. Entries(t) = Entries(r) \cup Entries(s)
  <2>1. Entries(t) \subseteq Entries(r) \cup Entries(s)
    BY <1>4 DEF Entries
  <2>2. Entries(r) \subseteq Entries(t)
    BY <1>2 DEF Entries
  <2>3. Entries(s) \subseteq Entries(t)
    BY <1>3 DEF Entries
  <2>. QED
    BY <2>1, <2>2, <2>3
<1>6. ASSUME Distinct(r), Distinct(s), Entries(r) \cap Entries(s) = {},
             NEW i \in 1..Len(t), NEW j \in 1..Len(t), t[i] = t[j]
      PROVE  i = j
  <2>1. CASE i \in 1..Len(r) /\ t[i] = r[i] /\ j \in 1..Len(r) /\ t[j] = r[j]
    BY <1>6, <2>1 DEF Distinct
  <2>2. CASE /\ i - Len(r) \in 1..Len(s) /\ t[i] = s[i - Len(r)]
             /\ j - Len(r) \in 1..Len(s) /\ t[j] = s[j - Len(r)]
    <3>1. i - Len(r) = j - Len(r)
      BY <1>6, <2>2 DEF Distinct
    <3>. QED
      BY <1>1, <3>1
  <2>3. /\ ~(i \in 1..Len(r) /\ t[i] = r[i] /\ j - Len(r) \in 1..Len(s) /\ t[j] = s[j - Len(r)])
        /\ ~(j \in 1..Len(r) /\ t[j] = r[j] /\ i - Len(r) \in 1..Len(s) /\ t[i] = s[i - Len(r)])
    BY <1>6 DEF Entries
  <2>. QED
    BY <1>4, <2>1, <2>2, <2>3
<1>. QED
  BY <1>1, <1>5, <1>6 DEF Distinct, t

\* What is left of a sequence whose first n entries were taken.
LEMMA Dropped ==
    ASSUME NEW A, NEW r \in Seq(A), NEW n \in 1..Len(r)
    PROVE  LET t == SubSeq(r, n + 1, Len(r))
           IN  /\ t \in Seq(A)
               /\ Entries(t) = {r[i] : i \in (n + 1)..Len(r)}
               /\ Distinct(r) => Distinct(t)
<1>. DEFINE t == SubSeq(r, n + 1, Len(r))
<1>1. /\ t \in Seq(A) /\ Len(r) \in Nat /\ Len(t) = Len(r) - n
      /\ \A i \in 1..(Len(r) - n) : t[i] = r[n + i]
  OBVIOUS
<1>. HIDE DEF t
<1>2. \A i \in 1..Len(t) : n + i \in (n + 1)..Len(r) /\ t[i] = r[n + i]
  BY <1>1
<1>3. \A i \in (n + 1)..Len(r) : i - n \in 1..Len(t) /\ t[i - n] = r[i]
  BY <1>1
<1>4. Entries(t) = {r[i] : i \in (n + 1)..Len(r)}
  BY <1>2, <1>3 DEF Entries
<1>5. ASSUME Distinct(r), NEW i \in 1..Len(t), NEW j \in 1..Len(t), t[i] = t[j]
      PROVE  i = j
  <2>1. n + i = n + j
    BY <1>1, <1>2, <1>5 DEF Distinct
  <2>. QED
    BY <2>1
<1>. QED
  BY <1>1, <1>4, <1>5 DEF Distinct, t
-----------------------------------------------------------------------------
(* Frames *)

\* h is g after an ACK or the timers: marks go only where packets are acknowledged,
\* and a lossy frame stays so.
Handed(g, h) ==
    /\ g.acked \subseteq h.acked
    /\ g.queued \subseteq h.queued \cup h.acked
    /\ g.loss => h.loss

\* An ACK of a packet.
IsAck(a) == /\ a.kind \in {"data", "recovered", "probe"}
            /\ a.complete \in BOOLEAN
            /\ a.pid \in IF a.kind = "probe" THEN Probes ELSE Pids

\* An ACK takes marks away with what it acknowledges, and a recovered packet makes
\* its frame lossy.
LEMMA AckFrame ==
    ASSUME NEW fr, FrameOK(fr), NEW a, IsAck(a)
    PROVE  /\ FrameOK(Acknowledge(fr, a)) /\ Handed(fr, Acknowledge(fr, a))
           /\ Acknowledge(fr, a).queued \subseteq fr.queued
           /\ a.kind = "recovered" => Acknowledge(fr, a).loss
<1>. DEFINE loss == fr.loss \/ a.kind = "recovered"
            probes == IF a.kind = "probe" THEN fr.probes \cup {a.pid} ELSE fr.probes
            acked == IF a.kind = "probe" THEN fr.acked ELSE fr.acked \cup {a.pid}
            queued == IF a.kind = "probe" THEN fr.queued ELSE fr.queued \ {a.pid}
            marked == [fr EXCEPT !.loss = loss, !.probes = probes,
                                 !.acked = acked, !.queued = queued]
            whole == [marked EXCEPT !.delivered = TRUE, !.acked = Pids, !.queued = {}]
<1>1. /\ loss \in BOOLEAN /\ probes \in SUBSET Probes /\ acked \in SUBSET Pids
      /\ queued \in SUBSET fr.queued /\ queued \cap acked = {}
      /\ fr.acked \subseteq acked /\ fr.queued \subseteq queued \cup acked
      /\ (fr.loss => loss) /\ (a.kind = "recovered" => loss)
  BY DEF FrameOK, SentFrames, IsAck
<1>. HIDE DEF loss, probes, acked, queued
<1>2. /\ marked \in SentFrames
      /\ marked.loss = loss /\ marked.acked = acked /\ marked.queued = queued
      /\ marked.attempt = fr.attempt
  BY <1>1 DEF FrameOK, SentFrames
<1>. HIDE DEF marked
<1>3. /\ whole \in SentFrames
      /\ whole.loss = loss /\ whole.acked = Pids /\ whole.queued = {}
  BY <1>2 DEF SentFrames
<1>. HIDE DEF whole
<1>4. Acknowledge(fr, a) = IF a.complete THEN whole ELSE marked
  BY DEF Acknowledge, whole, marked, loss, probes, acked, queued
<1>5. FrameOK(marked) /\ Handed(fr, marked) /\ marked.queued \subseteq fr.queued
  BY <1>1, <1>2 DEF FrameOK, Handed
<1>6. FrameOK(whole) /\ Handed(fr, whole) /\ whole.queued \subseteq fr.queued
  BY <1>1, <1>3 DEF FrameOK, Handed, SentFrames
<1>. QED
  BY <1>1, <1>2, <1>3, <1>4, <1>5, <1>6

\* The timers mark packets that are neither marked nor acknowledged.
LEMMA DueFrame ==
    ASSUME NEW fr, FrameOK(fr)
    PROVE  /\ FrameOK(WithDue(fr)) /\ Handed(fr, WithDue(fr))
           /\ WithDue(fr).acked = fr.acked
           /\ WithDue(fr).queued = fr.queued \cup Due(fr)
           /\ Due(fr) \subseteq Pids /\ Due(fr) \cap (fr.queued \cup fr.acked) = {}
<1>1. /\ Due(fr) \in SUBSET Pids /\ Due(fr) \cap (fr.queued \cup fr.acked) = {}
      /\ \A p \in Due(fr) : fr.attempt[p] < MaxAttempt
  BY DEF Due, AttemptLeft
<1>. DEFINE loss == fr.loss \/ Due(fr) # {}
            due == [fr EXCEPT !.queued = @ \cup Due(fr), !.loss = loss]
<1>2. loss \in BOOLEAN /\ (fr.loss => loss) /\ (Due(fr) # {} => loss)
  BY DEF FrameOK, SentFrames
<1>. HIDE DEF loss
<1>3. /\ due \in SentFrames
      /\ due.loss = loss /\ due.acked = fr.acked /\ due.queued = fr.queued \cup Due(fr)
      /\ due.attempt = fr.attempt
  BY <1>1, <1>2 DEF FrameOK, SentFrames
<1>. HIDE DEF due
<1>4. WithDue(fr) = due
  BY DEF WithDue, due, loss
<1>. QED
  BY <1>1, <1>2, <1>3, <1>4 DEF FrameOK, Handed

\* h has the marks of g.
Alike(g, h) == h.queued = g.queued /\ h.acked = g.acked /\ h.loss = g.loss

\* A frame that the pacer begins has none.
LEMMA NewFrameOK ==
    ASSUME NEW age \in Ages
    PROVE  FrameOK(NewFrame(age)) /\ NewFrame(age).queued = {}
BY Times, Limits DEF FrameOK, NewFrame, SentFrames, Delays, MaxDelay, NotYet

\* Setting the times, or that all was sent, changes no mark.
LEMMA TimesOnly ==
    ASSUME NEW fr \in SentFrames, FrameOK(fr), NEW h \in SentFrames, Alike(fr, h),
           h.attempt = fr.attempt
    PROVE  FrameOK(h) /\ Alike(fr, h)
BY DEF FrameOK, Alike

\* Sending data and probes, and time, change no mark.
LEMMA SendingKeepsMarks ==
    ASSUME \A f \in Live : FrameOK(inflight[f]),
           PacerData \/ PacerSent \/ PacerProbed \/ Tick
    PROVE  /\ Live' = Live
           /\ \A f \in Live : FrameOK(inflight'[f]) /\ Alike(inflight[f], inflight'[f])
<1>0. /\ 0 \in Delays
      /\ \A f \in Live : inflight[f] \in SentFrames
  BY Times DEF Delays, MaxDelay, NotYet, FrameOK
<1>. DEFINE data(fr) == [fr EXCEPT !.sentAt[pid] = 0]
            sent(fr) == [fr EXCEPT !.allSent = TRUE]
            probed(fr) == [fr EXCEPT !.probesAt = 0]
            older(fr) == [fr EXCEPT !.created  = Older(@, MaxAge),
                                    !.probesAt = Older(@, MaxDelay),
                                    !.sentAt   = [p \in Pids |-> Older(@[p], MaxDelay)]]
<1>1. ASSUME NEW fr \in SentFrames
      PROVE  /\ data(fr) \in SentFrames /\ data(fr).attempt = fr.attempt /\ Alike(fr, data(fr))
             /\ sent(fr) \in SentFrames /\ sent(fr).attempt = fr.attempt /\ Alike(fr, sent(fr))
             /\ probed(fr) \in SentFrames /\ probed(fr).attempt = fr.attempt
             /\ Alike(fr, probed(fr))
  BY <1>0 DEF SentFrames, Alike
<1>2. ASSUME NEW fr \in SentFrames
      PROVE  older(fr) \in SentFrames /\ older(fr).attempt = fr.attempt /\ Alike(fr, older(fr))
  <2>1. ASSUME NEW age \in Ages
        PROVE  Older(age, MaxAge) \in Ages
    BY <2>1, Times DEF Older, Ages, MaxAge, NotYet
  <2>2. ASSUME NEW age \in Delays
        PROVE  Older(age, MaxDelay) \in Delays
    BY <2>2, Times DEF Older, Delays, MaxDelay, NotYet
  <2>. QED
    BY <2>1, <2>2 DEF SentFrames, Alike
<1>3. ASSUME NEW f \in Live
      PROVE  /\ FrameOK(data(inflight[f])) /\ Alike(inflight[f], data(inflight[f]))
             /\ FrameOK(sent(inflight[f])) /\ Alike(inflight[f], sent(inflight[f]))
             /\ FrameOK(probed(inflight[f])) /\ Alike(inflight[f], probed(inflight[f]))
             /\ FrameOK(older(inflight[f])) /\ Alike(inflight[f], older(inflight[f]))
             /\ Alike(inflight[f], inflight[f])
  <2>. HIDE DEF data, sent, probed, older
  <2>. QED
    BY <1>0, <1>1, <1>2, TimesOnly DEF Alike
<1>4. CASE PacerData
  <2>1. \/ inflight' = inflight
        \/ cur \in Live /\ inflight' = [inflight EXCEPT ![cur] = data(@)]
    BY <1>4 DEF PacerData
  <2>. HIDE DEF data
  <2>. QED
    BY <1>3, <2>1 DEF Live
<1>5. CASE PacerSent
  <2>1. \/ inflight' = inflight
        \/ cur \in Live /\ inflight' = [inflight EXCEPT ![cur] = sent(@)]
    BY <1>5 DEF PacerSent
  <2>. HIDE DEF sent
  <2>. QED
    BY <1>3, <2>1 DEF Live
<1>6. CASE PacerProbed
  <2>1. \/ inflight' = inflight
        \/ cur \in Live /\ inflight' = [inflight EXCEPT ![cur] = probed(@)]
    BY <1>6 DEF PacerProbed
  <2>. HIDE DEF probed
  <2>. QED
    BY <1>3, <2>1 DEF Live
<1>7. CASE Tick
  <2>1. inflight' = [f \in Live |-> older(inflight[f])]
    BY <1>7 DEF Tick
  <2>. HIDE DEF older
  <2>. QED
    BY <1>3, <2>1 DEF Live
<1>. QED
  BY <1>4, <1>5, <1>6, <1>7

-----------------------------------------------------------------------------
(* The pacer and the deque *)

\* A set of numbers has a least one.
LEMMA LeastIs ==
    ASSUME NEW S, S \subseteq Nat, S # {}
    PROVE  Min(S) \in S /\ \A k \in S : Min(S) <= k
<1>1. PICK m \in S : \A k \in S : ~ (<< k, m >> \in Less)
  BY LessWellFounded, WFMin
<1>2. ASSUME NEW k \in S
      PROVE  m <= k
  <2>1. << k, m >> \notin Less /\ k \in Nat /\ m \in Nat
    BY <1>1
  <2>. QED
    BY <2>1 DEF Less
<1>. QED
  BY <1>2, Zenon DEF Min

\* retry_one passes over what is stale, and over nothing else.
LEMMA FirstIsFirst ==
    ASSUME NEW A, retries \in Seq(A)
    PROVE  /\ FirstSendable = 0 => \A i \in 1..Len(retries) : ~Sendable(retries[i])
           /\ FirstSendable # 0 =>
                 /\ FirstSendable \in 1..Len(retries) /\ Sendable(retries[FirstSendable])
                 /\ \A i \in 1..(FirstSendable - 1) : ~Sendable(retries[i])
<1>. DEFINE I == {i \in 1..Len(retries) : Sendable(retries[i])}
<1>1. FirstSendable = IF I # {} THEN Min(I) ELSE 0
  BY DEF FirstSendable, SelectInSeq
<1>2. Len(retries) \in Nat /\ I \subseteq 1..Len(retries) /\ I \subseteq Nat
  OBVIOUS
<1>3. \A i \in 1..Len(retries) : Sendable(retries[i]) => i \in I
  OBVIOUS
<1>4. \A i \in I : Sendable(retries[i])
  OBVIOUS
<1>. HIDE DEF I
<1>5. CASE I = {}
  BY <1>1, <1>3, <1>5
<1>6. CASE I # {}
  <2>1. Min(I) \in I /\ \A k \in I : Min(I) <= k
    BY <1>2, <1>6, LeastIs
  <2>0. PICK n : n = Min(I)
    OBVIOUS
  <2>2. FirstSendable = n /\ n \in 1..Len(retries) /\ n \in Nat /\ n # 0 /\ Sendable(retries[n])
    <3>1. n \in I /\ FirstSendable = n
      BY <1>1, <1>6, <2>0, <2>1
    <3>2. n \in 1..Len(retries) /\ Sendable(retries[n])
      BY <1>2, <1>4, <3>1
    <3>. QED
      BY <1>2, <3>1, <3>2
  <2>3. \A k \in I : n <= k
    BY <2>0, <2>1
  <2>4. \A i \in 1..(n - 1) : i \in 1..Len(retries) /\ ~(n <= i)
    BY <1>2, <2>2
  <2>5. \A i \in 1..(n - 1) : ~Sendable(retries[i])
    BY <1>3, <2>3, <2>4
  <2>. QED
    BY <2>2, <2>5
<1>. QED
  BY <1>5, <1>6

\* What is retransmitted was marked, is marked no more, and its entry and those
\* before it, all of them stale, leave the deque.
LEMMA ResendBook ==
    ASSUME BookInv, PacerResend
    PROVE  /\ BookInv' /\ Live' = Live
           /\ \A f \in Live : inflight'[f].loss = inflight[f].loss
           /\ \E f \in Live : touched' = touched \cup {f} /\ inflight[f].loss
<1>. DEFINE n == FirstSendable
            f == retries[n][1]
            p == retries[n][2]
            attempt == [inflight[f].attempt EXCEPT ![p] = @ + 1]
            sentAt == [inflight[f].sentAt EXCEPT ![p] = 0]
            g == [inflight[f] EXCEPT !.queued = @ \ {p}, !.attempt = attempt, !.sentAt = sentAt]
            t == SubSeq(retries, n + 1, Len(retries))
<1>1. /\ n # 0 /\ retries' = t /\ nextId' = nextId
      /\ inflight' = [inflight EXCEPT ![f] = g] /\ touched' = touched \cup {f}
  BY DEF PacerResend, Resend
<1>2. retries \in Seq(Ids \X Pids) /\ Len(retries) \in Nat
  BY DEF BookInv
<1>3. /\ n \in 1..Len(retries) /\ Sendable(retries[n])
      /\ \A i \in 1..(n - 1) : ~Sendable(retries[i])
  BY <1>1, <1>2, FirstIsFirst
<1>. HIDE DEF n
<1>4. f \in Ids /\ p \in Pids /\ retries[n] = << f, p >> /\ << f, p >> \in Entries(retries)
  BY <1>2, <1>3 DEF Entries
<1>. HIDE DEF f, p
<1>5. f \in Live /\ p \notin inflight[f].acked
  BY <1>3, <1>4 DEF Sendable
<1>6. p \in inflight[f].queued
  BY <1>4, <1>5 DEF BookInv, MarksAgree, Live
<1>7. FrameOK(inflight[f]) /\ inflight[f].loss /\ inflight[f].attempt[p] < MaxAttempt
  BY <1>5, <1>6 DEF BookInv, FrameOK
<1>8. 0 \in Delays
  BY Times DEF Delays, MaxDelay, NotYet
<1>9. /\ g \in SentFrames /\ g.queued = inflight[f].queued \ {p}
      /\ g.acked = inflight[f].acked /\ g.loss = inflight[f].loss
      /\ \A q \in Pids : q # p => g.attempt[q] = inflight[f].attempt[q]
  <2>1. /\ attempt \in [Pids -> 0..MaxAttempt] /\ sentAt \in [Pids -> Delays]
        /\ \A q \in Pids : q # p => attempt[q] = inflight[f].attempt[q]
    BY <1>4, <1>7, <1>8, Limits DEF FrameOK, SentFrames
  <2>2. inflight[f] \in SentFrames
    BY <1>7 DEF FrameOK
  <2>. HIDE DEF attempt, sentAt
  <2>. QED
    BY <2>1, <2>2 DEF SentFrames
<1>. HIDE DEF g
<1>10. FrameOK(g)
  <2>1. g.queued \subseteq Pids
    BY <1>9 DEF SentFrames
  <2>. QED
    BY <1>7, <1>9, <2>1 DEF FrameOK
<1>11. /\ t \in Seq(Ids \X Pids) /\ Distinct(t)
       /\ Entries(t) = {retries[i] : i \in (n + 1)..Len(retries)}
  BY <1>2, <1>3, Dropped DEF BookInv
<1>. HIDE DEF t
<1>12. /\ Live' = Live
       /\ \A h \in Live : inflight'[h] = IF h = f THEN g ELSE inflight[h]
  BY <1>1, <1>5 DEF Live
<1>13. Entries(t) \subseteq Entries(retries) /\ retries[n] \notin Entries(t)
  <2>1. \A i \in (n + 1)..Len(retries) : i \in 1..Len(retries) /\ i # n
    BY <1>2, <1>3
  <2>2. \A i \in (n + 1)..Len(retries) : retries[i] # retries[n]
    BY <1>3, <2>1 DEF BookInv, Distinct
  <2>. QED
    BY <1>11, <2>1, <2>2 DEF Entries
<1>14. ASSUME NEW h \in Live, NEW q \in Pids
       PROVE  /\ q \in inflight'[h].queued => << h, q >> \in Entries(t)
              /\ << h, q >> \in Entries(t) => q \in inflight'[h].queued \cup inflight'[h].acked
  <2>1. /\ inflight'[h].acked = inflight[h].acked
        /\ inflight'[h].queued = IF h = f THEN inflight[h].queued \ {p} ELSE inflight[h].queued
    BY <1>9, <1>12
  <2>2. ASSUME q \in inflight'[h].queued
        PROVE  << h, q >> \in Entries(t)
    <3>1. q \in inflight[h].queued /\ ~(h = f /\ q = p)
      BY <2>1, <2>2
    <3>2. PICK i \in 1..Len(retries) : retries[i] = << h, q >>
      BY <3>1 DEF BookInv, MarksAgree, Live, Entries
    <3>3. q \notin inflight[h].acked
      BY <3>1 DEF BookInv, FrameOK
    <3>4. Sendable(retries[i])
      BY <3>2, <3>3 DEF Sendable
    <3>5. i # n
      BY <1>4, <3>1, <3>2
    <3>6. i \in (n + 1)..Len(retries)
      BY <1>2, <1>3, <3>4, <3>5
    <3>. QED
      BY <1>11, <3>2, <3>6
  <2>3. ASSUME << h, q >> \in Entries(t)
        PROVE  q \in inflight'[h].queued \cup inflight'[h].acked
    <3>1. q \in inflight[h].queued \cup inflight[h].acked
      BY <1>13, <2>3 DEF BookInv, MarksAgree, Live
    <3>2. ~(h = f /\ q = p)
      BY <1>4, <1>13, <2>3
    <3>. QED
      BY <2>1, <3>1, <3>2
  <2>. QED
    BY <2>2, <2>3
<1>15. MarksAgree(inflight', t)
  BY <1>12, <1>14 DEF MarksAgree, Live
<1>16. /\ \A h \in Live' : FrameOK(inflight'[h])
       /\ \A e \in Entries(t) : e[1] < nextId'
  BY <1>1, <1>10, <1>12, <1>13 DEF BookInv
<1>17. BookInv'
  BY <1>1, <1>11, <1>15, <1>16 DEF BookInv
<1>. QED
  BY <1>1, <1>5, <1>7, <1>9, <1>12, <1>17

-----------------------------------------------------------------------------
(* The listener and the deque *)

\* What is due is a finite set of packets in flight.
LEMMA DueEntriesFinite ==
    ASSUME LedgerInv, NEW fs, DOMAIN fs = Live
    PROVE  /\ IsFiniteSet(DueEntries(fs))
           /\ DueEntries(fs) \subseteq Nat \X Nat /\ DueEntries(fs) \subseteq Ids \X Pids
<1>1. IsFiniteSet(1..(nextId - 1)) /\ IsFiniteSet(Pids) /\ Pids \subseteq Nat
  BY FS_Interval, FrameShape DEF LedgerInv, QueueInv, Pids
<1>2. IsFiniteSet(Live)
  BY <1>1, LiveAreIds, FS_Subset
<1>3. IsFiniteSet(Live \X Pids)
  BY <1>1, <1>2, FS_Product
<1>4. DueEntries(fs) \subseteq Live \X Pids
  BY DEF DueEntries
<1>. QED
  BY <1>1, <1>3, <1>4, LiveAreIds, FS_Subset

\* A packet that the listener finds due is not in the deque; it is marked and
\* appended in one critical section.
LEMMA ListenerBook ==
    ASSUME BookInv, GotInv, LedgerInv, ListenerStep
    PROVE  /\ BookInv' /\ Live' \subseteq Live
           /\ \A f \in Live' : /\ inflight[f].loss => inflight'[f].loss
                               /\ got.kind = "recovered" /\ got.fid = f => inflight'[f].loss
           /\ \A f \in Ids : outcome'[f] = "clean" =>
                 \/ outcome[f] = "clean"
                 \/ /\ f \in Live /\ ~inflight[f].loss
                    /\ ~(got.kind = "recovered" /\ got.fid = f)
<1>. DEFINE fs   == TakeAck(got)
            due  == [f \in Live |-> WithDue(fs[f])]
            done == Resolved(due)
            owd  == hasOwd \/ got.kind \in {"data", "probe"}
            D    == DueEntries(fs)
            r    == retries \o Ordered(D)
<1>1. /\ inflight' = [f \in Live \ done |-> due[f]]
      /\ outcome' = [i \in Ids |-> IF i \in done THEN OutcomeOf(due[i], owd)
                                   ELSE outcome[i]]
      /\ retries' = r /\ nextId' = nextId
  BY DEF ListenerStep
<1>2. DOMAIN fs = Live
  BY DEF TakeAck, Live
<1>3. ASSUME NEW f \in Live
      PROVE  /\ FrameOK(fs[f]) /\ Handed(inflight[f], fs[f])
             /\ fs[f].queued \subseteq inflight[f].queued
             /\ got.kind = "recovered" /\ got.fid = f => fs[f].loss
  <2>1. FrameOK(inflight[f])
    BY DEF BookInv
  <2>2. CASE got.kind = "none"
    <3>1. fs[f] = inflight[f]
      BY <2>2 DEF TakeAck
    <3>. QED
      BY <2>1, <2>2, <3>1 DEF Handed
  <2>3. CASE got.kind # "none"
    <3>1. IsAck(got)
      BY <2>3 DEF GotInv, AcksOf, IsAck, AckOf, NoAck
    <3>2. fs[f] = IF f = got.fid THEN Acknowledge(inflight[f], got) ELSE inflight[f]
      BY <2>3 DEF TakeAck, Live
    <3>3. CASE f = got.fid
      BY <2>1, <3>1, <3>2, <3>3, AckFrame
    <3>4. CASE f # got.fid
      BY <2>1, <3>2, <3>4 DEF Handed
    <3>. QED
      BY <3>3, <3>4
  <2>. QED
    BY <2>2, <2>3
<1>4. ASSUME NEW f \in Live
      PROVE  /\ FrameOK(due[f]) /\ due[f].acked = fs[f].acked
             /\ due[f].queued = fs[f].queued \cup Due(fs[f])
             /\ Due(fs[f]) \cap (fs[f].queued \cup fs[f].acked) = {}
             /\ inflight[f].loss => due[f].loss
             /\ got.kind = "recovered" /\ got.fid = f => due[f].loss
  <2>1. FrameOK(fs[f]) /\ due[f] = WithDue(fs[f])
    BY <1>3
  <2>. HIDE DEF fs, due
  <2>. QED
    BY <1>3, <2>1, DueFrame DEF Handed
<1>5. /\ IsFiniteSet(D) /\ D \subseteq Nat \X Nat /\ D \subseteq Ids \X Pids
  BY <1>2, DueEntriesFinite
<1>6. \A f \in Live, p \in Pids : << f, p >> \in D <=> p \in Due(fs[f])
  BY <1>2 DEF DueEntries
<1>7. \A e \in D : e[1] \in Live /\ e[2] \in Pids /\ e = << e[1], e[2] >>
  BY <1>2 DEF DueEntries
<1>8. DOMAIN due = Live
  OBVIOUS
<1>9. done \subseteq Live
  BY <1>8 DEF Resolved
<1>. HIDE DEF fs, due, done, D
<1>10. /\ Ordered(D) \in Seq(Ids \X Pids) /\ Distinct(Ordered(D))
       /\ Entries(Ordered(D)) = D
  <2>1. /\ Ordered(D) \in Seq(D)
        /\ \A e \in D : \E i \in 1..Len(Ordered(D)) : Ordered(D)[i] = e
        /\ \A i, j \in 1..Len(Ordered(D)) : Ordered(D)[i] = Ordered(D)[j] => i = j
    BY <1>5, OrderedEnumerates
  <2>. HIDE DEF Ordered
  <2>2. \A i \in 1..Len(Ordered(D)) : Ordered(D)[i] \in D
    BY <2>1
  <2>3. Ordered(D) \in Seq(Ids \X Pids)
    BY <1>5, <2>1
  <2>. QED
    BY <2>1, <2>2, <2>3 DEF Distinct, Entries
<1>11. Entries(retries) \cap D = {}
  <2>1. ASSUME NEW e \in D, e \in Entries(retries)
        PROVE  FALSE
    <3>1. e[2] \in inflight[e[1]].queued \cup inflight[e[1]].acked
      BY <1>7, <2>1 DEF BookInv, MarksAgree, Live
    <3>2. e[2] \in fs[e[1]].queued \cup fs[e[1]].acked
      BY <1>3, <1>7, <3>1 DEF Handed
    <3>. QED
      BY <1>4, <1>6, <1>7, <3>2
  <2>. QED
    BY <2>1
<1>12. r \in Seq(Ids \X Pids) /\ Distinct(r) /\ Entries(r) = Entries(retries) \cup D
  <2>1. retries \in Seq(Ids \X Pids) /\ Distinct(retries)
    BY DEF BookInv
  <2>. QED
    BY <1>10, <1>11, <2>1, Appended
<1>. HIDE DEF r
<1>13. ASSUME NEW f \in Live, NEW p \in Pids
       PROVE  /\ p \in due[f].queued => << f, p >> \in Entries(r)
              /\ << f, p >> \in Entries(r) => p \in due[f].queued \cup due[f].acked
  <2>1. /\ p \in inflight[f].queued => << f, p >> \in Entries(retries)
        /\ << f, p >> \in Entries(retries) => p \in inflight[f].queued \cup inflight[f].acked
    BY DEF BookInv, MarksAgree, Live
  <2>. QED
    BY <1>3, <1>4, <1>6, <1>12, <2>1 DEF Handed
<1>14. /\ Live' = Live \ done
       /\ \A f \in Live \ done : inflight'[f] = due[f]
  BY <1>1 DEF Live
<1>15. MarksAgree(inflight', r)
  BY <1>13, <1>14 DEF MarksAgree, Live
<1>16. \A e \in Entries(r) : e[1] < nextId'
  <2>1. \A f \in Live : f < nextId
    BY LiveAreIds DEF LedgerInv, QueueInv
  <2>. QED
    BY <1>1, <1>7, <1>12, <2>1 DEF BookInv
<1>17. BookInv'
  BY <1>1, <1>4, <1>12, <1>14, <1>15, <1>16 DEF BookInv
<1>18. \A f \in done : OutcomeOf(due[f], owd) = "clean" => ~due[f].loss
  BY DEF OutcomeOf
<1>. HIDE DEF owd
<1>19. ASSUME NEW f \in Ids, outcome'[f] = "clean", outcome[f] # "clean"
       PROVE  /\ f \in Live /\ ~inflight[f].loss
              /\ ~(got.kind = "recovered" /\ got.fid = f)
  <2>1. f \in done /\ ~due[f].loss
    BY <1>1, <1>18, <1>19
  <2>. QED
    BY <1>4, <1>9, <2>1
<1>. QED
  BY <1>4, <1>9, <1>14, <1>17, <1>19

-----------------------------------------------------------------------------
(* The invariants, step by step *)

\* Nobody but the pacer and the listener touches the deque or the marks.
LEMMA BookStep ==
    ASSUME FlightInv, LedgerInv, GotInv, BookInv, [Next]_vars
    PROVE  BookInv'
<1>1. CASE PacerBegin
  <2>1. /\ nextId \in Nat /\ nextId' = nextId + 1 /\ retries' = retries
        /\ Live' = Live \cup {nextId} /\ nextId \notin Live
        /\ \A f \in Live : inflight'[f] = inflight[f]
        /\ inflight'[nextId] = NewFrame(startedAge)
    BY <1>1, LiveAreIds DEF PacerBegin, LedgerInv, QueueInv, Live
  <2>2. FrameOK(inflight'[nextId]) /\ inflight'[nextId].queued = {}
    BY <2>1, NewFrameOK DEF FlightInv
  <2>3. /\ \A f \in Live' : FrameOK(inflight'[f])
        /\ retries' \in Seq(Ids \X Pids) /\ Distinct(retries')
    BY <2>1, <2>2 DEF BookInv
  <2>4. \A e \in Entries(retries) : e[1] \in Nat /\ e[1] < nextId
    BY <2>1 DEF BookInv, Entries, Ids
  <2>5. \A e \in Entries(retries') : e[1] < nextId'
    BY <2>1, <2>4
  <2>6. ASSUME NEW f \in Live', NEW p \in Pids
        PROVE  /\ p \in inflight'[f].queued => << f, p >> \in Entries(retries')
               /\ << f, p >> \in Entries(retries')
                     => p \in inflight'[f].queued \cup inflight'[f].acked
    <3>1. CASE f = nextId
      <4>1. << f, p >> \notin Entries(retries)
        BY <2>1, <2>4, <3>1
      <4>. QED
        BY <2>1, <2>2, <3>1, <4>1
    <3>2. CASE f \in Live
      BY <2>1, <3>2 DEF BookInv, MarksAgree, Live
    <3>. QED
      BY <2>1, <3>1, <3>2
  <2>7. MarksAgree(inflight', retries')
    BY <2>6 DEF MarksAgree, Live
  <2>. QED
    BY <2>3, <2>5, <2>7 DEF BookInv
<1>2. CASE PacerNoResend /\ running
  <2>1. FirstSendable = 0 /\ retries' = << >> /\ UNCHANGED << inflight, nextId >>
    BY <1>2 DEF PacerNoResend
  <2>2. \A i \in 1..Len(retries) : ~Sendable(retries[i])
    BY <2>1, FirstIsFirst DEF BookInv
  <2>3. ASSUME NEW f \in Live, NEW p \in inflight[f].queued
        PROVE  FALSE
    <3>1. p \in Pids /\ p \notin inflight[f].acked
      BY DEF BookInv, FrameOK, SentFrames
    <3>2. PICK i \in 1..Len(retries) : retries[i] = << f, p >>
      BY <3>1 DEF BookInv, MarksAgree, Live, Entries
    <3>3. Sendable(retries[i])
      BY <3>1, <3>2 DEF Sendable
    <3>. QED
      BY <2>2, <3>3
  <2>4. Entries(retries') = {} /\ retries' \in Seq(Ids \X Pids) /\ Distinct(retries')
    BY <2>1 DEF Entries, Distinct
  <2>5. MarksAgree(inflight', retries')
    BY <2>1, <2>3, <2>4 DEF MarksAgree, Live
  <2>. QED
    BY <2>1, <2>4, <2>5 DEF BookInv, Live
<1>3. CASE PacerData \/ PacerSent \/ PacerProbed \/ Tick
  <2>1. UNCHANGED << retries, nextId >>
    BY <1>3 DEF PacerData, PacerSent, PacerProbed, Tick
  <2>2. /\ Live' = Live
        /\ \A f \in Live : FrameOK(inflight'[f]) /\ Alike(inflight[f], inflight'[f])
    BY <1>3, SendingKeepsMarks DEF BookInv
  <2>3. MarksAgree(inflight', retries')
    BY <2>1, <2>2 DEF BookInv, MarksAgree, Alike, Live
  <2>. QED
    BY <2>1, <2>2, <2>3 DEF BookInv
<1>4. CASE MainCloses
  <2>1. Live' = {} /\ inflight' = << >> /\ retries' = << >>
    BY <1>4 DEF MainCloses, Live
  <2>. QED
    BY <2>1 DEF BookInv, MarksAgree, Entries, Distinct, Live
<1>5. CASE UNCHANGED << inflight, retries, nextId >>
  BY <1>5 DEF BookInv, Live
<1>6. CASE CaptureCheck \/ CapturePush \/ CaptureEnds \/ Fail \/ MainStopsProducing
           \/ MainJoinsCapture \/ MainStops \/ UNCHANGED vars
  BY <1>5, <1>6 DEF CaptureCheck, CapturePush, CaptureEnds, Fail, MainStopsProducing,
     MainJoinsCapture, MainStops, vars, shared
<1>7. CASE (PacerNoResend /\ ~running) \/ PacerIdle \/ PacerProbe \/ ListenerRead \/ ListenerEnds
  BY <1>5, <1>7 DEF PacerNoResend, PacerIdle, PacerProbe, ListenerRead, ListenerEnds, shared
<1>. QED
  BY <1>1, <1>2, <1>3, <1>4, <1>6, <1>7, ResendBook, ListenerBook DEF Next, Pacer, Listener

\* allSent changes where the pacer has sent its frame, and nowhere else.
LEMMA AllSentStays ==
    ASSUME FlightInv, LedgerInv, [Next]_vars, ~PacerSent
    PROVE  \A f \in Live : f \in Live' => inflight'[f].allSent = inflight[f].allSent
<1>1. CASE PacerResend \/ PacerData \/ PacerProbed
  <2>1. CASE PacerResend
    <3>1. PICK g, p : Resend(g, p)
      BY <2>1 DEF PacerResend
    <3>. QED
      BY <3>1 DEF Resend, FlightInv, IsFrame, Live
  <2>. QED
    BY <1>1, <2>1 DEF PacerData, PacerProbed, FlightInv, IsFrame, Live
<1>2. CASE PacerBegin
  BY <1>2, LiveAreIds DEF PacerBegin, LedgerInv, QueueInv, Live
<1>3. CASE ListenerStep
  BY <1>3, LiveAreIds, ListenerHandles DEF Handled, After
<1>4. CASE MainCloses
  BY <1>4 DEF MainCloses, Live
<1>5. CASE UNCHANGED inflight
  BY <1>5 DEF Live
<1>6. CASE CaptureCheck \/ CapturePush \/ CaptureEnds \/ Fail \/ MainStopsProducing
           \/ MainJoinsCapture \/ MainStops \/ UNCHANGED vars
  BY <1>5, <1>6 DEF CaptureCheck, CapturePush, CaptureEnds, Fail, MainStopsProducing,
     MainJoinsCapture, MainStops, vars, shared
<1>7. CASE PacerNoResend \/ PacerIdle \/ PacerProbe \/ ListenerRead \/ ListenerEnds
  BY <1>5, <1>7 DEF PacerNoResend, PacerIdle, PacerProbe, ListenerRead, ListenerEnds, shared
<1>. QED
  BY <1>1, <1>2, <1>3, <1>4, <1>6, <1>7, TickEffect DEF Next, Pacer, Listener

\* The pacer sends its probes once it has sent the frame, and no more than a
\* frame has.
LEMMA ProbeStep ==
    ASSUME FlightInv, LedgerInv, ProbeInv, [Next]_vars
    PROVE  ProbeInv'
<1>. USE DEF ProbeInv
<1>0. NProbe \in Nat /\ 0 < NProbe
  BY FrameShape
<1>1. CASE PacerBegin
  <2>1. /\ pid' = 0 /\ cur' = nextId /\ ~inflight'[nextId].allSent
        /\ pacer' = NextPacket(0)
    BY <1>1, NewIsFrame DEF PacerBegin, FlightInv
  <2>2. pacer' # "probe"
    BY <2>1 DEF NextPacket
  <2>. QED
    BY <2>1, <2>2
<1>2. CASE PacerSent
  <2>1. pid' = 0 /\ pacer' \in {"probe", "probed"}
    BY <1>2 DEF PacerSent
  <2>. QED
    BY <1>0, <2>1
<1>3. CASE ~PacerSent /\ UNCHANGED cur /\ pid' \in Nat
           /\ (pacer' = "probe" => pid' < NProbe)
           /\ (pid' = pid \/ (cur \in Live /\ inflight[cur].allSent => pid' <= NProbe))
           /\ (pacer' \in {"resend", "data", "sent"} => pacer \in {"resend", "data", "sent"})
           /\ (cur \in Live' => cur \in Live)
  BY <1>3, AllSentStays
<1>4. CASE PacerData
  <2>1. Live' = Live /\ UNCHANGED cur /\ pacer = "data" /\ pid' \in {pid, pid + 1}
        /\ pacer' # "probe" /\ ~PacerSent
    BY <1>4 DEF PacerData, PacerSent, NextPacket, Live
  <2>. QED
    BY <1>3, <2>1
<1>5. CASE PacerProbe
  <2>1. /\ Live' = Live /\ UNCHANGED cur /\ pacer = "probe" /\ pid' \in {pid, pid + 1}
        /\ pacer' = "probe" => pid + 1 < NProbe /\ pid' = pid + 1
        /\ pacer' \in {"probe", "probed"} /\ ~PacerSent
    BY <1>5 DEF PacerProbe, PacerSent, shared, Live
  <2>. QED
    BY <1>0, <1>3, <2>1
<1>6. CASE PacerResend \/ PacerProbed \/ PacerNoResend \/ PacerIdle
  <2>1. /\ Live' = Live /\ UNCHANGED << cur, pid >> /\ ~PacerSent
        /\ pacer' \in {"resend", "data", "sent"} => pacer \in {"resend", "data", "sent"}
        /\ pacer' # "probe"
    BY <1>6, PacerEffect DEF PacerResend, PacerProbed, PacerNoResend, PacerIdle, PacerSent,
       shared, threads, Live
  <2>. QED
    BY <1>3, <2>1
<1>7. CASE ListenerStep \/ MainCloses
  <2>1. /\ UNCHANGED << cur, pid, pacer >> /\ Live' \subseteq Live
    BY <1>7, Resolving DEF ListenerStep, MainCloses
  <2>2. ~PacerSent
    BY <1>7 DEF ListenerStep, MainCloses, PacerSent, Joined
  <2>. QED
    BY <1>3, <2>1, <2>2
<1>8. CASE Tick
  <2>1. UNCHANGED << cur, pid, pacer >> /\ Live' = Live
    BY <1>8, TickEffect DEF Tick
  <2>2. \A f \in Live : inflight'[f].allSent = inflight[f].allSent
    BY <1>8, TickEffect
  <2>. QED
    BY <2>1, <2>2
<1>9. CASE UNCHANGED << inflight, cur, pid >> /\ pacer' \in {pacer, "ended"}
  BY <1>9 DEF Live
<1>10. CASE CaptureCheck \/ CapturePush \/ CaptureEnds \/ Fail \/ MainStopsProducing
           \/ MainJoinsCapture \/ MainStops \/ UNCHANGED vars
  BY <1>9, <1>10 DEF CaptureCheck, CapturePush, CaptureEnds, Fail, MainStopsProducing,
     MainJoinsCapture, MainStops, vars, shared, threads
<1>11. CASE ListenerRead \/ ListenerEnds
  BY <1>9, <1>11 DEF ListenerRead, ListenerEnds, shared
<1>. QED
  BY <1>1, <1>2, <1>4, <1>5, <1>6, <1>7, <1>8, <1>10, <1>11 DEF Next, Pacer, Listener

\* The network only brings ACKs for frames in flight, of packets and probes they have.
LEMMA AcksAreFine ==
    ASSUME ProbeInv, NEW a \in Acks
    PROVE  /\ a \in AcksOf(Live)
           /\ a.kind \in {"data", "recovered"} => a.pid \in Pids
           /\ a.kind = "probe" => a.pid \in Probes
<1>1. CASE a = NoAck
  BY <1>1 DEF NoAck, AcksOf
<1>2. ASSUME NEW f \in Live, a \in AcksFor(f)
      PROVE  \/ \E p \in Pids, c \in BOOLEAN :
                    a = AckOf("data", f, p, c) \/ a = AckOf("recovered", f, p, c)
             \/ \E p \in Probes, c \in BOOLEAN : a = AckOf("probe", f, p, c)
  <2>. DEFINE fr      == inflight[f]
              sentOf  == {p \in Pids : fr.sentAt[p] # NotYet}
              whole   == sentOf = Pids
              partial == {p \in sentOf : fr.acked \cup {p} # Pids}
              probed  == IF ~fr.allSent THEN {} ELSE IF f = cur THEN 0..(pid - 1) ELSE Probes
              A == {AckOf("data", f, p, FALSE) : p \in partial}
              B == {AckOf("data", f, p, TRUE) : p \in IF whole THEN Pids ELSE {}}
              C == {AckOf("recovered", f, p, TRUE) : p \in IF MayBeRebuilt(f) /\ whole THEN Pids ELSE {}}
              D == {AckOf("probe", f, p, c) : p \in probed, c \in {FALSE, whole}}
  <2>1. AcksFor(f) = A \cup B \cup C \cup D
    BY DEF AcksFor
  <2>2. \A b \in A : \E p \in partial : b = AckOf("data", f, p, FALSE)
    BY Zenon
  <2>3. \A b \in B : \E p \in Pids : b = AckOf("data", f, p, TRUE)
    OBVIOUS
  <2>4. \A b \in C : \E p \in Pids : b = AckOf("recovered", f, p, TRUE)
    OBVIOUS
  <2>5. \A b \in D : \E p \in Probes, c \in BOOLEAN : b = AckOf("probe", f, p, c)
    <3>. DEFINE W == {FALSE, whole}
    <3>1. probed \subseteq Probes
      <4>1. f = cur /\ fr.allSent => pid \in Nat /\ pid <= NProbe
        BY DEF ProbeInv
      <4>. QED
        BY <4>1, FrameShape DEF Probes
    <3>2. whole \in BOOLEAN
      OBVIOUS
    <3>. HIDE DEF probed, whole
    <3>3. W \subseteq BOOLEAN
      BY <3>2
    <3>4. D = {AckOf("probe", f, p, c) : p \in probed, c \in W}
      OBVIOUS
    <3>. HIDE DEF W, D
    <3>. QED
      BY <3>1, <3>3, <3>4
  <2>6. partial \subseteq Pids
    OBVIOUS
  <2>. HIDE DEF A, B, C, D, partial
  <2>. QED
    BY <1>2, <2>1, <2>2, <2>3, <2>4, <2>5, <2>6
<1>3. CASE a # NoAck
  <2>1. PICK f \in Live : a \in AcksFor(f)
    BY <1>3 DEF Acks
  <2>2. CASE \E p \in Pids, c \in BOOLEAN :
                a = AckOf("data", f, p, c) \/ a = AckOf("recovered", f, p, c)
    <3>1. PICK p \in Pids, c \in BOOLEAN :
              a = AckOf("data", f, p, c) \/ a = AckOf("recovered", f, p, c)
      BY <2>2
    <3>2. a.pid = p /\ a.kind \in {"data", "recovered"}
      BY <3>1 DEF AckOf
    <3>3. a \in AcksOf(Live)
      BY <3>1 DEF AcksOf
    <3>. QED
      BY <3>2, <3>3
  <2>3. CASE \E p \in Probes, c \in BOOLEAN : a = AckOf("probe", f, p, c)
    <3>1. PICK p \in Probes, c \in BOOLEAN : a = AckOf("probe", f, p, c)
      BY <2>3
    <3>2. a.pid = p /\ a.kind = "probe"
      BY <3>1 DEF AckOf
    <3>3. a \in AcksOf(Live)
      BY <3>1 DEF AcksOf
    <3>. QED
      BY <3>2, <3>3
  <2>. QED
    BY <1>2, <2>1, <2>2, <2>3
<1>. QED
  BY <1>1, <1>3

\* The listener holds an ACK only between recv and the mutex, and nobody else
\* resolves a frame meanwhile.
LEMMA GotStep ==
    ASSUME FlightInv, LedgerInv, ProbeInv, GotInv, [Next]_vars
    PROVE  GotInv'
<1>0. /\ NoAck.kind = "none" /\ (\A S : NoAck \in AcksOf(S))
      /\ \A S, T : S \subseteq T => AcksOf(S) \subseteq AcksOf(T)
  BY DEF NoAck, AcksOf
<1>. USE DEF GotInv
<1>4. CASE ListenerRead
  <2>1. got' \in Acks /\ listener' = "lock" /\ Live' = Live
    BY <1>4 DEF ListenerRead, shared, Live
  <2>. QED
    BY <2>1, AcksAreFine
<1>5. CASE listener' \in {"recv", "ended"} /\ got' = NoAck
  BY <1>0, <1>5
<1>6. CASE ListenerStep \/ ListenerEnds
  BY <1>5, <1>6 DEF ListenerStep, ListenerEnds
<1>7. CASE MainCloses
  BY <1>5, <1>7 DEF MainCloses, Joined
<1>8. CASE UNCHANGED << listener, got >> /\ Live \subseteq Live'
  BY <1>0, <1>8
<1>9. CASE Fail
  <2>1. \/ UNCHANGED << listener, got >>
        \/ listener' = "ended" /\ got' = NoAck
    BY <1>9 DEF Fail
  <2>2. Live' = Live
    BY <1>9 DEF Fail, Live
  <2>. QED
    BY <1>5, <1>8, <2>1, <2>2
<1>10. CASE CaptureCheck \/ CapturePush \/ CaptureEnds \/ MainStopsProducing
           \/ MainJoinsCapture \/ MainStops \/ UNCHANGED vars
  BY <1>8, <1>10 DEF CaptureCheck, CapturePush, CaptureEnds, MainStopsProducing,
     MainJoinsCapture, MainStops, vars, shared, threads, Live
<1>11. CASE Pacer \/ Tick
  <2>1. UNCHANGED << listener, got >> /\ ~ListenerStep /\ ~MainCloses
    BY <1>11 DEF Pacer, PacerResend, PacerNoResend, PacerBegin, PacerIdle, PacerData,
       PacerSent, PacerProbe, PacerProbed, Tick, threads, ListenerStep, MainCloses, Joined
  <2>. QED
    BY <1>8, <2>1, NotResolving
<1>. QED
  BY <1>4, <1>6, <1>7, <1>9, <1>10, <1>11 DEF Next, Listener

\* What was retransmitted or told of as repaired is lossy while it is in flight, and not
\* clean when it leaves.
LEMMA TouchStep ==
    ASSUME FlightInv, LedgerInv, GotInv, BookInv, TouchInv, [Next]_vars
    PROVE  TouchInv'
<1>0. /\ nextId \in Nat /\ Live \subseteq Ids /\ Live \subseteq 1..(nextId - 1)
      /\ \A f \in Live : outcome[f] = "open"
  BY LiveAreIds DEF LedgerInv, QueueInv
<1>1. CASE PacerResend
  <2>1. PICK f \in Live : touched' = touched \cup {f} /\ inflight[f].loss
    BY <1>1, ResendBook
  <2>2. /\ Live' = Live /\ UNCHANGED << outcome, nextId >>
        /\ \A h \in Live : inflight'[h].loss = inflight[h].loss
    BY <1>1, ResendBook DEF PacerResend
  <2>. QED
    BY <1>0, <2>1, <2>2 DEF TouchInv, CleanUnlessUnheard
<1>2. CASE ListenerStep
  <2>1. /\ nextId' = nextId
        /\ touched' = IF got.kind = "recovered" THEN touched \cup {got.fid} ELSE touched
    BY <1>2 DEF ListenerStep
  <2>2. got.kind = "recovered" => got.fid \in Live
    BY DEF GotInv, AcksOf, NoAck, AckOf
  <2>3. /\ Live' \subseteq Live
        /\ \A f \in Live' : /\ inflight[f].loss => inflight'[f].loss
                            /\ got.kind = "recovered" /\ got.fid = f => inflight'[f].loss
        /\ \A f \in Ids : outcome'[f] = "clean" =>
              \/ outcome[f] = "clean"
              \/ /\ f \in Live /\ ~inflight[f].loss
                 /\ ~(got.kind = "recovered" /\ got.fid = f)
    BY <1>2, ListenerBook
  <2>4. touched' \subseteq 1..(nextId' - 1)
    BY <1>0, <2>1, <2>2 DEF TouchInv
  <2>5. \A f \in touched' : f \in Live' => inflight'[f].loss
    BY <2>1, <2>3 DEF TouchInv
  <2>6. \A f \in Ids : outcome'[f] = "clean" => f \notin touched'
    BY <1>0, <2>1, <2>2, <2>3 DEF TouchInv, CleanUnlessUnheard
  <2>. QED
    BY <2>4, <2>5, <2>6 DEF TouchInv, CleanUnlessUnheard
<1>3. CASE MainCloses
  <2>1. /\ Live' = {} /\ UNCHANGED << touched, nextId >>
        /\ outcome' = [i \in Ids |-> IF i \in Live THEN OutcomeOf(inflight[i], FALSE)
                                     ELSE outcome[i]]
    BY <1>3 DEF MainCloses, Closing, Live
  <2>2. \A fr : OutcomeOf(fr, FALSE) # "clean"
    BY DEF OutcomeOf
  <2>. QED
    BY <2>1, <2>2 DEF TouchInv, CleanUnlessUnheard
<1>4. CASE /\ UNCHANGED << touched, outcome >> /\ nextId' \in {nextId, nextId + 1}
           /\ Live' \subseteq Live \cup {nextId}
           /\ \A f \in Live : inflight'[f].loss = inflight[f].loss
  <2>1. nextId \notin touched
    BY <1>0 DEF TouchInv
  <2>2. 1..(nextId - 1) \subseteq 1..(nextId' - 1)
    BY <1>0, <1>4
  <2>. QED
    BY <1>4, <2>1, <2>2 DEF TouchInv, CleanUnlessUnheard
<1>5. CASE PacerData \/ PacerSent \/ PacerProbed \/ Tick
  <2>1. UNCHANGED << touched, outcome, nextId >>
    BY <1>5 DEF PacerData, PacerSent, PacerProbed, Tick, history
  <2>2. Live' = Live /\ \A f \in Live : inflight'[f].loss = inflight[f].loss
    BY <1>5, SendingKeepsMarks DEF BookInv, Alike
  <2>. QED
    BY <1>4, <2>1, <2>2
<1>6. CASE PacerBegin
  <2>1. /\ UNCHANGED << touched, outcome >> /\ nextId' = nextId + 1
        /\ Live' = Live \cup {nextId} /\ nextId \notin Live
        /\ \A f \in Live : inflight'[f] = inflight[f]
    BY <1>0, <1>6 DEF PacerBegin, history, Live
  <2>. QED
    BY <1>4, <2>1
<1>7. CASE UNCHANGED << inflight, touched, outcome, nextId >>
  BY <1>4, <1>7 DEF Live
<1>8. CASE CaptureCheck \/ CapturePush \/ CaptureEnds \/ Fail \/ MainStopsProducing
           \/ MainJoinsCapture \/ MainStops \/ UNCHANGED vars
  BY <1>7, <1>8 DEF CaptureCheck, CapturePush, CaptureEnds, Fail, MainStopsProducing,
     MainJoinsCapture, MainStops, vars, shared, history
<1>9. CASE PacerNoResend \/ PacerIdle \/ PacerProbe \/ ListenerRead \/ ListenerEnds
  BY <1>7, <1>9 DEF PacerNoResend, PacerIdle, PacerProbe, ListenerRead, ListenerEnds, shared,
     history
<1>. QED
  BY <1>1, <1>2, <1>3, <1>5, <1>6, <1>8, <1>9 DEF Next, Pacer, Listener

-----------------------------------------------------------------------------
(* Types *)

\* The flags, where the threads are, and the rest of what is not in BookInv,
\* GotInv or LedgerInv.
FlagsInv ==
    /\ running \in BOOLEAN /\ producing \in BOOLEAN
    /\ hasOwd \in BOOLEAN /\ retransLoss \in BOOLEAN /\ limiting \in BOOLEAN

PlacesInv ==
    /\ capture \in {"check", "encode", "ended"}
    /\ pacer \in {"retry", "begin", "resend", "data", "sent", "probe", "probed", "ended"}
    /\ main \in {"run", "join", "drain", "stop", "stopped"}
    /\ lag \in 0..MaxLag

\* inflight is a map.
MapInv == inflight = [f \in Live |-> inflight[f]]

\* Flags are set, never to anything else.
LEMMA FlagsStep ==
    ASSUME FlagsInv, [Next]_vars
    PROVE  FlagsInv'
<1>. USE DEF FlagsInv
<1>1. CASE ListenerStep
  <2>1. UNCHANGED << running, producing >>
    BY <1>1 DEF ListenerStep
  <2>2. hasOwd' \in BOOLEAN
    BY <1>1, Zenon DEF ListenerStep
  <2>3. retransLoss' \in BOOLEAN
    BY <1>1, Zenon DEF ListenerStep
  <2>4. limiting' \in BOOLEAN
    BY <1>1, Zenon DEF ListenerStep
  <2>. QED
    BY <2>1, <2>2, <2>3, <2>4
<1>2. CASE /\ UNCHANGED << hasOwd, retransLoss, limiting >>
           /\ running' \in {running, FALSE} /\ producing' \in {producing, FALSE}
  BY <1>2
<1>3. CASE CaptureCheck \/ CapturePush \/ CaptureEnds \/ Fail \/ MainStopsProducing
           \/ MainJoinsCapture \/ MainStops \/ MainCloses \/ Tick \/ UNCHANGED vars
  BY <1>2, <1>3 DEF CaptureCheck, CapturePush, CaptureEnds, Fail, MainStopsProducing,
     MainJoinsCapture, MainStops, MainCloses, Tick, vars, shared
<1>4. CASE Pacer \/ ListenerRead \/ ListenerEnds
  BY <1>2, <1>4 DEF Pacer, PacerResend, PacerNoResend, PacerBegin, PacerIdle, PacerData,
     PacerSent, PacerProbe, PacerProbed, ListenerRead, ListenerEnds, shared
<1>. QED
  BY <1>1, <1>3, <1>4 DEF Next, Listener

\* Every thread is somewhere, and the listener's reading of the clock is no older
\* than MaxLag.
LEMMA PlacesStep ==
    ASSUME PlacesInv, [Next]_vars
    PROVE  PlacesInv'
<1>. USE DEF PlacesInv
<1>0. MaxLag \in Nat
  BY Times
<1>1. CASE CaptureCheck \/ CapturePush \/ CaptureEnds
  BY <1>1 DEF CaptureCheck, CapturePush, CaptureEnds
<1>2. CASE Pacer
  <2>1. UNCHANGED << capture, main, lag >>
    BY <1>2 DEF Pacer, PacerResend, PacerNoResend, PacerBegin, PacerIdle, PacerData,
       PacerSent, PacerProbe, PacerProbed, threads
  <2>2. CASE PacerResend \/ PacerNoResend \/ PacerBegin \/ PacerIdle
    BY <2>1, <2>2 DEF PacerResend, PacerNoResend, PacerBegin, PacerIdle, NextPacket, threads
  <2>3. CASE PacerData \/ PacerSent \/ PacerProbe \/ PacerProbed
    BY <2>1, <2>3 DEF PacerData, PacerSent, PacerProbe, PacerProbed, NextPacket
  <2>. QED
    BY <1>2, <2>2, <2>3 DEF Pacer
<1>3. CASE Listener
  <2>1. UNCHANGED << capture, pacer, main >> /\ lag' \in {lag, 0}
    BY <1>3 DEF Listener, ListenerRead, ListenerEnds, ListenerStep
  <2>. QED
    BY <1>0, <2>1
<1>4. CASE Tick
  <2>1. UNCHANGED << capture, pacer, main >>
    BY <1>4 DEF Tick
  <2>2. /\ listener = "lock" => lag < MaxLag
        /\ lag' = IF listener = "lock" THEN lag + 1 ELSE lag
    BY <1>4, Zenon DEF Tick
  <2>. QED
    BY <1>0, <2>1, <2>2
<1>5. CASE Fail
  <2>1. /\ UNCHANGED << main, lag >>
        /\ capture' \in {capture, "ended"} /\ pacer' \in {pacer, "ended"}
    BY <1>5 DEF Fail
  <2>. QED
    BY <2>1
<1>6. CASE MainStopsProducing \/ MainJoinsCapture \/ MainStops \/ MainCloses
  BY <1>6 DEF MainStopsProducing, MainJoinsCapture, MainStops, MainCloses
<1>7. CASE UNCHANGED vars
  BY <1>7 DEF vars, threads
<1>. QED
  BY <1>1, <1>2, <1>3, <1>4, <1>5, <1>6, <1>7 DEF Next

\* What steps make of the map of frames is a map.
LEMMA MapStep ==
    ASSUME MapInv, [Next]_vars
    PROVE  MapInv'
<1>1. CASE \E S, F : inflight' = [f \in S |-> F[f]]
  BY <1>1 DEF MapInv, Live
<1>2. CASE UNCHANGED inflight
  BY <1>2 DEF MapInv, Live
<1>3. CASE \E f, F : inflight' = [inflight EXCEPT ![f] = F]
  BY <1>3 DEF MapInv, Live
<1>4. CASE PacerBegin
  <2>. DEFINE S == Live \cup {nextId}
              F == [f \in S |-> IF f = nextId THEN NewFrame(startedAge) ELSE inflight[f]]
  <2>1. inflight' = F
    BY <1>4 DEF PacerBegin
  <2>2. F = [f \in S |-> F[f]]
    OBVIOUS
  <2>. HIDE DEF F
  <2>. QED
    BY <1>1, <2>1, <2>2
<1>5. CASE ListenerStep
  <2>. DEFINE due  == [f \in Live |-> WithDue(TakeAck(got)[f])]
  <2>1. inflight' = [f \in Live \ Resolved(due) |-> due[f]]
    BY <1>5 DEF ListenerStep
  <2>. HIDE DEF due
  <2>. QED
    BY <1>1, <2>1
<1>6. CASE Tick
  <2>. DEFINE older == [f \in Live |->
                 [inflight[f] EXCEPT !.created  = Older(@, MaxAge),
                                     !.probesAt = Older(@, MaxDelay),
                                     !.sentAt   = [p \in Pids |-> Older(@[p], MaxDelay)]]]
  <2>1. inflight' = older
    BY <1>6 DEF Tick
  <2>2. older = [f \in Live |-> older[f]]
    OBVIOUS
  <2>. HIDE DEF older
  <2>. QED
    BY <1>1, <2>1, <2>2
<1>7. CASE MainCloses
  BY <1>7 DEF MainCloses, MapInv, Live
<1>8. CASE PacerResend \/ PacerData \/ PacerSent \/ PacerProbed
  <2>1. CASE PacerResend
    <3>1. PICK f, p : Resend(f, p)
      BY <2>1 DEF PacerResend
    <3>. DEFINE g == [inflight[f] EXCEPT !.queued = @ \ {p}, !.attempt[p] = @ + 1,
                                         !.sentAt[p] = 0]
    <3>2. inflight' = [inflight EXCEPT ![f] = g]
      BY <3>1 DEF Resend
    <3>. HIDE DEF g
    <3>. QED
      BY <1>3, <3>2
  <2>2. CASE PacerData
    <3>. DEFINE g == [inflight[cur] EXCEPT !.sentAt[pid] = 0]
    <3>1. UNCHANGED inflight \/ inflight' = [inflight EXCEPT ![cur] = g]
      BY <2>2 DEF PacerData
    <3>. HIDE DEF g
    <3>. QED
      BY <1>2, <1>3, <3>1
  <2>3. CASE PacerSent
    <3>. DEFINE g == [inflight[cur] EXCEPT !.allSent = TRUE]
    <3>1. UNCHANGED inflight \/ inflight' = [inflight EXCEPT ![cur] = g]
      BY <2>3 DEF PacerSent
    <3>. HIDE DEF g
    <3>. QED
      BY <1>2, <1>3, <3>1
  <2>4. CASE PacerProbed
    <3>. DEFINE g == [inflight[cur] EXCEPT !.probesAt = 0]
    <3>1. UNCHANGED inflight \/ inflight' = [inflight EXCEPT ![cur] = g]
      BY <2>4 DEF PacerProbed
    <3>. HIDE DEF g
    <3>. QED
      BY <1>2, <1>3, <3>1
  <2>. QED
    BY <1>8, <2>1, <2>2, <2>3, <2>4
<1>9. CASE CaptureCheck \/ CapturePush \/ CaptureEnds \/ Fail \/ MainStopsProducing
           \/ MainJoinsCapture \/ MainStops \/ UNCHANGED vars
  BY <1>2, <1>9 DEF CaptureCheck, CapturePush, CaptureEnds, Fail, MainStopsProducing,
     MainJoinsCapture, MainStops, vars, shared
<1>10. CASE PacerNoResend \/ PacerIdle \/ PacerProbe \/ ListenerRead \/ ListenerEnds
  BY <1>2, <1>10 DEF PacerNoResend, PacerIdle, PacerProbe, ListenerRead, ListenerEnds, shared
<1>. QED
  BY <1>4, <1>5, <1>6, <1>7, <1>8, <1>9, <1>10 DEF Next, Pacer, Listener

-----------------------------------------------------------------------------
(* The theorems *)

\* What the ACK in hand, the marks and the deque satisfy together: an entry of the
\* deque is stale or marked because the listener marks only what is not acknowledged,
\* and it acknowledges only frames in flight.
RetryInv ==
    /\ SendInv /\ ProbeInv /\ GotInv
    /\ BookInv /\ TouchInv

KindInv == FlagsInv /\ PlacesInv /\ MapInv

LEMMA RetryInvHolds == Spec => []RetryInv
<1>1. Init => RetryInv
  <2>. SUFFICES ASSUME Init
                PROVE  RetryInv
    OBVIOUS
  <2>1. Live = {} /\ Entries(retries) = {}
    BY DEF Init, Live, Entries
  <2>2. SendInv /\ ProbeInv
    BY <2>1 DEF Init, SendInv, ProbeInv
  <2>3. GotInv
    BY DEF Init, GotInv, AcksOf, NoAck
  <2>4. BookInv
    BY <2>1 DEF Init, BookInv, Distinct, MarksAgree, Live
  <2>5. TouchInv
    BY <2>1 DEF Init, TouchInv, CleanUnlessUnheard
  <2>. QED
    BY <2>2, <2>3, <2>4, <2>5 DEF RetryInv
<1>2. FlightInv /\ LedgerInv /\ RetryInv /\ [Next]_vars => RetryInv'
  <2>. SUFFICES ASSUME FlightInv, LedgerInv, RetryInv, [Next]_vars
                PROVE  RetryInv'
    OBVIOUS
  <2>1. SendInv /\ ProbeInv /\ GotInv /\ BookInv /\ TouchInv
    BY DEF RetryInv
  <2>2. SendInv' /\ ProbeInv' /\ GotInv'
    BY <2>1, SendInvStep, ProbeStep, GotStep
  <2>3. BookInv' /\ TouchInv'
    BY <2>1, BookStep, TouchStep
  <2>. QED
    BY <2>2, <2>3 DEF RetryInv
<1>. QED
  BY <1>1, <1>2, Invariants, PTL DEF Spec

LEMMA KindInvHolds == Spec => []KindInv
<1>1. Init => KindInv
  <2>1. Init => FlagsInv
    BY DEF Init, FlagsInv
  <2>2. Init => PlacesInv
    BY Times DEF Init, PlacesInv
  <2>3. Init => MapInv
    BY DEF Init, MapInv, Live
  <2>. QED
    BY <2>1, <2>2, <2>3 DEF KindInv
<1>2. KindInv /\ [Next]_vars => KindInv'
  BY FlagsStep, PlacesStep, MapStep DEF KindInv
<1>. QED
  BY <1>1, <1>2, PTL DEF Spec

\* Every variable keeps its type: no thread is lost, no counter of retransmissions
\* passes MaxAttempt, and the listener never resolves the frame of the ACK it holds
\* before it takes the ACK in.
THEOREM TypeCorrect == Spec => []TypeOK
<1>1. FlightInv /\ LedgerInv /\ RetryInv /\ KindInv => TypeOK
  <2>. SUFFICES ASSUME FlightInv, LedgerInv, RetryInv, KindInv
                PROVE  TypeOK
    OBVIOUS
  <2>1. Live \subseteq Ids
    BY LiveAreIds
  <2>2. inflight \in [Live -> SentFrames]
    <3>1. inflight = [f \in Live |-> inflight[f]]
      BY DEF KindInv, MapInv
    <3>2. \A f \in Live : inflight[f] \in SentFrames
      BY DEF RetryInv, BookInv, FrameOK
    <3>. QED
      BY <3>1, <3>2
  <2>3. queue \in Nat /\ nextId \in 1..(MaxFrames + 1)
    BY FrameBound DEF LedgerInv, QueueInv
  <2>4. cur \in 0..MaxFrames /\ pid \in Nat
    BY <2>3, FrameBound DEF RetryInv, SendInv
  <2>5. startedAge \in Ages
    BY DEF FlightInv
  <2>6. retries \in Seq(Ids \X Pids)
    BY DEF RetryInv, BookInv
  <2>7. got \in {NoAck} \cup {AckOf(k, f, p, c) : k \in {"data", "recovered", "probe"},
                             f \in Live, p \in Pids \cup Probes, c \in BOOLEAN}
    BY DEF RetryInv, GotInv, AcksOf
  <2>8. listener \in {"recv", "lock", "ended"}
    BY DEF RetryInv, GotInv
  <2>9. /\ running \in BOOLEAN /\ producing \in BOOLEAN
        /\ hasOwd \in BOOLEAN /\ retransLoss \in BOOLEAN /\ limiting \in BOOLEAN
    BY Zenon DEF KindInv, FlagsInv
  <2>10. PlacesInv
    BY DEF KindInv
  <2>. QED
    BY <2>1, <2>2, <2>3, <2>4, <2>5, <2>6, <2>7, <2>8, <2>9, <2>10
    DEF TypeOK, PlacesInv
<1>. QED
  BY <1>1, Invariants, RetryInvHolds, KindInvHolds, PTL

\* The marks and the deque agree, though the pacer changes them at one time and the
\* listener at another: what is marked is sent again, once.
THEOREM RetriesAgree == Spec => []RetryBook
<1>1. RetryInv => RetryBook
  BY DEF RetryInv, BookInv, RetryBook, MarksAgree, Distinct, Entries, Live
<1>. QED
  BY <1>1, RetryInvHolds, PTL

\* A frame retransmitted, or whose repair the sender was told of, is never sampled
\* as clean, however the retransmission and the ACKs interleave.
THEOREM TouchedNeverClean == Spec => []CleanUnlessUnheard
<1>1. RetryInv => CleanUnlessUnheard
  BY DEF RetryInv, TouchInv
<1>. QED
  BY <1>1, RetryInvHolds, PTL
=============================================================================
