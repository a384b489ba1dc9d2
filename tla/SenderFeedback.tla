---------------------------- MODULE SenderFeedback ----------------------------
(***************************************************************************)
(* The threads of the sender, codes/sender.cc, around the state its mutex  *)
(* protects: capture queues encoded frames, the pacer sends them packet by *)
(* packet and retransmits in between, the listener takes in ACKs, runs the *)
(* timers and resolves frames, and the main thread shuts all of them down. *)
(*                                                                         *)
(* An action is one critical section with the unlocked code that follows   *)
(* it, and reads that the code makes before it takes the mutex are steps   *)
(* of their own: both the pacer and the listener read the clock first.     *)
(*                                                                         *)
(* Times are kept as ages that a Tick advances, NotYet standing for a time *)
(* not taken.  `lag' is the age of the listener's own reading of the clock *)
(* so that "now - t" of the code is the age of t less the lag, and wraps   *)
(* when t was taken after now.  The network and the receiver are any order *)
(* of ACKs for packets sent, with losses and repetitions.  What ACKs say   *)
(* of delay only feeds the controller, PudicaController's subject.         *)
(***************************************************************************)
EXTENDS Integers, FiniteSets, Sequences, SequencesExt, FiniteSetsExt

CONSTANTS
    NPackets,       \* data packets of a frame, one parity group (FEC_K)
    NProbe,         \* probe packets of a frame
    MaxQueue,       \* frames that may wait for the pacer (3)
    MaxAttempt,     \* retransmissions of a packet (8)
    FrameTimeout,   \* FRAME_TIMEOUT
    RetryDelay,     \* retry_delay_us, held constant
    LateAge,        \* age from which a frame in flight is late
    LimitOn,        \* pending retransmissions that start the rate limit (4)
    LimitOff,       \* pending retransmissions below which it stops (2)
    MaxLag,         \* bound: time the listener waits for the mutex
    MaxFrames,      \* bound: frame identifiers
    MayFail         \* may a worker thread throw?

NotYet == -1

\* Ages from which no comparison of the code changes any more.
MaxAge   == FrameTimeout + MaxLag + 1
MaxDelay == RetryDelay + MaxLag + 1

ASSUME FrameShape == NPackets \in Nat \ {0} /\ NProbe \in Nat \ {0}
ASSUME Limits == /\ MaxQueue \in Nat \ {0} /\ MaxAttempt \in Nat
                 /\ LimitOn \in Nat /\ LimitOff \in Nat
ASSUME Times == /\ FrameTimeout \in Nat /\ MaxLag \in Nat
                /\ RetryDelay \in 0..FrameTimeout
                /\ LateAge \in 0..FrameTimeout
ASSUME FrameBound == MaxFrames \in Nat /\ MayFail \in BOOLEAN

VARIABLES
    running, producing,     \* the atomic flags
    queue,                  \* number of frames waiting in `frames'
    inflight,               \* map from frame id to SentFrame
    retries,                \* deque of << frame id, packet id >>
    nextId,                 \* next_id
    hasOwd,                 \* min_owd has been measured
    retransLoss,            \* retrans_loss_seen
    limiting                \* the reactive rate limit is on

VARIABLES
    capture,                \* where each thread is
    pacer, listener, main,
    cur, pid,               \* the pacer's frame and its next packet or probe
    startedAge,             \* age of the pacer's `started'
    got, lag                \* the ACK the listener received, age of its `now'

VARIABLES                   \* what happened, read by no thread of the sender
    outcome,                \* outcome of each frame
    touched,                \* frames retransmitted, or a RECOVERED ACK of which came in
    rebuilt,                \* frames the receiver completed by parity, told or not
    alarm                   \* was the last age report late, and was it true?

shared  == << running, producing, queue, inflight, retries, nextId, hasOwd,
              retransLoss, limiting >>
threads == << capture, pacer, listener, main, cur, pid, startedAge, got, lag >>
history == << outcome, touched, rebuilt, alarm >>
vars    == << shared, threads, history >>

-----------------------------------------------------------------------------
(* Values *)

Ids    == 1..MaxFrames
Pids   == 0..(NPackets - 1)
Probes == 0..(NProbe - 1)
Ages   == NotYet..MaxAge
Delays == NotYet..MaxDelay

NoAck == [kind |-> "none"]
AckOf(kind, f, p, complete) ==
    [kind |-> kind, fid |-> f, pid |-> p, complete |-> complete]

SentFrames == [created   : Ages,
               probesAt  : Delays,
               allSent   : BOOLEAN,
               delivered : BOOLEAN,
               loss      : BOOLEAN,
               sentAt    : [Pids -> Delays],
               attempt   : [Pids -> 0..MaxAttempt],
               acked     : SUBSET Pids,
               queued    : SUBSET Pids,     \* retry_queued
               probes    : SUBSET Probes]

NewFrame(age) == [created   |-> age,
                  probesAt  |-> NotYet,
                  allSent   |-> FALSE,
                  delivered |-> FALSE,
                  loss      |-> FALSE,
                  sentAt    |-> [p \in Pids |-> NotYet],
                  attempt   |-> [p \in Pids |-> 0],
                  acked     |-> {},
                  queued    |-> {},
                  probes    |-> {}]

Live == DOMAIN inflight

TypeOK ==
    /\ running \in BOOLEAN /\ producing \in BOOLEAN
    /\ queue \in Nat
    /\ Live \subseteq Ids /\ inflight \in [Live -> SentFrames]
    /\ retries \in Seq(Ids \X Pids)
    /\ nextId \in 1..(MaxFrames + 1)
    /\ hasOwd \in BOOLEAN /\ retransLoss \in BOOLEAN /\ limiting \in BOOLEAN
    /\ capture \in {"check", "encode", "ended"}
    /\ pacer \in {"retry", "begin", "resend", "data", "sent", "probe", "probed", "ended"}
    /\ listener \in {"recv", "lock", "ended"}
    /\ main \in {"run", "join", "drain", "stop", "stopped"}
    /\ cur \in 0..MaxFrames /\ pid \in Nat
    /\ startedAge \in Ages
    /\ got \in {NoAck} \cup {AckOf(k, f, p, c) : k \in {"data", "recovered", "probe"},
                             f \in Live, p \in Pids \cup Probes, c \in BOOLEAN}
    /\ lag \in 0..MaxLag

Init ==
    /\ running = TRUE /\ producing = TRUE
    /\ queue = 0 /\ inflight = << >> /\ retries = << >> /\ nextId = 1
    /\ hasOwd = FALSE /\ retransLoss = FALSE /\ limiting = FALSE
    /\ capture = "check" /\ pacer = "retry" /\ listener = "recv" /\ main = "run"
    /\ cur = 0 /\ pid = 0 /\ startedAge = NotYet
    /\ got = NoAck /\ lag = 0
    /\ outcome = [i \in Ids |-> "open"] /\ touched = {} /\ rebuilt = {}
    /\ alarm = "none"

-----------------------------------------------------------------------------
(* Capture and its queue *)

QueueHasRoom      == queue < MaxQueue

\* Otherwise the frame is skipped.
CaptureCheck ==
    /\ capture = "check" /\ producing /\ running
    /\ QueueHasRoom
    /\ nextId + queue <= MaxFrames
    /\ capture' = "encode"
    /\ UNCHANGED << shared, pacer, listener, main, cur, pid, startedAge, got, lag, history >>

\* The encoder ran outside the mutex; it may have produced nothing.
CapturePush ==
    /\ capture = "encode"
    /\ queue' \in {queue, queue + 1}
    /\ capture' = "check"
    /\ UNCHANGED << running, producing, inflight, retries, nextId, hasOwd, retransLoss,
                    limiting, pacer, listener, main, cur, pid, startedAge, got, lag, history >>

CaptureEnds ==
    /\ capture = "check" /\ ~(producing /\ running)
    /\ capture' = "ended"
    /\ UNCHANGED << shared, pacer, listener, main, cur, pid, startedAge, got, lag, history >>

-----------------------------------------------------------------------------
(* The pacer *)

\* retry_one drops the entries of frames gone and packets acknowledged.
Sendable(e) == e[1] \in Live /\ e[2] \notin inflight[e[1]].acked

FirstSendable == SelectInSeq(retries, Sendable)

ResendStillQueued(f, p) ==                  \* mutant of Resend
    inflight' = [inflight EXCEPT ![f].attempt[p] = @ + 1, ![f].sentAt[p] = 0]
Resend(f, p) ==
    inflight' = [inflight EXCEPT
        ![f].queued = @ \ {p}, ![f].attempt[p] = @ + 1, ![f].sentAt[p] = 0]

\* while(running && retry_one()), one retransmission at a time.
PacerResend ==
    /\ pacer \in {"retry", "resend"} /\ running
    /\ FirstSendable # 0
    /\ LET e == retries[FirstSendable]
       IN  Resend(e[1], e[2]) /\ touched' = touched \cup {e[1]}
    /\ retries' = SubSeq(retries, FirstSendable + 1, Len(retries))
    /\ UNCHANGED << running, producing, queue, nextId, hasOwd, retransLoss, limiting,
                    threads, outcome, rebuilt, alarm >>

\* No retransmission is left: go on to a frame, reading the clock before the
\* mutex, or to the frame's next packet.
PacerNoResend ==
    /\ pacer \in {"retry", "resend"}
    /\ running => FirstSendable = 0
    /\ retries' = IF running THEN << >> ELSE retries
    /\ IF pacer = "retry"
       THEN pacer' = "begin" /\ startedAge' = 0
       ELSE pacer' = "data" /\ UNCHANGED startedAge
    /\ UNCHANGED << running, producing, queue, inflight, nextId, hasOwd, retransLoss,
                    limiting, capture, listener, main, cur, pid, got, lag, history >>

NextPacketByOne(next) ==                    \* mutant of NextPacket
    IF next + 1 < NPackets /\ running THEN "resend" ELSE "sent"
NextPacket(next) == IF next < NPackets /\ running THEN "resend" ELSE "sent"

\* Pop a frame and enter it into the in-flight map, in one critical section.
PacerBegin ==
    /\ pacer = "begin" /\ queue > 0
    /\ queue' = queue - 1
    /\ inflight' = [f \in Live \cup {nextId} |->
                        IF f = nextId THEN NewFrame(startedAge) ELSE inflight[f]]
    /\ nextId' = nextId + 1
    /\ cur' = nextId /\ pid' = 0
    /\ pacer' = NextPacket(0)
    /\ startedAge' = NotYet
    /\ UNCHANGED << running, producing, retries, hasOwd, retransLoss, limiting,
                    capture, listener, main, got, lag, history >>

PacerIdle ==
    /\ pacer = "begin" /\ queue = 0
    /\ pacer' = IF running THEN "retry" ELSE "ended"
    /\ startedAge' = NotYet
    /\ UNCHANGED << shared, capture, listener, main, cur, pid, got, lag, history >>

\* A frame that was resolved while it was being sent is abandoned.
PacerData ==
    /\ pacer = "data"
    /\ IF cur \in Live
       THEN /\ inflight' = [inflight EXCEPT ![cur].sentAt[pid] = 0]
            /\ pid' = pid + 1
            /\ pacer' = NextPacket(pid + 1)
       ELSE /\ pacer' = "sent"
            /\ UNCHANGED << inflight, pid >>
    /\ UNCHANGED << running, producing, queue, retries, nextId, hasOwd, retransLoss,
                    limiting, capture, listener, main, cur, startedAge, got, lag, history >>

PacerSent ==
    /\ pacer = "sent"
    /\ IF cur \in Live
       THEN inflight' = [inflight EXCEPT ![cur].allSent = TRUE]
       ELSE UNCHANGED inflight
    /\ pid' = 0
    /\ pacer' = IF running THEN "probe" ELSE "probed"
    /\ UNCHANGED << running, producing, queue, retries, nextId, hasOwd, retransLoss,
                    limiting, capture, listener, main, cur, startedAge, got, lag, history >>

PacerProbe ==
    /\ pacer = "probe"
    /\ pid' = IF cur \in Live THEN pid + 1 ELSE pid
    /\ pacer' = IF cur \in Live /\ pid + 1 < NProbe /\ running THEN "probe" ELSE "probed"
    /\ UNCHANGED << shared, capture, listener, main, cur, startedAge, got, lag, history >>

PacerProbed ==
    /\ pacer = "probed"
    /\ IF cur \in Live
       THEN inflight' = [inflight EXCEPT ![cur].probesAt = 0]
       ELSE UNCHANGED inflight
    /\ pacer' = IF running THEN "retry" ELSE "ended"
    /\ UNCHANGED << running, producing, queue, retries, nextId, hasOwd, retransLoss,
                    limiting, capture, listener, main, cur, pid, startedAge, got, lag, history >>

Pacer == PacerResend \/ PacerNoResend \/ PacerBegin \/ PacerIdle \/ PacerData
         \/ PacerSent \/ PacerProbe \/ PacerProbed

-----------------------------------------------------------------------------
(* The listener *)

\* now - t, negative when t was taken after the listener read its clock
Since(age) == age - lag

\* What the receiver may have acknowledged: packets sent, and once all of them
\* are sent the parity completes the frame.  The ACK of the packet that arrives
\* last says so itself.  Only of a frame rebuilt from parity is there a RECOVERED
\* ACK; how a frame was completed is open until an ACK first says that it was.
MayBeRebuilt(f) == NPackets > 1 /\ (f \in rebuilt \/ ~inflight[f].delivered)

AcksFor(f) ==
    LET fr      == inflight[f]
        sentOf  == {p \in Pids : fr.sentAt[p] # NotYet}
        whole   == sentOf = Pids
        partial == {p \in sentOf : fr.acked \cup {p} # Pids}
        probed  == IF ~fr.allSent THEN {} ELSE IF f = cur THEN 0..(pid - 1) ELSE Probes
    IN  {AckOf("data", f, p, FALSE)  : p \in partial}
        \cup {AckOf("data", f, p, TRUE) : p \in IF whole THEN Pids ELSE {}}
        \cup {AckOf("recovered", f, p, TRUE) : p \in IF MayBeRebuilt(f) /\ whole THEN Pids ELSE {}}
        \cup {AckOf("probe", f, p, c) : p \in probed, c \in {FALSE, whole}}

Acks == {NoAck} \cup UNION {AcksFor(f) : f \in Live}

\* The ACK tells how the frame was completed, or only that it was.
Rebuilds(a) ==
    CASE a.kind = "recovered"                            -> {rebuilt \cup {a.fid}}
      [] a.kind \in {"data", "probe"} /\ a.complete
                /\ MayBeRebuilt(a.fid)                   -> {rebuilt, rebuilt \cup {a.fid}}
      [] OTHER                                           -> {rebuilt}

\* SentFrame::acknowledge
Acknowledge(fr, a) ==
    LET marked ==
        [fr EXCEPT !.loss   = @ \/ a.kind = "recovered",
                   !.probes = IF a.kind = "probe" THEN @ \cup {a.pid} ELSE @,
                   !.acked  = IF a.kind = "probe" THEN @ ELSE @ \cup {a.pid},
                   !.queued = IF a.kind = "probe" THEN @ ELSE @ \ {a.pid}]
    IN  IF a.complete
        THEN [marked EXCEPT !.delivered = TRUE, !.acked = Pids, !.queued = {}]
        ELSE marked

\* The in-flight frames after one ACK.
TakeAck(a) == IF a.kind = "none" THEN inflight
              ELSE [inflight EXCEPT ![a.fid] = Acknowledge(@, a)]

\* retry_delay_us is over since a packet was sent.
DelayOverUnsigned(age) ==                   \* mutant of DelayOver
    Since(age) < 0 \/ Since(age) >= RetryDelay
DelayOver(age) == Since(age) >= RetryDelay

AttemptAfterLast(n) == n <= MaxAttempt      \* mutant of AttemptLeft
AttemptLeft(n) == n < MaxAttempt

\* timers: the packets of a frame whose retransmission is due.
Due(fr) == {p \in Pids :
              /\ ~fr.delivered /\ fr.allSent
              /\ p \notin fr.acked /\ p \notin fr.queued
              /\ fr.sentAt[p] # NotYet /\ DelayOver(fr.sentAt[p])
              /\ AttemptLeft(fr.attempt[p])}

\* Marked for retransmission, a frame counts as lossy.
WithDueKeptClean(fr) ==                     \* mutant of WithDue
    [fr EXCEPT !.queued = @ \cup Due(fr)]
WithDue(fr) == [fr EXCEPT !.queued = @ \cup Due(fr), !.loss = @ \/ Due(fr) # {}]

DueEntries(fs) == {e \in (DOMAIN fs) \X Pids : e[2] \in Due(fs[e[1]])}

\* timers goes through the frames, and through a frame's packets, in order.
InOrder(d, e) == d[1] < e[1] \/ (d[1] = e[1] /\ d[2] < e[2])
Earlier(S, e) == {d \in S : InOrder(d, e)}
Ordered(S) == [i \in 1..Cardinality(S) |-> CHOOSE e \in S : Cardinality(Earlier(S, e)) = i - 1]

\* A retransmission was lost: a packet retransmitted before is due again.
LostAgain(fs) == \E e \in DueEntries(fs) : fs[e[1]].attempt[e[2]] > 0

\* on_inflight_age for the oldest undelivered frame.  The subtraction is of
\* unsigned numbers: a frame begun after the listener read its clock looks
\* older than any bound.
Undelivered(fs) == {f \in DOMAIN fs : ~fs[f].delivered}

Alarm(fs) ==
    IF Undelivered(fs) = {} THEN "none"
    ELSE LET age  == fs[Min(Undelivered(fs))].created
             late == Since(age) < 0 \/ Since(age) >= LateAge
         IN  IF ~late THEN "none" ELSE IF age >= LateAge THEN "late" ELSE "spurious"

\* resolve: a frame leaves when it has expired, or is delivered and its probes
\* are in or overdue -- and then only with every older frame.
ExpiredUnsigned(fr) ==                      \* mutant of Expired
    Since(fr.created) < 0 \/ Since(fr.created) > FrameTimeout
Expired(fr) == Since(fr.created) > FrameTimeout

ProbesReady(fr) == \/ fr.probes = Probes
                   \/ fr.probesAt # NotYet /\ Since(fr.probesAt) > RetryDelay

Resolvable(fr) == Expired(fr) \/ (fr.delivered /\ ProbesReady(fr))

ResolvedAnyOrder(fs) ==                     \* mutant of Resolved
    {f \in DOMAIN fs : Resolvable(fs[f])}
Resolved(fs) == {f \in DOMAIN fs : \A g \in DOMAIN fs : g <= f => Resolvable(fs[g])}

OutcomeOf(fr, measured) ==
    CASE ~fr.delivered            -> "lost"
      [] fr.delivered /\ measured -> IF fr.loss THEN "lossy" ELSE "clean"
      [] OTHER                    -> "unsampled"

\* pending_retries
Pending(fs) == Cardinality({e \in (DOMAIN fs) \X Pids :
    LET fr == fs[e[1]] p == e[2]
    IN  p \notin fr.acked /\ (fr.attempt[p] > 0 \/ p \in fr.queued)})

\* The rate limit stops when retransmissions have ceased.
CeasedInFlight(fs, rs) ==                   \* mutant of Ceased
    fs # << >> /\ Pending(fs) < LimitOff /\ rs = << >>
Ceased(fs, rs) == Pending(fs) < LimitOff /\ rs = << >>

\* recv returned, with an ACK or without, then the clock is read.
ListenerRead ==
    /\ listener = "recv" /\ running
    /\ got' \in Acks
    /\ rebuilt' \in Rebuilds(got')
    /\ lag' = 0
    /\ listener' = "lock"
    /\ UNCHANGED << shared, capture, pacer, main, cur, pid, startedAge, outcome, touched,
                    alarm >>

ListenerEnds ==
    /\ listener = "recv" /\ ~running
    /\ listener' = "ended"
    /\ UNCHANGED << shared, capture, pacer, main, cur, pid, startedAge, got, lag, history >>

\* The ACK, if any, then timers(now) with resolve(now) at its end.
ListenerStep ==
    /\ listener = "lock"
    /\ LET fs   == TakeAck(got)
           due  == [f \in Live |-> WithDue(fs[f])]
           done == Resolved(due)
           left == [f \in Live \ done |-> due[f]]
           owd  == hasOwd \/ got.kind \in {"data", "probe"}
           lost == retransLoss \/ LostAgain(fs)
           on   == limiting \/ (lost /\ Pending(left) >= LimitOn)
       IN  /\ inflight' = left
           /\ retries' = retries \o Ordered(DueEntries(fs))
           /\ hasOwd' = owd
           /\ retransLoss' = lost
           /\ alarm' = Alarm(due)
           /\ outcome' = [i \in Ids |-> IF i \in done THEN OutcomeOf(due[i], owd)
                                        ELSE outcome[i]]
           /\ limiting' = (on /\ ~Ceased(left, retries'))
    /\ touched' = IF got.kind = "recovered" THEN touched \cup {got.fid} ELSE touched
    /\ listener' = "recv" /\ got' = NoAck /\ lag' = 0
    /\ UNCHANGED << running, producing, queue, nextId, capture, pacer, main, cur, pid,
                    startedAge, rebuilt >>

-----------------------------------------------------------------------------
(* Failures, the main thread, time *)

\* guarded: an exception ends its thread and stops the others.
Fail ==
    /\ MayFail
    /\ running' = FALSE /\ producing' = FALSE
    /\ \/ /\ capture # "ended" /\ capture' = "ended"
          /\ UNCHANGED << pacer, listener, got >>
       \/ /\ pacer # "ended" /\ pacer' = "ended"
          /\ UNCHANGED << capture, listener, got >>
       \/ /\ listener # "ended" /\ listener' = "ended" /\ got' = NoAck
          /\ UNCHANGED << capture, pacer >>
    /\ UNCHANGED << queue, inflight, retries, nextId, hasOwd, retransLoss, limiting,
                    main, cur, pid, startedAge, lag, history >>

\* The time is up, or the sender was interrupted, or a worker stopped it.
MainStopsProducing ==
    /\ main = "run"
    /\ main' = "join"
    /\ running' \in {running, FALSE}
    /\ producing' = FALSE
    /\ UNCHANGED << queue, inflight, retries, nextId, hasOwd, retransLoss, limiting,
                    capture, pacer, listener, cur, pid, startedAge, got, lag, history >>

MainJoinsCapture ==
    /\ main = "join" /\ capture = "ended"
    /\ main' = "drain"
    /\ UNCHANGED << shared, capture, pacer, listener, cur, pid, startedAge, got, lag, history >>

\* Everything is resolved, or the drain has taken too long.
MainStops ==
    /\ main = "drain"
    /\ main' = "stop"
    /\ running' = FALSE /\ producing' = FALSE
    /\ UNCHANGED << queue, inflight, retries, nextId, hasOwd, retransLoss, limiting,
                    capture, pacer, listener, cur, pid, startedAge, got, lag, history >>

ClosingSent == {f \in Live : inflight[f].allSent}      \* mutant of Closing
Closing == Live

Joined == capture = "ended" /\ pacer = "ended" /\ listener = "ended"

\* stop, after joining the threads: what is still in flight gets its outcome.
MainCloses ==
    /\ main = "stop"
    /\ Joined
    /\ main' = "stopped"
    /\ outcome' = [i \in Ids |-> IF i \in Closing THEN OutcomeOf(inflight[i], FALSE)
                                 ELSE outcome[i]]
    /\ inflight' = << >> /\ queue' = 0 /\ retries' = << >>
    /\ UNCHANGED << running, producing, nextId, hasOwd, retransLoss, limiting,
                    capture, pacer, listener, cur, pid, startedAge, got, lag, touched, rebuilt,
                    alarm >>

Older(age, cap) == IF age \in {NotYet, cap} THEN age ELSE age + 1

Tick ==
    /\ main # "stopped"
    /\ listener = "lock" => lag < MaxLag
    /\ lag' = IF listener = "lock" THEN lag + 1 ELSE lag
    /\ startedAge' = IF pacer = "begin" THEN Older(startedAge, MaxAge) ELSE startedAge
    /\ inflight' = [f \in Live |->
           [inflight[f] EXCEPT !.created  = Older(@, MaxAge),
                               !.probesAt = Older(@, MaxDelay),
                               !.sentAt   = [p \in Pids |-> Older(@[p], MaxDelay)]]]
    /\ UNCHANGED << running, producing, queue, retries, nextId, hasOwd, retransLoss,
                    limiting, capture, pacer, listener, main, cur, pid, got, history >>

-----------------------------------------------------------------------------

Listener == ListenerRead \/ ListenerEnds \/ ListenerStep

Next == \/ CaptureCheck \/ CapturePush \/ CaptureEnds
        \/ Pacer
        \/ Listener
        \/ Fail
        \/ MainStopsProducing \/ MainJoinsCapture \/ MainStops \/ MainCloses
        \/ Tick

\* The operating system runs every thread, and time passes: strongly fair, for
\* Tick waits for the listener at MaxLag, which is a bound of the model.  Nothing
\* makes main's time run out, a frame be captured or the network deliver: the
\* listener is fair about its loop, not about the ACK it finds: in the loop one of its
\* steps can always be taken, and each changes its place.
ListenerGoes == listener # "ended" /\ listener' \in {"recv", "lock", "ended"} \ {listener}

Fairness ==
    /\ WF_vars(Pacer) /\ WF_listener(ListenerGoes) /\ SF_vars(Tick)
    /\ WF_vars(CapturePush \/ CaptureEnds)
    /\ WF_vars(\/ MainStopsProducing /\ ~running
               \/ MainJoinsCapture \/ MainStops \/ MainCloses)

Spec == Init /\ [][Next]_vars
FairSpec == Spec /\ Fairness

-----------------------------------------------------------------------------
(* Properties *)

\* What FrameLedger promises, under fairness: a frame gets one outcome, frames
\* get theirs in order, and none is left without -- whatever ACKs arrive, and when
\* the sender is stopped in the middle of a frame.
Ledger == INSTANCE FrameLedger WITH sent <- nextId - 1, ledger <- outcome
LedgerKept == Ledger!Spec

\* retry_queued and the deque, which the pacer and the listener change at
\* different times, agree: no packet is in the deque twice, a packet marked is in
\* it (or it would never be sent again), and an entry not marked is stale.
RetryBook ==
    LET entries == {retries[i] : i \in 1..Len(retries)}
    IN  /\ \A i, j \in 1..Len(retries) : retries[i] = retries[j] => i = j
        /\ \A f \in Live, p \in Pids :
               /\ p \in inflight[f].queued => << f, p >> \in entries
               /\ << f, p >> \in entries => p \in inflight[f].queued \cup inflight[f].acked

\* A frame that counts as sent has no packet nobody will send: each is
\* acknowledged or has a send time, from which its timer runs (sender.cc:167).
NoPacketForgotten ==
    running => \A f \in Live : inflight[f].allSent =>
        \A p \in Pids \ inflight[f].acked : inflight[f].sentAt[p] # NotYet

\* A frame the sender retransmitted, or was told the repair of before it resolved
\* the frame, is never sampled as clean: the retransmission, queued by the listener
\* and made by the pacer, and the repair, told before, with or after the ACK that
\* completes the frame (FrameAck::lossy).
CleanUnlessUnheard == \A f \in Ids : outcome[f] = "clean" => f \notin touched

\* What TECHNICAL_DOCUMENTATION.md:299 and pudica_algo.h:54 say, "A frame is lossy
\* if any of its packets needed a retransmission or parity recovery", whoever heard
\* of it.  See findings: the RECOVERED ACK is sent once, and may be lost.
CleanMeansUntouched == \A f \in Ids : outcome[f] = "clean" => f \notin touched \cup rebuilt

\* stop() leaves nothing behind: a frame the pacer began while the sender was
\* already stopping, or was sending when a worker failed, has an outcome too
\* (sender.cc:300-320, 500-510).
ShutdownCloses ==
    main = "stopped" => /\ inflight = << >> /\ queue = 0 /\ retries = << >>
                        /\ \A f \in 1..(nextId - 1) : outcome[f] # "open"

\* No packet is marked for retransmission before retry_delay_us has really
\* passed since it was sent, though the listener's clock may be behind the time
\* the pacer sent it at (sender.cc:167-168).
RetransmitsAreDue ==
    [][\A f \in Live : f \in DOMAIN inflight' =>
          \A p \in inflight'[f].queued \ inflight[f].queued :
              inflight[f].sentAt[p] >= RetryDelay]_vars

\* While the sender runs, no frame is given up before FRAME_TIMEOUT has really
\* passed since it was begun (sender.cc:109).
LossesAreLate ==
    [][\A f \in Live : outcome'[f] = "lost" /\ main # "stop" =>
          inflight[f].created > FrameTimeout]_vars

\* The reactive rate limit does not outlast the retransmissions it answers: when
\* frames stop coming it is released, even if all of them were lost and their
\* entries are still in the deque (sender.cc:158-160).
LimitReleased == limiting ~> (~limiting \/ ~running)

\* What TECHNICAL_DOCUMENTATION.md:253 says of on_inflight_age, "the oldest
\* undelivered frame": it hears of a frame's age only.  See findings.
AlarmsAreTrue == alarm # "spurious"
=============================================================================
