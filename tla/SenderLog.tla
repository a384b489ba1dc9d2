------------------------------- MODULE SenderLog -------------------------------
(***************************************************************************)
(* The log a sender writes (codes/sender.cc, codes/pudica_algo.cc), and    *)
(* what the evaluations make of it: the events of frames sent, delivered,  *)
(* lost, retransmitted and sampled, in every order the sender's threads    *)
(* can write them.  Events are written under the sender's mutex, so their  *)
(* order in the file is the order of the actions.  SenderFeedback has the  *)
(* protocol in full; here a frame's data leave in one step, and expiry and *)
(* the rate controller's inputs are free choices.                          *)
(***************************************************************************)
EXTENDS Sift

CONSTANTS
    MaxFrames,      \* bound: frames sent
    MaxRetries,     \* bound: retransmissions
    Sizes,          \* what the encoder makes of each frame, in bytes
    Received,       \* numbers of probe ACKs
    Delays,         \* delays of delivery, in ms
    Capacities,     \* of the link, in wire bytes per frame interval
    Target,         \* a rate to converge to, in bytes per frame
    Interval        \* a frame's interval, in events: time is the log's length

ASSUME FrameBound == MaxFrames \in Nat /\ MaxRetries \in Nat
ASSUME InputKinds == /\ Sizes \in [1..MaxFrames -> Nat \ {0}]
                     /\ Received \subseteq 0..Probes
                     /\ Delays \subseteq Nat /\ Delays # {}
                     /\ {Target, Interval} \cup Capacities \subseteq Nat \ {0}

\* A sample's BUR, and its print: at most one, above one by less than six decimals
\* show, and plainly above it.
Burs == {"low", "hair", "high"}
Above(bur)   == bur # "low"
Printed(bur) == CASE bur = "low" -> 0 [] bur = "hair" -> 1 [] bur = "high" -> 2

Frames == 1..MaxFrames

VARIABLES
    log,            \* the events written
    frame,          \* of each id: what the pacer sent, what was acknowledged
    head, next,     \* inflight is head..next-1
    pacing,         \* the frame the pacer is at, 0 for none
    measured,       \* has a one-way delay been measured (min_owd)?
    ctl,            \* the controller's last_sample_id, congested_samples, state
    status          \* "running", "stopping" or "closed"

vars == << log, frame, head, next, pacing, measured, ctl, status >>

Inflight == head..next - 1

Init ==
    /\ log = << >>
    /\ frame = [f \in Frames |-> [stage |-> "new", sent |-> 0, probes |-> 0, delivered |-> FALSE]]
    /\ head = 1 /\ next = 1 /\ pacing = 0 /\ measured = FALSE
    /\ ctl = [last |-> 0, congested |-> 0, draining |-> FALSE]
    /\ status = "running"

\* The events, each written later than the one before.
Sent(written, f) ==
    Append(written, [type |-> "FRAME_SENT", fid |-> f, ts |-> Len(written),
                     bytes |-> Sizes[f], interval |-> Interval])
Retried(written, f) ==
    Append(written, [type |-> "PACKET_RETRANSMITTED", fid |-> f, ts |-> Len(written)])
Delivered(written, f, delay) ==
    Append(written, [type |-> "FRAME_DELIVERED", fid |-> f, ts |-> Len(written),
                     bytes |-> Sizes[f], delay |-> delay])
Lost(written, f) ==
    Append(written, [type |-> "FRAME_LOSS", fid |-> f, ts |-> Len(written)])
Summary(written, f, received) ==
    Append(written, [type |-> "PROBE_SUMMARY", fid |-> f, ts |-> Len(written),
                     expected |-> Probes, received |-> received])
Sampled(written, f, bur) ==
    Append(written, [type |-> "CONTROL_SAMPLE", fid |-> f, ts |-> Len(written),
                     bur |-> Printed(bur), pacing |-> 1, n_probes |-> Probes])
DrainStart(written, f, rate) ==
    Append(written, [type |-> "DRAIN_START", fid |-> f, ts |-> Len(written),
                     drain_rate |-> rate])

-----------------------------------------------------------------------------
(* The pacer *)

PacerBegin ==
    /\ status = "running" /\ pacing = 0 /\ next \in Frames
    /\ frame' = [frame EXCEPT ![next].stage = "begun"]
    /\ log' = Sent(log, next)
    /\ pacing' = next /\ next' = next + 1
    /\ UNCHANGED << head, measured, ctl, status >>

\* The packet a group's parity packet follows.
EndsGroup(pid, count) == (pid % FecK = FecK - 1 \/ pid + 1 = count) /\ pid % FecK # 0

\* Bytes of the first n packets of a frame of `count', and their parity packets.
DataBytes(n, count) ==
    (n + Cardinality({pid \in 0..n - 1 : EndsGroup(pid, count)})) * PacketBytes

\* The pacer's loops are left early when the sender stops or the frame is gone.
MayCut == status # "running" \/ pacing \notin Inflight

PacerData ==
    /\ pacing # 0 /\ frame[pacing].stage = "begun"
    /\ LET count == Packets(Sizes[pacing])
       IN  \E n \in {0, count} :
              /\ n = count \/ MayCut
              /\ frame' = [frame EXCEPT ![pacing].stage = IF n = count THEN "data" ELSE "cut",
                                        ![pacing].sent = DataBytes(n, count)]
              /\ pacing' = IF n = count THEN pacing ELSE 0
    /\ UNCHANGED << log, head, next, measured, ctl, status >>

PacerProbes ==
    /\ pacing # 0 /\ frame[pacing].stage = "data"
    /\ \E n \in {0, Probes} :
          /\ n = Probes \/ MayCut
          /\ frame' = [frame EXCEPT ![pacing].stage = "done", ![pacing].probes = n,
                                    ![pacing].sent = @ + n * (Header + IpUdp)]
    /\ pacing' = 0
    /\ UNCHANGED << log, head, next, measured, ctl, status >>

\* retry_one, between two packets or while the pacer is idle.
Retransmit(f) ==
    /\ status = "running" /\ f \in Inflight
    /\ frame[f].stage \in {"data", "done"} /\ ~frame[f].delivered
    /\ Cardinality(Of("PACKET_RETRANSMITTED", log)) < MaxRetries
    /\ log' = Retried(log, f)
    /\ frame' = [frame EXCEPT ![f].sent = @ + PacketBytes]
    /\ UNCHANGED << head, next, pacing, measured, ctl, status >>

-----------------------------------------------------------------------------
(* The listener *)

\* An ACK that completes nothing, of a packet or a probe, may be the first to measure
\* a delay.
Measure(f) ==
    /\ status # "closed" /\ f \in Inflight
    /\ frame[f].stage \in {"data", "done"}
    /\ ~measured /\ measured' = TRUE
    /\ UNCHANGED << log, frame, head, next, pacing, ctl, status >>

\* The ACK that completes a frame is logged once.  That of a recovered packet leaves
\* the one-way delay unmeasured.
Deliver(f) ==
    /\ status # "closed" /\ f \in Inflight
    /\ frame[f].stage \in {"data", "done"} /\ ~frame[f].delivered
    /\ \E delay \in Delays : log' = Delivered(log, f, delay)
    /\ frame' = [frame EXCEPT ![f].delivered = TRUE]
    /\ measured' \in {measured, TRUE}
    /\ UNCHANGED << head, next, pacing, ctl, status >>

\* Probe ACKs the listener may have: probes arrive from when the pacer sends them.
Acknowledged(f) ==
    IF frame[f].stage = "data" \/ frame[f].probes = Probes THEN Received ELSE {0}

\* on_frame_acked: samples of consecutive frames count up to a drain, which ends
\* with the first sample that is not congested.
Consecutive(c, f) == c.last = 0 \/ f = c.last + 1

CongestedRun(c, f, bur) ==
    IF ~Above(bur) THEN 0
    ELSE IF Consecutive(c, f) THEN c.congested + 1 ELSE 1

DrainsOnTwo(c, run) == run >= 2 /\ ~c.draining     \* mutant of Drains
Drains(c, run) == run >= 3 /\ ~c.draining

Sample(s, f, bur) ==
    LET run == CongestedRun(s.ctl, f, bur)
        drains == Drains(s.ctl, run)
        drained == IF drains THEN DrainStart(s.log, f, 1) ELSE s.log
    IN  [log |-> Sampled(drained, f, bur),
         ctl |-> [last |-> f, congested |-> run,
                  draining |-> drains \/ (s.ctl.draining /\ Above(bur))]]

\* on_frame_loss: frames that expire together back off once.
Loss(s, f, backoff) ==
    LET lost == Lost(s.log, f)
    IN  IF backoff = "backoff"
        THEN [log |-> DrainStart(lost, 0, 0),
              ctl |-> [last |-> s.ctl.last, congested |-> 0, draining |-> TRUE]]
        ELSE [log |-> lost, ctl |-> s.ctl]

\* resolve, of one frame: a sample, a loss, or neither; and its probe summary.
Outcome(s, f, input) ==
    LET s1 == IF ~frame[f].delivered THEN Loss(s, f, input.what)
              ELSE IF measured THEN Sample(s, f, input.what) ELSE s
    IN  [log |-> Summary(s1.log, f, input.received), ctl |-> s1.ctl]

\* A delivered frame's BUR, or whether a lost one backs off.
Inputs(f) == [what : IF frame[f].delivered THEN Burs ELSE {"backoff", "too soon"},
              received : Acknowledged(f)]

\* The frames from the head on, one after the other, n of them.
Resolved(inputs, n) ==
    LET after[k \in 0..n] ==
            IF k = 0 THEN [log |-> log, ctl |-> ctl]
            ELSE Outcome(after[k - 1], head + k - 1, inputs[head + k - 1])
    IN  after

\* resolve takes frames from the head as long as they have expired or their
\* feedback is complete: the probes' ACKs, too, are free choices.
Resolve ==
    /\ status # "closed"
    /\ \E n \in 1..next - head :
          /\ \E inputs \in [head..head + n - 1 -> UNION {Inputs(f) : f \in Inflight}] :
                /\ \A f \in DOMAIN inputs : inputs[f] \in Inputs(f)
                /\ LET s == Resolved(inputs, n)[n]
                   IN  log' = s.log /\ ctl' = s.ctl
          /\ head' = head + n
    /\ UNCHANGED << frame, next, pacing, measured, status >>

-----------------------------------------------------------------------------
(* The end *)

\* The time is over, or a worker failed, the pacer at any place.
Stop ==
    /\ status = "running"
    /\ status' = "stopping"
    /\ pacing' \in {pacing, 0}
    /\ UNCHANGED << log, frame, head, next, measured, ctl >>

\* Frames in flight are accounted for once the threads are joined.
CloseFrame(written, f, received) ==
    Summary(IF frame[f].delivered THEN written ELSE Lost(written, f), f, received)

Closed(received) ==
    LET after[k \in 0..next - head] ==
            IF k = 0 THEN log
            ELSE CloseFrame(after[k - 1], head + k - 1, received[head + k - 1])
    IN  after

Close ==
    /\ status = "stopping" /\ pacing = 0
    /\ \E received \in [Inflight -> Received \cup {0}] :
          /\ \A f \in Inflight : received[f] \in Acknowledged(f)
          /\ log' = Closed(received)[next - head]
    /\ head' = next /\ status' = "closed"
    /\ UNCHANGED << frame, next, pacing, measured, ctl >>

Next ==
    \/ PacerBegin \/ PacerData \/ PacerProbes
    \/ \E f \in Frames : Retransmit(f) \/ Measure(f) \/ Deliver(f)
    \/ Resolve \/ Stop \/ Close

Spec == Init /\ [][Next]_vars

-----------------------------------------------------------------------------
(* Properties *)

\* The drains sift takes for wrong ones, and are not: after three samples above one,
\* one of which is printed as one.
Unprintable(i) ==
    LET preceding == Preceding(log, log[i].fid)
    IN  /\ Cardinality(preceding) = 3
        /\ \A j \in preceding : log[j].bur >= 1
        /\ \E j \in preceding : log[j].bur = 1

\* Logs are evaluated when the sender has ended.
Evaluated == status = "closed" /\ next > 1

\* sift accepts what the sender writes, whichever way its threads interleave and
\* whenever it is stopped (sift.py:4-35), but for drains on a BUR so close to
\* one that its print does not show it.
SiftAccepts ==
    Evaluated =>
        /\ \A i \in DOMAIN log :
              /\ ~InvalidEvent(log, i)
              /\ InvalidDrain(log, i) => Unprintable(i)
        /\ ~OutcomesMissing(log) /\ ~SummariesMissing(log)

\* The summary accounts for every frame (metrics.py:102-121,153-158): what it counts
\* as lost is what the sender gave up, and the throughput over the log's own
\* window, which ends at the last frame's interval, misses no delivery.
SummaryAccounts ==
    Evaluated =>
        LET summary == Summarise(log)
        IN  /\ summary.frame_losses = Cardinality(Fids("FRAME_LOSS", log))
            /\ summary.bytes = SumFunction([i \in Of("FRAME_DELIVERED", log) |-> log[i].bytes])
            /\ ProbeSummary(log).frames = summary.n_frames
            /\ summary.frame_losses <= summary.stall_200ms
            /\ summary.stall_200ms <= summary.stall_100ms

\* The wire bytes the evaluations count are those the sender sent (metrics.py:14-17,
\* 73-83,160-175, sender.cc:325-372), unless the pacer was interrupted: data, the
\* parity of groups of more than one packet, probes, and retransmissions, per sampled
\* frame and, over the whole log, with those made in vain for frames lost.
WireIsSent ==
    Evaluated =>
        LET delivered == Fids("FRAME_DELIVERED", log)
            Whole(f) == frame[f].stage = "done" /\ frame[f].probes = Probes
            InVain == {i \in Of("PACKET_RETRANSMITTED", log) : log[i].fid \notin delivered}
        IN  /\ \A i \in PairedFrames(log, 3, 5) :
                  Whole(log[i].fid) => OfferedBytes(log, i) = frame[log[i].fid].sent
            /\ (\A f \in delivered : Whole(f)) =>
                  WireThroughputBytes(log, 0, Len(log)) =
                    SumFunction([f \in delivered |-> frame[f].sent])
                    + PacketBytes * Cardinality(InVain)

\* The running sum of smoothed is the mean over the trailing window, at every
\* point of every log's series of rates (metrics.py:123-131).
SmoothedIsMean ==
    Evaluated =>
        LET series == BitrateSeries(log)
            smooth == 2 * Interval
            Trailing(i) == {j \in 1..i : series[j].time > series[i].time - smooth}
        IN  Smoothed(series, smooth) =
              [i \in DOMAIN series |->
                 [sum |-> SumFunction([j \in Trailing(i) |-> series[j].value]),
                  count |-> Cardinality(Trailing(i))]]

\* A point is found converged if every rate its window of points is smoothed from is
\* within the band, on either side of the target, and exactly if the log has that
\* many points before the end; and no window is found with a point smoothed from rates
\* that are all above the band, or all below it (metrics.py:133-144).
SettledConverges ==
    Evaluated =>
        LET series == BitrateSeries(log)
            smooth == 2 * Interval
            Trailing(i, last) == {j \in 1..last : series[j].time > series[i].time - smooth}
            TooHigh(rate) == 20 * (rate - Target) > Target
            TooLow(rate) == 20 * (Target - rate) > Target
            Settled(i, last) ==
                \A j \in Trailing(i, last) : ~TooHigh(series[j].value) /\ ~TooLow(series[j].value)
            Astray(i) == \/ \A j \in Trailing(i, i) : TooHigh(series[j].value)
                         \/ \A j \in Trailing(i, i) : TooLow(series[j].value)
            ends == {series[i].time : i \in DOMAIN series} \cup {Len(log) + Interval}
        IN  \A window \in DOMAIN series, end \in ends :
                LET found == Converged(series, 0, Target, 20, window, end, smooth)
                IN  \A i \in DOMAIN series :
                        LET last == i + window - 1
                            fits == last <= Len(series) /\ series[last].time < end
                        IN  /\ i \in found => fits /\ \A m \in i..last : ~Astray(m)
                            /\ fits /\ Settled(i, last) => i \in found

\* payload_equivalent finds the greatest payload whose wire bytes are within the
\* capacity, and zero when not even a packet's are, to the bytes that the capacity's
\* bisection ends at, one if it is halved often enough (metrics.py:19-26).
EquivalentFits ==
    log = << >> => \A capacity \in Capacities :
        LET found == PayloadEquivalent(capacity)
            payload == Ceiling(found.low, found.unit)
            Fits(bytes) == FrameWireBytes(bytes) <= capacity
        IN  /\ payload = 0 \/ Fits(payload)
            /\ ~Fits(payload + Ceiling(capacity, found.unit))
===============================================================================
