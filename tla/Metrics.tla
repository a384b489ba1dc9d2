------------------------------- MODULE Metrics -------------------------------
(***************************************************************************)
(* What evaluations/metrics.py computes from a sender's log: operators on  *)
(* a sequence of events, records with a type, most with a frame id (fid)   *)
(* and all with a time (ts).  Rates are given as the bytes and the         *)
(* interval they are the quotient of, means as a sum and a count.          *)
(***************************************************************************)
EXTENDS Integers, Sequences, SequencesExt, FiniteSets, FiniteSetsExt

CONSTANTS
    Header, Load,   \* bytes of a packet's header and of its payload
    FecK,           \* packets in a parity group
    Probes,         \* probes per frame
    IpUdp,          \* bytes of the IPv4 and UDP headers
    Halvings        \* steps of payload_equivalent's bisection

ASSUME WireFormat == /\ {Header, Load, FecK, IpUdp} \subseteq Nat \ {0}
                     /\ {Probes, Halvings} \subseteq Nat

\* The places in the log of the events of a type, and the frames they name.
Of(type, log) == {i \in DOMAIN log : log[i].type = type}
Fids(type, log) == {log[i].fid : i \in Of(type, log)}

-----------------------------------------------------------------------------
(* Bytes on the wire *)

PacketBytes == Header + Load + IpUdp

Ceiling(a, b) == (a + b - 1) \div b

Packets(bytes) == Ceiling(bytes, Load)

\* A group of one packet has no parity.
ParityGroupsAll(packets) == {i \in 0..packets - 1 : i % FecK = 0}  \* mutant of ParityGroups
ParityGroups(packets) ==
    {i \in 0..packets - 1 : i % FecK = 0 /\ Min({FecK, packets - i}) > 1}

FrameWireBytes(bytes) ==
    LET packets == Packets(bytes)
    IN  (packets + Cardinality(ParityGroups(packets))) * PacketBytes
        + Probes * (Header + IpUdp)

FitsStrictly(bytes, capacity) == FrameWireBytes(bytes) < capacity  \* mutant of FitsIn
FitsIn(bytes, capacity) == FrameWireBytes(bytes) <= capacity

\* payload_equivalent: the greatest payload whose wire bytes are within the capacity,
\* in bytes per frame, by bisection.  Its range is of payloads in 1/unit bytes.
PayloadEquivalent(capacity) ==
    LET halved[i \in 0..Halvings] ==
            IF i = 0 THEN [low |-> 0, high |-> capacity, unit |-> 1]
            ELSE LET last == halved[i - 1]
                     unit == 2 * last.unit
                     mid == last.low + last.high
                 IN  IF FitsIn(Ceiling(mid, unit), capacity)
                     THEN [low |-> mid, high |-> 2 * last.high, unit |-> unit]
                     ELSE [low |-> 2 * last.low, high |-> mid, unit |-> unit]
    IN  halved[Halvings]

-----------------------------------------------------------------------------
(* Rates and outcomes *)

WindowOfSends(log) ==                       \* mutant of Window
    LET sent == Of("FRAME_SENT", log)
    IN  << log[Min(sent)].ts, Max({log[i].ts : i \in sent}) >>

\* From the first frame sent to the end of the last frame's interval.
Window(log) ==
    LET sent == Of("FRAME_SENT", log)
    IN  << log[Min(sent)].ts, Max({log[i].ts + log[i].interval : i \in sent}) >>

\* The frames counted in [start, end): sent in it, and delivered at any time.
Counted(log, start, end) ==
    {i \in Of("FRAME_SENT", log) :
        start <= log[i].ts /\ log[i].ts < end /\ log[i].fid \in Fids("FRAME_DELIVERED", log)}

\* throughput's numerator, of the log's own window and of a given one.
ThroughputBytes(log, start, end) ==
    SumFunction([i \in Counted(log, start, end) |-> log[i].bytes])

\* wire_throughput's: retransmissions count whatever became of their frame.
WireThroughputBytes(log, start, end) ==
    LET retransmitted == {i \in Of("PACKET_RETRANSMITTED", log) :
                            start <= log[i].ts /\ log[i].ts < end}
    IN  SumFunction([i \in Counted(log, start, end) |-> FrameWireBytes(log[i].bytes)])
        + Cardinality(retransmitted) * PacketBytes

\* The part of summarise that accounts for frames.
Summarise(log) ==
    LET sent == Fids("FRAME_SENT", log)
        delivered == {i \in Of("FRAME_DELIVERED", log) : log[i].fid \in sent}
        failures == Cardinality(sent) - Cardinality({log[i].fid : i \in delivered})
        Stalled(threshold) ==
            failures + Cardinality({i \in delivered : log[i].delay > threshold})
        window == Window(log)
    IN  [n_frames |-> Cardinality(sent), delivered_frames |-> Cardinality(delivered),
         frame_losses |-> failures, stall_100ms |-> Stalled(100), stall_200ms |-> Stalled(200),
         bytes |-> ThroughputBytes(log, window[1], window[2])]

ProbeSummary(log) ==
    LET frames == Of("PROBE_SUMMARY", log)
        expected == SumFunction([i \in frames |-> log[i].expected])
        received == SumFunction([i \in frames |-> log[i].received])
    IN  [frames |-> Cardinality(frames), expected |-> expected, received |-> received,
         lost |-> expected - received]

\* offered_utilization: the frames of the log's tail that have a sample, and
\* the wire bytes each is taken to have cost.  The tail begins after
\* numerator/denominator of the window.
PairedFrames(log, numerator, denominator) ==
    LET window == Window(log)
        start == window[1] + ((window[2] - window[1]) * numerator) \div denominator
    IN  {i \in Of("FRAME_SENT", log) :
            log[i].ts >= start /\ log[i].fid \in Fids("CONTROL_SAMPLE", log)}

Retries(log, fid) == {i \in Of("PACKET_RETRANSMITTED", log) : log[i].fid = fid}

OfferedBytes(log, i) ==
    FrameWireBytes(log[i].bytes) + Cardinality(Retries(log, log[i].fid)) * PacketBytes

-----------------------------------------------------------------------------
(* Series *)

\* The n-th of some places in the log.
Nth(places, n) == CHOOSE i \in places : Cardinality({j \in places : j <= i}) = n

\* parse_jsonl's series of rates: per frame sent, the bytes if it was delivered.
BitrateSeries(log) ==
    LET sent == Of("FRAME_SENT", log)
        origin == log[Min(sent)].ts
        Point(e) ==
            [time |-> e.ts - origin,
             value |-> IF e.fid \in Fids("FRAME_DELIVERED", log) THEN e.bytes ELSE 0]
    IN  [n \in 1..Cardinality(sent) |-> Point(log[Nth(sent, n)])]

InTrailClosed(time, now, smooth) == time >= now - smooth    \* mutant of InTrail
InTrail(time, now, smooth) == time > now - smooth

\* smoothed: trailing means by a running sum and the first point still in it.
Smoothed(series, smooth) ==
    LET slid[i \in 0..Len(series)] ==
            IF i = 0 THEN [start |-> 1, total |-> 0]
            ELSE LET last == slid[i - 1]
                     start == Min({j \in last.start..i :
                                     InTrail(series[j].time, series[i].time, smooth)})
                     dropped == SumFunction([j \in last.start..start - 1 |-> series[j].value])
                 IN  [start |-> start, total |-> last.total + series[i].value - dropped]
    IN  [i \in DOMAIN series |-> [sum |-> slid[i].total, count |-> i - slid[i].start + 1]]

FillsByOne(series, i, window) == i + window <= Len(series)  \* mutant of Fills
Fills(series, i, window) == i + window - 1 <= Len(series)

WithinSigned(mean, target, part) ==         \* mutant of Within
    part * (mean.sum - target * mean.count) <= target * mean.count
Within(mean, target, part) ==
    /\ part * (mean.sum - target * mean.count) <= target * mean.count
    /\ part * (target * mean.count - mean.sum) <= target * mean.count

\* convergence_ms of smoothed means: the first of `window' consecutive points
\* within 1/`part' of the target, not before `from', the last before `end'.
Converged(series, from, target, part, window, end, smooth) ==
    LET means == Smoothed(series, smooth)
    IN  {i \in DOMAIN series :
           /\ series[i].time >= from /\ Fills(series, i, window)
           /\ series[i + window - 1].time < end
           /\ \A j \in i..i + window - 1 : Within(means[j], target, part)}
===============================================================================
