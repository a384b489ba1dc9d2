--------------------------------- MODULE Sift ---------------------------------
(***************************************************************************)
(* evaluations/sift.py, the consistency check of a sender's log: which     *)
(* events it complains about, each judged by the events before it, and     *)
(* what it demands of the whole log.                                       *)
(***************************************************************************)
EXTENDS Metrics

\* sift demands as many probes of each frame, and the protocol sends as many.
ASSUME FourProbes == Probes = 4

\* Did an event of this type name the frame before position i?
Seen(type, log, i) == \E j \in 1..i - 1 : log[j].type = type /\ log[j].fid = log[i].fid

InvalidSend(log, i)     == log[i].type = "FRAME_SENT" /\ Seen("FRAME_SENT", log, i)

InvalidDelivery(log, i) ==
    /\ log[i].type = "FRAME_DELIVERED"
    /\ ~Seen("FRAME_SENT", log, i) \/ Seen("FRAME_DELIVERED", log, i)

\* A delivery after a loss is not complained about; a loss after a delivery is.
InvalidLoss(log, i) ==
    /\ log[i].type = "FRAME_LOSS"
    /\ ~Seen("FRAME_SENT", log, i) \/ Seen("FRAME_LOSS", log, i) \/ Seen("FRAME_DELIVERED", log, i)

InvalidSample(log, i) ==
    /\ log[i].type = "CONTROL_SAMPLE"
    /\ \/ Seen("CONTROL_SAMPLE", log, i) \/ ~Seen("FRAME_DELIVERED", log, i)
       \/ log[i].n_probes # 4 \/ log[i].pacing < 1

InvalidSummary(log, i) ==
    /\ log[i].type = "PROBE_SUMMARY"
    /\ \/ ~Seen("FRAME_SENT", log, i) \/ Seen("PROBE_SUMMARY", log, i)
       \/ ~(0 <= log[i].received /\ log[i].received <= log[i].expected /\ log[i].expected = 4)

\* The samples of a frame and of the two sampled last before it: fid's own is
\* logged after the drain it started.
Preceding(log, fid) ==
    LET samples == {i \in Of("CONTROL_SAMPLE", log) : log[i].fid <= fid}
    IN  {i \in samples : Cardinality({j \in samples : log[j].fid > log[i].fid}) < 3}

InvalidDrain(log, i) ==
    /\ log[i].type = "DRAIN_START" /\ log[i].fid > 0 /\ log[i].drain_rate > 0
    /\ LET preceding == Preceding(log, log[i].fid)
       IN  Cardinality(preceding) # 3 \/ \E j \in preceding : log[j].bur <= 1

InvalidEvent(log, i) ==
    \/ InvalidSend(log, i) \/ InvalidDelivery(log, i) \/ InvalidLoss(log, i)
    \/ InvalidSample(log, i) \/ InvalidSummary(log, i)

OutcomesMissing(log) ==
    Fids("FRAME_SENT", log) # Fids("FRAME_DELIVERED", log) \cup Fids("FRAME_LOSS", log)
SummariesMissing(log) == Fids("FRAME_SENT", log) # Fids("PROBE_SUMMARY", log)
===============================================================================
