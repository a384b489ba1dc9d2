----------------------------- MODULE FrameLedger -----------------------------
(***************************************************************************)
(* What the sender promises of every frame it starts to send: exactly one  *)
(* outcome, reported in frame order.  The measurement scripts rest on it   *)
(* (evaluations/sift.py), and so does the controller, whose counts of      *)
(* consecutive samples mean nothing if outcomes are repeated or reordered. *)
(***************************************************************************)
EXTENDS Naturals

CONSTANT MaxFrames          \* bound: frame identifiers

VARIABLES sent,             \* frames whose sending has begun
          ledger            \* ledger[i]: the outcome of frame i

\* The sample of a frame that needed no repair, or some; no sample; a loss.
Outcomes == {"clean", "lossy", "unsampled", "lost"}
Ids      == 1..MaxFrames

Init == /\ sent = 0
        /\ ledger = [i \in Ids |-> "open"]

Send == /\ sent < MaxFrames
        /\ sent' = sent + 1
        /\ UNCHANGED ledger

Open == {i \in 1..sent : ledger[i] = "open"}

\* The oldest open frames, up to some frame n, get their outcomes.
Report == \E n \in Open :
            /\ ledger' \in [Ids -> Outcomes \cup {"open"}]
            /\ \A i \in Ids :
                  IF i \in Open /\ i <= n THEN ledger'[i] \in Outcomes
                                          ELSE ledger'[i] = ledger[i]
            /\ UNCHANGED sent

Next == Send \/ Report

SafeSpec == Init /\ [][Next]_<<sent, ledger>>
Spec == SafeSpec /\ WF_<<sent, ledger>>(Report)
=============================================================================
