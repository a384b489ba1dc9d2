-------------------------- MODULE MCReceiverPlayout --------------------------
(***************************************************************************)
(* ReceiverPlayout for TLC.  Sessions are interchangeable, which is used   *)
(* where no liveness is checked.                                           *)
(***************************************************************************)
EXTENDS ReceiverPlayout

SessionSymmetry == Permutations(Sessions)

=============================================================================
