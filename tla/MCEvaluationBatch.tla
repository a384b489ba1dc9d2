-------------------------- MODULE MCEvaluationBatch ---------------------------
(***************************************************************************)
(* EvaluationBatch for TLC: two of the nine tests of run_all_parallel.py,  *)
(* one with two experiments of one flow (bur_accuracy has fifteen) and one *)
(* with a server beside its receiver (tcpcubic_compete), on their ports.   *)
(***************************************************************************)
EXTENDS EvaluationBatch

MCPorts       == << << 9850 >>, << 9950, 9951 >> >>
MCReceivers   == << 1, 1 >>
MCExperiments == << 2, 1 >>
===============================================================================
