-------------------------- MODULE MCPudicaController --------------------------
(***************************************************************************)
(* A small instance of PudicaController for TLC: samples of every loss     *)
(* kind and both debugging keys that reach the controller.                 *)
(***************************************************************************)
EXTENDS PudicaController

AllLoss == {"none", "short", "deep"}
AllKeys == {"l", "d"}
=============================================================================
