-------------------------- MODULE MCSenderFeedback --------------------------
(***************************************************************************)
(* SenderFeedback for TLC: what each configuration bounds is in its file.  *)
(***************************************************************************)
EXTENDS SenderFeedback

=============================================================================
