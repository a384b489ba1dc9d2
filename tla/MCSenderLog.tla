------------------------------ MODULE MCSenderLog ------------------------------
(* SenderLog with a frame of a group and a packet, and two of a group: the   *)
(* upper and the lower edge of the band around the target, and the target.   *)
EXTENDS SenderLog

MCSizes == << 5040, 4560, 4800 >>
===============================================================================
