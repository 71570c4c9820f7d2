----------------------------- MODULE MC_MuxRxFlow -----------------------------
(***************************************************************************)
(* Small frames for MuxRxFlow: one to two bytes each, a watermark of a few *)
(* bytes in place of 4096.                                                 *)
(***************************************************************************)
EXTENDS MuxRxFlow

CONSTANTS t1, t2, t3

MCFrameLen == [k \in 1 .. NFrames |-> IF k = 2 THEN 1 ELSE 2]
=============================================================================
