------------------------------- MODULE MC_MuxTx -------------------------------
(***************************************************************************)
(* Two data channels for MuxTx, one whose frames hold a single byte and    *)
(* one whose frames hold a whole read.                                     *)
(***************************************************************************)
EXTENDS MuxTx, TLC

CONSTANTS c1, c2

MCN1 == (c1 :> 1) @@ (c2 :> 2)
MCAppBytes == (c1 :> 2) @@ (c2 :> 2)
=============================================================================
