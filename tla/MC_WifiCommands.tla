--------------------------- MODULE MC_WifiCommands ---------------------------
(***************************************************************************)
(* A small command table and handler array for WifiCommands, so that both  *)
(* fill up.                                                                *)
(***************************************************************************)
EXTENDS WifiCommands, TLC

CONSTANTS c1, c2, c3

Addresses == Permutations(Cmds)
=============================================================================
