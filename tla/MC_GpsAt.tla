------------------------------- MODULE MC_GpsAt -------------------------------
(* Instances of GpsAt for TLC. *)
EXTENDS GpsAt
=============================================================================
