---------------------------- MODULE MC_GpsSession ----------------------------
(* Instances of GpsSession for TLC. *)
EXTENDS GpsSession
=============================================================================
