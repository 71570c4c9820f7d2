------------------------------ MODULE MC_GpsEpo ------------------------------
(* Instances of GpsEpo for TLC. *)
EXTENDS GpsEpo
=============================================================================
