------------------------------ MODULE MC_GpsNmea ------------------------------
(* Instances of GpsNmea for TLC. *)
EXTENDS GpsNmea

\* No satellite; and more than fit, one of them a QZSS satellite, which is left out.
MCViews == {<< <<>>, <<>> >>, << <<1, 193, 2>>, <<65, 66>> >>}
=============================================================================
