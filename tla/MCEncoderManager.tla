-------------------------- MODULE MCEncoderManager --------------------------
(* Both knobs, a range of three coordinates, shafts that turn far enough to *)
(* saturate it at both ends.                                                *)
EXTENDS EncoderManager
=============================================================================
