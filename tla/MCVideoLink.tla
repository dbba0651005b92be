---------------------------- MODULE MCVideoLink ----------------------------
(* A raster of four by three pixels, with blanking of different lengths.     *)
EXTENDS VideoLink
=============================================================================
