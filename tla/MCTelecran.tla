----------------------------- MODULE MCTelecran -----------------------------
(* A picture of two by two pixels, and a pen that can leave it by one column *)
(* or one row; the address bus has more codes than the memory has cells.     *)
EXTENDS Telecran
=============================================================================
