---------------------------- MODULE MCNiosSystem ----------------------------
(***************************************************************************)
(* Samples at and around both thresholds and both ends of the level.       *)
(***************************************************************************)
EXTENDS NiosSystem

Bytes(v) == LET u == IF v < 0 THEN v + 65536 ELSE v IN <<u \div 256, u % 256>>

MCSamples == {[y |-> Bytes(y), z |-> Bytes(z)] : y \in {-256, 255},
                                                 z \in {-201, -200, 200, 201}}
=============================================================================
