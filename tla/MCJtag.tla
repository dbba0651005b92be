------------------------------- MODULE MCJtag -------------------------------
(***************************************************************************)
(* A program that only writes meets every timeout; one that only reads     *)
(* looks at none.                                                          *)
(***************************************************************************)
EXTENDS JtagUartProps

MCTimeouts == [way \in {"out", "in"} |-> IF way = "out" THEN {2, 3} ELSE {2}]
=============================================================================
