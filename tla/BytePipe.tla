------------------------------ MODULE BytePipe ------------------------------
(***************************************************************************)
(* What each direction of the JTAG UART driver promises: bytes leave in    *)
(* the order they came in, none is lost, doubled or changed.  The sender   *)
(* sends 0 and 1 in turn, and `next' is the byte it sends next; `queue'    *)
(* holds the bytes on their way, `out' the last bytes taken from it.       *)
(***************************************************************************)
EXTENDS Sequences, Naturals

CONSTANT Capacity    \* bytes that fit between the two ends

VARIABLES queue, next, out

vars == <<queue, next, out>>

Init == queue = <<>> /\ next = 0 /\ out = <<>>

Put == \E n \in 1..(Capacity - Len(queue)) :
         /\ queue' = queue \o [i \in 1..n |-> (next + i - 1) % 2]
         /\ next' = (next + n) % 2
         /\ UNCHANGED out

Take == \E n \in 1..Len(queue) :
          /\ out' = SubSeq(queue, 1, n)
          /\ queue' = SubSeq(queue, n + 1, Len(queue))
          /\ UNCHANGED next

Next == Put \/ Take

Spec == Init /\ [][Next]_vars
=============================================================================
