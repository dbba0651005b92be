---------------------------- MODULE MagicScreen ----------------------------
(***************************************************************************)
(* What the magic screen promises (README.md:267 and 422-424): the pen     *)
(* lights every pixel it passes over, lit pixels stay lit, and a wipe ends *)
(* with an empty screen.  The screen is the set of its lit cells.          *)
(***************************************************************************)
EXTENDS Integers

CONSTANTS Columns, Rows,  \* size of the picture
          MaxCoord        \* the pen can leave the picture: MaxCoord >= Columns

VARIABLES x, y, lit, wiping

vars == <<x, y, lit, wiping>>

Cells == 0..(Columns * Rows - 1)
OnScreen == x < Columns /\ y < Rows
PenCell == x + y * Columns

Near(c) == {c - 1, c, c + 1} \cap 0..MaxCoord
MovePen == x' \in Near(x) /\ y' \in Near(y)

Init == x = 0 /\ y = 0 /\ lit \subseteq Cells /\ ~wiping

\* The pixel under the pen is lit as the pen moves on to a neighbour, so a
\* trail has no gap.  Off the picture the pen lights one pixel at most.
Draw == /\ ~wiping
        /\ MovePen
        /\ IF OnScreen THEN lit' = lit \cup {PenCell}
           ELSE \E c \in Cells : lit' = lit \cup {c} \/ lit' = lit

\* A wipe puts pixels out, never lights one, and stops when none is lit.
Wipe == /\ wiping
        /\ MovePen
        /\ lit' \subseteq lit
        /\ wiping' \/ lit' = {}

Reset == x' = 0 /\ y' = 0 /\ ~wiping' /\ lit' = lit

Next == Draw \/ Wipe \/ Reset

Spec == Init /\ [][Next]_vars
=============================================================================
