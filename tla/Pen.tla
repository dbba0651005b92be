-------------------------------- MODULE Pen --------------------------------
(***************************************************************************)
(* What encoder_manager promises: each coordinate follows the shaft of its *)
(* knob.  The pen has an axis per knob; `at' is the shaft position, in     *)
(* quarter turns, that the coordinate already accounts for.  One cycle of  *)
(* the quadrature code (four quarters) is worth two steps of the pen, so   *)
(* Detent(p) is the ideal coordinate of a shaft at p.  The only loss is    *)
(* the saturation at the two ends of the range.                            *)
(***************************************************************************)
EXTENDS Integers

CONSTANTS Axes,       \* the axes of the pen
          MaxCoord,   \* last value of a coordinate
          MaxShaft    \* bound: a shaft stays within -MaxShaft..MaxShaft

VARIABLES at,         \* [Axes -> Int]: shaft position accounted for
          settled,    \* [Axes -> BOOLEAN]: a shaft position has been seen
          coord       \* [Axes -> 0..MaxCoord]

vars == <<at, settled, coord>>

Clamp(c) == IF c < 0 THEN 0 ELSE IF c > MaxCoord THEN MaxCoord ELSE c

\* Two steps per cycle: one as the code word 00 is left, one as it is reached.
Detent(p) == 2 * (p \div 4) + (IF p % 4 = 0 THEN 0 ELSE 1)

Init == /\ at = [k \in Axes |-> 0]
        /\ settled = [k \in Axes |-> FALSE]
        /\ coord = [k \in Axes |-> 0]

\* The axis moves with its shaft, by at most a quarter turn, and saturates.
FollowAxis(k) == /\ settled[k] /\ settled'[k]
                 /\ at'[k] \in {at[k] - 1, at[k], at[k] + 1}
                 /\ coord'[k] = Clamp(coord[k] + Detent(at'[k]) - Detent(at[k]))

\* The first shaft position after a reset may cost a single spurious step.
SettleAxis(k) == /\ ~settled[k] /\ coord[k] = 0
                 /\ \/ settled'[k] /\ coord'[k] \in {0, 1}
                    \/ ~settled'[k] /\ coord'[k] = 0 /\ at'[k] = at[k]

Follow == \A k \in Axes : FollowAxis(k) \/ SettleAxis(k)

Reset == /\ at' = [k \in Axes |-> 0]
         /\ settled' = [k \in Axes |-> FALSE]
         /\ coord' = [k \in Axes |-> 0]

Next == Follow \/ Reset

Spec == Init /\ [][Next]_vars
=============================================================================
