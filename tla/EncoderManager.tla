--------------------------- MODULE EncoderManager ---------------------------
(***************************************************************************)
(* telecran/encoder_manager.vhd: the two rotary encoders of the magic      *)
(* screen.  Every clock edge shifts the pins A and B of each knob into a   *)
(* pair of two-bit registers, and moves the coordinate of the knob on the  *)
(* edges found in the values the registers held before.                    *)
(*                                                                         *)
(* The knobs are the environment: a shaft turns by quarter turns, bounces  *)
(* back and forth as it likes, and its two contacts give the Gray code of  *)
(* the position.  A human hand is slow against a 50 MHz clock: between two *)
(* samples a shaft moves by at most one quarter (SlowShaft).               *)
(***************************************************************************)
EXTENDS Integers

CONSTANTS Knobs,      \* {left, right}: left moves X, right moves Y
          MaxCoord,   \* C_MAX_COORD, 1023 in the code
          MaxShaft    \* bound: a shaft stays within -MaxShaft..MaxShaft

ASSUME MaxCoordAssumption == MaxCoord \in Nat \ {0}
ASSUME MaxShaftAssumption == MaxShaft \in Nat

VARIABLES shaft,      \* [Knobs -> Int]: position of the shaft (environment)
          r_A_sync,   \* [Knobs -> [0..1 -> {0, 1}]]: sync(0) is the newest bit
          r_B_sync,
          r_coord,    \* [Knobs -> 0..MaxCoord]: r_coord_x, r_coord_y
          sample      \* history: number of samples since reset (up to 2), and
                      \* the shaft positions behind sync(0) and sync(1)

vars == <<shaft, r_A_sync, r_B_sync, r_coord, sample>>

Bit == {0, 1}
Shaft == -MaxShaft .. MaxShaft

\* Gray code of a position: 00, 10, 11, 01 for the channels <<A, B>>.
PinA(p) == IF p % 4 \in {1, 2} THEN 1 ELSE 0
PinB(p) == IF p % 4 \in {2, 3} THEN 1 ELSE 0

Zeros == [i \in 0..1 |-> 0]
\* Mutant: the second flip-flop keeps its value.
ShiftStuck(r, bit) == [r EXCEPT ![0] = bit]

Shift(r, bit) == [i \in 0..1 |-> IF i = 0 THEN bit ELSE r[0]]

Rising(r)  == r[0] = 1 /\ r[1] = 0
Falling(r) == r[0] = 0 /\ r[1] = 1

\* Mutant: the rule of README.md:56-62, which counts A falling while B is high.
StepUpReadme(a, b) == (Rising(a) /\ b[0] = 0) \/ (Falling(a) /\ b[0] = 1)

StepUp(a, b)   == (Rising(a) /\ b[0] = 0) \/ (Falling(b) /\ a[0] = 0)
StepDown(a, b) == (Rising(b) /\ a[0] = 0) \/ (Falling(a) /\ b[0] = 0)

\* The coordinate after an edge: up has priority, both ends saturate.
NextCoord(c, a, b) ==
  IF StepUp(a, b) THEN IF c < MaxCoord THEN c + 1 ELSE c
  ELSE IF StepDown(a, b) /\ c > 0 THEN c - 1 ELSE c

NoSample == [n |-> 0, p0 |-> 0, p1 |-> 0]

Push(s, p) == [n  |-> IF s.n < 2 THEN s.n + 1 ELSE 2,
               p0 |-> p,
               p1 |-> s.p0]

Init == /\ shaft \in [Knobs -> Shaft]
        /\ r_A_sync = [k \in Knobs |-> Zeros]
        /\ r_B_sync = [k \in Knobs |-> Zeros]
        /\ r_coord = [k \in Knobs |-> 0]
        /\ sample = [k \in Knobs |-> NoSample]

\* Environment: a shaft turns or bounces by a quarter, in either direction.
SlowShaft(k, p) == sample[k].n > 0 => p - sample[k].p0 \in -1..1

Turn(k) == /\ \E p \in {shaft[k] - 1, shaft[k] + 1} \cap Shaft :
                /\ SlowShaft(k, p)
                /\ shaft' = [shaft EXCEPT ![k] = p]
           /\ UNCHANGED <<r_A_sync, r_B_sync, r_coord, sample>>

\* A rising edge of i_clk with i_rst_n high.
Clock ==
  /\ r_A_sync' = [k \in Knobs |-> Shift(r_A_sync[k], PinA(shaft[k]))]
  /\ r_B_sync' = [k \in Knobs |-> Shift(r_B_sync[k], PinB(shaft[k]))]
  /\ r_coord' = [k \in Knobs |-> NextCoord(r_coord[k], r_A_sync[k], r_B_sync[k])]
  /\ sample' = [k \in Knobs |-> Push(sample[k], shaft[k])]
  /\ UNCHANGED shaft

\* The asynchronous reset, i_rst_n low.
Reset == /\ r_A_sync' = [k \in Knobs |-> Zeros]
         /\ r_B_sync' = [k \in Knobs |-> Zeros]
         /\ r_coord' = [k \in Knobs |-> 0]
         /\ sample' = [k \in Knobs |-> NoSample]
         /\ UNCHANGED shaft

Next == \/ \E k \in Knobs : Turn(k)
        \/ Clock
        \/ Reset

\* The oscillator runs; nothing makes a shaft turn or a reset come.
Spec == Init /\ [][Next]_vars /\ WF_vars(Clock)

-----------------------------------------------------------------------------

\* The registers hold bits and the coordinates stay within 0..C_MAX_COORD.
TypeOK == /\ shaft \in [Knobs -> Shaft]
          /\ r_A_sync \in [Knobs -> [0..1 -> Bit]]
          /\ r_B_sync \in [Knobs -> [0..1 -> Bit]]
          /\ r_coord \in [Knobs -> 0..MaxCoord]
          /\ sample \in [Knobs -> [n : 0..2, p0 : Shaft, p1 : Shaft]]

\* The coordinates behave as the abstract pen: bounces cancel out, a turn
\* that is undone is undone on the screen, and nothing but saturation loses a
\* step.  The position accounted for is the one behind the register sync(1).
PenView == INSTANCE Pen WITH
             Axes <- Knobs,
             at <- [k \in Knobs |-> sample[k].p1],
             settled <- [k \in Knobs |-> sample[k].n = 2],
             coord <- r_coord

FollowsShaft == PenView!Spec

\* A knob left alone leaves the decoder at rest: both flip-flops of each
\* channel come to show the contact, so no edge is pending and the coordinate
\* stops (encoder_manager.vhd:44-59).
Still == <>[][shaft' = shaft /\ ~Reset]_vars
AtRest(k) == \A i \in 0..1 : /\ r_A_sync[k][i] = PinA(shaft[k])
                           /\ r_B_sync[k][i] = PinB(shaft[k])
CatchesUp == Still => <>[](\A k \in Knobs : AtRest(k))
=============================================================================
