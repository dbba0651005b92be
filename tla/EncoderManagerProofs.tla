------------------------ MODULE EncoderManagerProofs ------------------------
(***************************************************************************)
(* For every range of the coordinates and every bound on the shafts:       *)
(* EncoderManager is type correct and implements the abstract pen.         *)
(***************************************************************************)
EXTENDS EncoderManager, TLAPS

\* What the registers remember of the shaft since the last reset.
Remembers(k) ==
  LET s == sample[k] IN
  /\ s.n = 0 => /\ r_A_sync[k] = Zeros /\ r_B_sync[k] = Zeros
                /\ s.p0 = 0
  /\ s.n = 1 => /\ r_A_sync[k][1] = 0 /\ r_B_sync[k][1] = 0
  /\ s.n < 2 => r_coord[k] = 0 /\ s.p1 = 0
  /\ s.n > 0 => /\ r_A_sync[k][0] = PinA(s.p0) /\ r_B_sync[k][0] = PinB(s.p0)
                /\ shaft[k] - s.p0 \in -1..1
  /\ s.n = 2 => /\ r_A_sync[k][1] = PinA(s.p1) /\ r_B_sync[k][1] = PinB(s.p1)
                /\ s.p0 - s.p1 \in -1..1

\* The inductive invariant.
IndInv == TypeOK /\ \A k \in Knobs : Remembers(k)

-----------------------------------------------------------------------------

\* A coordinate stays in its range whatever the registers hold.
LEMMA NextCoordType ==
  ASSUME NEW c \in 0..MaxCoord, NEW a \in [0..1 -> Bit], NEW b \in [0..1 -> Bit]
  PROVE  NextCoord(c, a, b) \in 0..MaxCoord
BY MaxCoordAssumption DEF NextCoord

\* A coordinate moves to a neighbour: what the module Telecran takes from here.
LEMMA NextCoordNear ==
  ASSUME NEW c \in 0..MaxCoord, NEW a, NEW b
  PROVE  NextCoord(c, a, b) \in {c - 1, c, c + 1} \cap 0..MaxCoord
BY MaxCoordAssumption DEF NextCoord

\* Shifting a bit into a register leaves a register, with the old bit second.
LEMMA ShiftFacts ==
  ASSUME NEW r \in [0..1 -> Bit], NEW bit \in Bit
  PROVE  /\ Shift(r, bit) \in [0..1 -> Bit]
         /\ Shift(r, bit)[0] = bit
         /\ Shift(r, bit)[1] = r[0]
BY DEF Shift, Bit

LEMMA PinType == \A p \in Int : PinA(p) \in Bit /\ PinB(p) \in Bit
BY DEF PinA, PinB, Bit

\* The decoder counts a quarter turn as the abstract pen does: for every
\* pair of neighbouring positions and every coordinate.
LEMMA QuarterTurn ==
  ASSUME NEW c \in 0..MaxCoord, NEW p \in Int, NEW q \in Int, q - p \in -1..1,
         NEW a, NEW b,
         a[0] = PinA(q), a[1] = PinA(p), b[0] = PinB(q), b[1] = PinB(p)
  PROVE  NextCoord(c, a, b) = PenView!Clamp(c + PenView!Detent(q) - PenView!Detent(p))
<1> DEFINE d == PenView!Detent(q) - PenView!Detent(p)
<1>1. /\ StepUp(a, b) => d = 1
      /\ ~StepUp(a, b) /\ StepDown(a, b) => d = -1
      /\ ~StepUp(a, b) /\ ~StepDown(a, b) => d = 0
  <2>1. CASE q = p
    BY <2>1 DEF PenView!Detent, StepUp, StepDown, Rising, Falling, PinA, PinB
  <2>2. CASE q = p + 1
    BY <2>2 DEF PenView!Detent, StepUp, StepDown, Rising, Falling, PinA, PinB
  <2>3. CASE q = p - 1
    BY <2>3 DEF PenView!Detent, StepUp, StepDown, Rising, Falling, PinA, PinB
  <2> QED BY <2>1, <2>2, <2>3
<1>2. NextCoord(c, a, b) = PenView!Clamp(c + d)
  BY <1>1, MaxCoordAssumption DEF NextCoord, PenView!Clamp
<1>3. c + d = c + PenView!Detent(q) - PenView!Detent(p)
  BY DEF PenView!Detent
<1> QED BY <1>2, <1>3

\* The first position seen after a reset costs at most one spurious step.
LEMMA FirstSample ==
  ASSUME NEW q \in Int, NEW a, NEW b,
         a[0] = PinA(q), a[1] = 0, b[0] = PinB(q), b[1] = 0
  PROVE  NextCoord(0, a, b) \in {0, 1}
BY MaxCoordAssumption DEF NextCoord

-----------------------------------------------------------------------------

LEMMA InitIndInv == Init => IndInv
BY MaxShaftAssumption, MaxCoordAssumption
   DEF Init, IndInv, TypeOK, Remembers, Zeros, NoSample, Shaft, Bit

LEMMA NextIndInv == IndInv /\ [Next]_vars => IndInv'
<1> SUFFICES ASSUME IndInv, [Next]_vars PROVE IndInv'
  OBVIOUS
<1>0. Shaft \subseteq Int /\ 0 \in Shaft
  BY MaxShaftAssumption DEF Shaft
<1>1. CASE UNCHANGED vars
  BY <1>1 DEF IndInv, TypeOK, Remembers, vars
<1>2. CASE Reset
  BY <1>0, <1>2, MaxCoordAssumption
     DEF Reset, IndInv, TypeOK, Remembers, Zeros, NoSample, Bit
<1>3. ASSUME NEW k \in Knobs, Turn(k) PROVE IndInv'
  <2>1. PICK p \in Shaft : SlowShaft(k, p) /\ shaft' = [shaft EXCEPT ![k] = p]
    BY <1>3 DEF Turn
  <2>2. UNCHANGED <<r_A_sync, r_B_sync, r_coord, sample>>
    BY <1>3 DEF Turn
  <2>3. TypeOK'
    BY <2>1, <2>2 DEF IndInv, TypeOK
  <2>4. ASSUME NEW j \in Knobs PROVE Remembers(j)'
    BY <2>1, <2>2 DEF IndInv, TypeOK, Remembers, SlowShaft
  <2> QED BY <2>3, <2>4 DEF IndInv
<1>4. CASE Clock
  <2>1. \A k \in Knobs : shaft[k] \in Int /\ PinA(shaft[k]) \in Bit /\ PinB(shaft[k]) \in Bit
    BY <1>0, PinType DEF IndInv, TypeOK
  <2>2. ASSUME NEW k \in Knobs
        PROVE  /\ r_A_sync'[k] \in [0..1 -> Bit] /\ r_B_sync'[k] \in [0..1 -> Bit]
               /\ r_A_sync'[k][0] = PinA(shaft[k]) /\ r_A_sync'[k][1] = r_A_sync[k][0]
               /\ r_B_sync'[k][0] = PinB(shaft[k]) /\ r_B_sync'[k][1] = r_B_sync[k][0]
    BY <1>4, <2>1, ShiftFacts DEF Clock, IndInv, TypeOK
  <2>3. ASSUME NEW k \in Knobs
        PROVE  r_coord'[k] = NextCoord(r_coord[k], r_A_sync[k], r_B_sync[k])
    BY <1>4 DEF Clock
  <2>4. ASSUME NEW k \in Knobs
        PROVE  /\ sample'[k].n = IF sample[k].n < 2 THEN sample[k].n + 1 ELSE 2
               /\ sample'[k].p0 = shaft[k] /\ sample'[k].p1 = sample[k].p0
               /\ sample'[k] \in [n : 0..2, p0 : Shaft, p1 : Shaft]
    <3>1. sample'[k] = Push(sample[k], shaft[k])
      BY <1>4 DEF Clock
    <3>2. /\ sample[k] \in [n : 0..2, p0 : Shaft, p1 : Shaft]
          /\ shaft[k] \in Shaft
      BY DEF IndInv, TypeOK
    <3> QED BY <3>1, <3>2 DEF Push
  <2>5. TypeOK'
    <3>1. shaft' \in [Knobs -> Shaft]
      BY <1>4 DEF Clock, IndInv, TypeOK
    <3>2. r_A_sync' \in [Knobs -> [0..1 -> Bit]] /\ r_B_sync' \in [Knobs -> [0..1 -> Bit]]
      BY <1>4, <2>2 DEF Clock
    <3>3. r_coord' \in [Knobs -> 0..MaxCoord]
      BY <1>4, NextCoordType DEF Clock, IndInv, TypeOK
    <3>4. sample' \in [Knobs -> [n : 0..2, p0 : Shaft, p1 : Shaft]]
      BY <1>4, <2>4 DEF Clock
    <3> QED BY <3>1, <3>2, <3>3, <3>4 DEF TypeOK
  <2>6. ASSUME NEW k \in Knobs PROVE Remembers(k)'
    <3>1. shaft'[k] = shaft[k] /\ shaft[k] \in Int
      BY <1>4, <2>1 DEF Clock
    <3>2. Remembers(k) /\ sample[k].n \in 0..2
      BY DEF IndInv, TypeOK
    <3>3. CASE sample[k].n = 0
      <4>1. NextCoord(0, Zeros, Zeros) = 0
        BY MaxCoordAssumption DEF NextCoord, StepUp, StepDown, Rising, Falling, Zeros
      <4> QED BY <2>2, <2>3, <2>4, <3>1, <3>2, <3>3, <4>1 DEF Remembers, Zeros
    <3>4. CASE sample[k].n > 0
      BY <2>2, <2>3, <2>4, <3>1, <3>2, <3>4 DEF Remembers
    <3> QED BY <3>2, <3>3, <3>4
  <2> QED BY <2>5, <2>6 DEF IndInv
<1> QED BY <1>1, <1>2, <1>3, <1>4 DEF Next

\* Every reachable state satisfies the inductive invariant.
LEMMA Invariance == Spec => []IndInv
<1> QED BY InitIndInv, NextIndInv, PTL DEF Spec

\* The registers hold bits and the coordinates never leave 0..C_MAX_COORD
\* (encoder_manager.vhd:91, 96), for every size of the range.
THEOREM TypeCorrect == Spec => []TypeOK
<1>1. IndInv => TypeOK
  BY DEF IndInv
<1> QED BY <1>1, Invariance, PTL

\* Every step of the decoder is a step of the abstract pen, or a stutter.
LEMMA StepSimulation == IndInv /\ IndInv' /\ [Next]_vars => [PenView!Next]_(PenView!vars)
<1> SUFFICES ASSUME IndInv, IndInv', [Next]_vars
             PROVE  [PenView!Next]_(PenView!vars)
  OBVIOUS
<1> USE DEF PenView!vars
<1>1. CASE UNCHANGED vars
  BY <1>1 DEF vars
<1>2. CASE Reset
  <2>1. \A k \in Knobs : sample'[k].p1 = 0 /\ (sample'[k].n = 2) = FALSE
    BY <1>2 DEF Reset, NoSample
  <2>2. r_coord' = [k \in Knobs |-> 0]
    BY <1>2 DEF Reset
  <2>3. [k \in Knobs |-> sample[k].p1]' = [k \in Knobs |-> 0]
    BY <2>1
  <2>4. [k \in Knobs |-> sample[k].n = 2]' = [k \in Knobs |-> FALSE]
    BY <2>1, Zenon
  <2>5. PenView!Reset
    BY <2>2, <2>3, <2>4 DEF PenView!Reset
  <2> QED BY <2>5 DEF PenView!Next
<1>3. ASSUME NEW k \in Knobs, Turn(k) PROVE UNCHANGED PenView!vars
  BY <1>3 DEF Turn
<1>4. CASE Clock
  <2>1. ASSUME NEW k \in Knobs
        PROVE  PenView!FollowAxis(k) \/ PenView!SettleAxis(k)
    <3> DEFINE s == sample[k]
    <3>1. /\ s \in [n : 0..2, p0 : Shaft, p1 : Shaft] /\ s.p0 \in Int /\ s.p1 \in Int
          /\ r_coord[k] \in 0..MaxCoord
      BY MaxShaftAssumption DEF IndInv, TypeOK, Shaft
    <3>2. Remembers(k) /\ Remembers(k)'
      BY DEF IndInv
    <3>3. /\ sample'[k].n = IF s.n < 2 THEN s.n + 1 ELSE 2
          /\ sample'[k].p1 = s.p0
      BY <1>4 DEF Clock, Push
    <3>4. r_coord'[k] = NextCoord(r_coord[k], r_A_sync[k], r_B_sync[k])
      BY <1>4 DEF Clock
    <3> DEFINE at == [j \in Knobs |-> sample[j].p1]
               settled == [j \in Knobs |-> sample[j].n = 2]
    <3>a. at[k] = s.p1 /\ at'[k] = s.p0
      BY <3>3
    <3>b. settled[k] = (s.n = 2) /\ settled'[k] = (sample'[k].n = 2)
      BY Zenon
    <3> HIDE DEF at, settled
    <3>5. CASE s.n = 0
      <4>1. ~settled[k] /\ ~settled'[k]
        <5>1. s.n # 2 /\ sample'[k].n # 2
          BY <3>1, <3>3, <3>5
        <5> QED BY <3>b, <5>1, Zenon
      <4>2. r_coord[k] = 0 /\ r_coord'[k] = 0 /\ at'[k] = at[k]
        BY <3>1, <3>2, <3>3, <3>5, <3>a DEF Remembers
      <4> QED BY <4>1, <4>2, Zenon DEF at, settled, PenView!SettleAxis
    <3>6. CASE s.n = 1
      <4>1. r_coord'[k] \in {0, 1}
        <5>1. NextCoord(0, r_A_sync[k], r_B_sync[k]) \in {0, 1}
          BY <3>1, <3>2, <3>6, FirstSample DEF Remembers
        <5> QED BY <3>2, <3>4, <3>6, <5>1 DEF Remembers
      <4>2. ~settled[k] /\ settled'[k]
        <5>1. s.n # 2 /\ sample'[k].n = 2
          BY <3>3, <3>6
        <5> QED BY <3>b, <5>1, Zenon
      <4>3. r_coord[k] = 0
        BY <3>2, <3>6 DEF Remembers
      <4> QED BY <4>1, <4>2, <4>3, Zenon DEF settled, PenView!SettleAxis
    <3>7. CASE s.n = 2
      <4>1. r_coord'[k] = PenView!Clamp(r_coord[k] + PenView!Detent(s.p0) - PenView!Detent(s.p1))
        BY <3>1, <3>2, <3>4, <3>7, QuarterTurn DEF Remembers
      <4>2. at'[k] \in {at[k] - 1, at[k], at[k] + 1}
        BY <3>1, <3>2, <3>7, <3>a DEF Remembers
      <4>3. settled[k] /\ settled'[k]
        <5>1. s.n = 2 /\ sample'[k].n = 2
          BY <3>3, <3>7
        <5> QED BY <3>b, <5>1, Zenon
      <4>4. r_coord'[k] = PenView!Clamp(r_coord[k] + PenView!Detent(at'[k]) - PenView!Detent(at[k]))
        BY <4>1, <3>a
      <4> QED BY <4>2, <4>3, <4>4, Zenon DEF at, settled, PenView!FollowAxis
    <3> QED BY <3>1, <3>5, <3>6, <3>7
  <2> QED BY <2>1 DEF PenView!Next, PenView!Follow
<1> QED BY <1>1, <1>2, <1>3, <1>4 DEF Next

\* The decoder implements the abstract pen (encoder_manager.vhd:62-115): for
\* every range and every sequence of turns, bounces and resets, only
\* saturation loses a step.
THEOREM Refinement == Spec => FollowsShaft
<1>1. Init => PenView!Init
  <2> SUFFICES ASSUME Init PROVE PenView!Init
    OBVIOUS
  <2>1. \A k \in Knobs : sample[k].p1 = 0 /\ sample[k].n # 2
    <3>1. \A k \in Knobs : sample[k] = NoSample
      BY DEF Init
    <3>2. NoSample.p1 = 0 /\ NoSample.n = 0
      BY DEF NoSample
    <3>3. 0 # 2
      OBVIOUS
    <3> QED BY <3>1, <3>2, <3>3, Zenon
  <2>2. [k \in Knobs |-> sample[k].p1] = [k \in Knobs |-> 0]
    BY <2>1
  <2>3. [k \in Knobs |-> sample[k].n = 2] = [k \in Knobs |-> FALSE]
    BY <2>1, Zenon
  <2> QED BY <2>2, <2>3 DEF Init, PenView!Init
<1> QED BY <1>1, Invariance, StepSimulation, PTL DEF Spec, FollowsShaft, PenView!Spec
=============================================================================
