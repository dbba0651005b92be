-------------------------- MODULE SystemClockProofs --------------------------
(***************************************************************************)
(* For every size of a word and every period: what the processor reads of  *)
(* the time was the time, no timer interrupt comes early, and a sleep      *)
(* lasts, although time, handler and program go on between any two words.  *)
(* For every set of alarms: the list is whole whatever a callback does to  *)
(* it during a walk, no alarm is missed, and none is early in real time.   *)
(***************************************************************************)
EXTENDS SystemClock, WellFoundedInduction, TLAPS

(* Words. *)

LEMMA Sizes == /\ Base \in Nat /\ Base >= 2 /\ DELTA \in Nat /\ DELTA >= 1
               /\ MaxTime \in Nat /\ MaxTime + DELTA < Base * (Base - 1)
               /\ \A us \in Sleeps : us \in Nat /\ us < Base
  BY MtimerAssumption

\* A time is its two words.
LEMMA TwoWords ==
  ASSUME NEW t \in Nat
  PROVE  /\ Hi(t) \in Nat /\ Lo(t) \in Nat /\ Lo(t) < Base
         /\ t = Hi(t) * Base + Lo(t)
  BY Sizes DEF Hi, Lo

\* The high word does not decrease.
LEMMA HighGrows ==
  ASSUME NEW t \in Nat, NEW u \in Nat, t <= u
  PROVE  Hi(t) <= Hi(u)
<1>1. SUFFICES ASSUME Hi(t) > Hi(u) PROVE FALSE
  BY TwoWords
<1>2. Hi(t) * Base >= (Hi(u) + 1) * Base
  BY <1>1, TwoWords, Sizes, Z3
<1>3. (Hi(u) + 1) * Base = Hi(u) * Base + Base
  BY TwoWords, Sizes, Z3
<1> QED
  BY <1>2, <1>3, TwoWords, Sizes

\* Two words that belong to one time are no other time.
LEMMA OneTime ==
  ASSUME NEW t \in Nat, NEW u \in Nat, NEW hi \in Nat,
         t <= u, hi <= Hi(t), Hi(u) = hi
  PROVE  hi * Base + Lo(t) = t
<1>1. Hi(t) = hi
  BY HighGrows, TwoWords
<1> QED
  BY <1>1, TwoWords

-----------------------------------------------------------------------------
(* Reading the time. *)

Locals == [hi : Nat, lo : Nat, value : Nat, from : Nat]
ReadAt == {"high", "low", "check"}

\* What a context knows at a label of a read begun at time f: the high word is
\* not ahead, and the low one belongs to a time not before it.
Reading(at, l, f, now) ==
  /\ at \in {"low", "check"} => l.hi <= Hi(now)
  /\ at = "check" => \E t \in f..now : l.lo = Lo(t) /\ l.hi <= Hi(t)

LEMMA ReadStep ==
  ASSUME NEW at, NEW to, NEW l \in Locals, NEW l2, NEW after, NEW f \in Nat,
         mtime \in Nat, f <= mtime, after \notin ReadAt,
         Reading(at, l, f, mtime), GetStep(at, to, l, l2, after)
  PROVE  /\ l2 \in Locals /\ l2.from = l.from /\ Reading(to, l2, f, mtime)
         /\ at \in ReadAt /\ to \in ReadAt \cup {after}
         /\ to = after => l2.value \in f..mtime
<1>1. CASE at = "high" /\ to = "low" /\ l2 = ReadHigh(l)
  <2>1. l2 = [l EXCEPT !.hi = Hi(mtime)] /\ Hi(mtime) \in Nat
    BY <1>1, TwoWords DEF ReadHigh
  <2> QED
    BY <1>1, <2>1 DEF Locals, Reading, ReadAt
<1>2. CASE at = "low" /\ to = "check" /\ l2 = ReadLow(l)
  <2>1. l2 = [l EXCEPT !.lo = Lo(mtime)] /\ Lo(mtime) \in Nat
    BY <1>2, TwoWords DEF ReadLow
  <2>2. l2 \in Locals /\ l2.from = l.from /\ l2.hi = l.hi /\ l2.lo = Lo(mtime)
    BY <2>1 DEF Locals
  <2>3. mtime \in f..mtime
    OBVIOUS
  <2> QED
    BY <1>2, <2>2, <2>3 DEF Reading, ReadAt
<1>3. CASE at = "check" /\ to = "high" /\ l2 = l
  BY <1>3 DEF Reading, ReadAt
<1>4. CASE at = "check" /\ SameHigh(l) /\ to = after /\ l2 = ReadValue(l)
  <2>1. PICK t \in f..mtime : l.lo = Lo(t) /\ l.hi <= Hi(t)
    BY <1>4 DEF Reading
  <2>2. l.hi \in Nat /\ l.lo \in Nat /\ l.from \in Nat
    BY DEF Locals
  <2>3. t \in Nat /\ t <= mtime
    BY <2>1
  <2>4. l.hi * Base + l.lo = t
    BY <1>4, <2>1, <2>2, <2>3, OneTime DEF SameHigh
  <2>5. l2 = [hi |-> 0, lo |-> 0, value |-> t, from |-> l.from]
    BY <1>4, <2>4 DEF ReadValue, NoLoc
  <2> QED
    BY <1>4, <2>2, <2>3, <2>1, <2>5 DEF Locals, Reading, ReadAt
<1> QED
  BY <1>1, <1>2, <1>3, <1>4 DEF GetStep

LEMMA ReadGoesOn ==
  ASSUME NEW at, NEW l \in Locals, NEW f \in Nat, NEW now \in Nat,
         Reading(at, l, f, now)
  PROVE  Reading(at, l, f, now + 1)
<1>1. Hi(now) <= Hi(now + 1) /\ Hi(now) \in Nat /\ Hi(now + 1) \in Nat /\ l.hi \in Nat
  BY HighGrows, TwoWords DEF Locals
<1> QED
  BY <1>1 DEF Reading

-----------------------------------------------------------------------------
(* The invariant. *)

SleepType == [set : BOOLEAN, offset : Nat, end : Nat, since : Nat, asked : Nat]

Types == /\ mtime \in 0..MaxTime /\ cmpLo \in Nat /\ cmpHi \in Nat /\ goal \in Nat
         /\ mloc \in Locals /\ iloc \in Locals /\ sleep \in SleepType
         /\ sleep.since <= mtime /\ iloc.from <= mtime

\* The handler runs with the interrupt enabled, and enabled it is by the
\* program when it has set the first compare value.
Places == /\ isr # "none" => mie
          /\ main \in {"set1", "set2", "set3", "enable"} => ~mie
          /\ main \in {"run", "got"} => mie
          /\ isr \in ReadAt \cup {"none", "set1", "set2", "set3", "tick"}

Reads == /\ Reading(main, mloc, sleep.since, mtime)
         /\ Reading(isr, iloc, iloc.from, mtime)
         /\ main \in {"got", "set1", "set2", "set3"} => mloc.value \in sleep.since..mtime
         /\ isr \in {"set1", "set2", "set3"} => iloc.value \in iloc.from..mtime

\* The compare register holds the goal, but while it is written: then it holds a
\* time that does not come.
Holds == cmpHi = Hi(goal) /\ cmpLo = Lo(goal)
Writing(at, l) == /\ at \in {"set2", "set3"} => cmpHi = Base - 1 /\ goal = NextTime(l)
                  /\ at = "set3" => cmpLo = Lo(goal)

Compare == /\ Writing(isr, iloc) /\ Writing(main, mloc)
           /\ mie /\ isr \notin {"set2", "set3"} => Holds
           /\ main = "enable" => Holds

Sleeping == /\ sleep.end = sleep.asked
            /\ sleep.set => sleep.since <= sleep.offset

IInv == Types /\ Places /\ Reads /\ Compare /\ Sleeping

LEMMA InitInv == InitTimer => IInv
<1> SUFFICES ASSUME InitTimer PROVE IInv
  OBVIOUS
<1> USE Sizes
<1>1. mloc \in Locals /\ iloc \in Locals /\ iloc.from = 0
  BY DEF InitTimer, NoLoc, Locals
<1>2. sleep \in SleepType /\ sleep.since = 0 /\ sleep.end = sleep.asked /\ ~sleep.set
  BY DEF InitTimer, Awake, SleepType
<1>3. Types
  BY <1>1, <1>2 DEF InitTimer, Types, Word
<1>4. Places
  BY DEF InitTimer, Places, ReadAt
<1>5. Reads
  BY DEF InitTimer, Reads, Reading
<1>6. Compare /\ Sleeping
  BY <1>2 DEF InitTimer, Compare, Writing, Sleeping
<1> QED
  BY <1>3, <1>4, <1>5, <1>6 DEF IInv

LEMMA NextIsNat ==
  ASSUME NEW l \in Locals
  PROVE  NextTime(l) \in Nat
BY Sizes DEF NextTime, Locals

LEMMA AdvanceKeeps == IInv /\ Advance => IInv'
<1> SUFFICES ASSUME IInv, Advance PROVE IInv'
  OBVIOUS
<1> USE Sizes
<1>1. /\ mtime \in Nat /\ mtime' = mtime + 1 /\ mtime' <= MaxTime
      /\ mloc \in Locals /\ iloc \in Locals /\ sleep.since \in Nat /\ iloc.from \in Nat
      /\ mloc.value \in Nat /\ iloc.value \in Nat
  BY DEF Advance, IInv, Types, Locals, SleepType
<1>2. UNCHANGED <<cmpLo, cmpHi, goal, mie, main, isr, mloc, iloc, sleep>>
  BY DEF Advance, cmp
<1>3. Types' /\ Places'
  BY <1>1, <1>2 DEF IInv, Types, Places
<1>4. Reads'
  <2>1. Reading(main, mloc, sleep.since, mtime + 1) /\ Reading(isr, iloc, iloc.from, mtime + 1)
    BY <1>1, ReadGoesOn DEF IInv, Reads
  <2> QED
    BY <1>1, <1>2, <2>1 DEF IInv, Reads
<1>5. Compare' /\ Sleeping'
  BY <1>2 DEF IInv, Compare, Writing, Holds, Sleeping
<1> QED
  BY <1>3, <1>4, <1>5 DEF IInv

LEMMA InitGetKeeps == IInv /\ InitGet => IInv'
<1> SUFFICES ASSUME IInv, InitGet PROVE IInv'
  OBVIOUS
<1>1. /\ UNCHANGED <<mtime, cmpLo, cmpHi, goal, mie, isr, iloc, sleep>> /\ isr = "none" /\ ~mie
      /\ GetStep(main, main', mloc, mloc', "set1")
  BY DEF InitGet, cmp
<1>2. mtime \in Nat /\ sleep.since \in Nat /\ sleep.since <= mtime /\ mloc \in Locals
  BY Sizes DEF IInv, Types, SleepType
<1>3. Reading(main, mloc, sleep.since, mtime)
  BY DEF IInv, Reads
<1>4. /\ mloc' \in Locals /\ Reading(main', mloc', sleep.since, mtime)
      /\ main \in ReadAt /\ main' \in ReadAt \cup {"set1"}
      /\ main' = "set1" => mloc'.value \in sleep.since..mtime
  BY <1>1, <1>2, <1>3, ReadStep DEF ReadAt
<1>5. Types' /\ Places' /\ Reads'
  BY <1>1, <1>4 DEF IInv, Types, Places, Reads, ReadAt
<1>6. Compare' /\ Sleeping'
  BY <1>1, <1>4 DEF IInv, Compare, Writing, Holds, Sleeping, ReadAt
<1> QED
  BY <1>5, <1>6 DEF IInv

LEMMA MainGetKeeps == IInv /\ MainGet => IInv'
<1> SUFFICES ASSUME IInv, MainGet PROVE IInv'
  OBVIOUS
<1>1. /\ UNCHANGED <<mtime, cmpLo, cmpHi, goal, mie, isr, iloc, sleep>> /\ isr = "none" /\ mie
      /\ GetStep(main, main', mloc, mloc', "got")
  BY DEF MainGet, cmp
<1>2. mtime \in Nat /\ sleep.since \in Nat /\ sleep.since <= mtime /\ mloc \in Locals
  BY Sizes DEF IInv, Types, SleepType
<1>3. Reading(main, mloc, sleep.since, mtime)
  BY DEF IInv, Reads
<1>4. /\ mloc' \in Locals /\ Reading(main', mloc', sleep.since, mtime)
      /\ main \in ReadAt /\ main' \in ReadAt \cup {"got"}
      /\ main' = "got" => mloc'.value \in sleep.since..mtime
  BY <1>1, <1>2, <1>3, ReadStep DEF ReadAt
<1>5. Types' /\ Places' /\ Reads'
  BY <1>1, <1>4 DEF IInv, Types, Places, Reads, ReadAt
<1>6. Compare' /\ Sleeping'
  BY <1>1, <1>4 DEF IInv, Compare, Writing, Holds, Sleeping, ReadAt
<1> QED
  BY <1>5, <1>6 DEF IInv

LEMMA IsrGetKeeps == IInv /\ IsrGet => IInv'
<1> SUFFICES ASSUME IInv, IsrGet PROVE IInv'
  OBVIOUS
<1>1. /\ UNCHANGED <<mtime, cmpLo, cmpHi, goal, mie, main, mloc, sleep>>
      /\ GetStep(isr, isr', iloc, iloc', "set1")
  BY DEF IsrGet, cmp
<1>2. mtime \in Nat /\ iloc.from \in Nat /\ iloc.from <= mtime /\ iloc \in Locals
  BY Sizes DEF IInv, Types, Locals
<1>3. Reading(isr, iloc, iloc.from, mtime)
  BY DEF IInv, Reads
<1>4. /\ iloc' \in Locals /\ iloc'.from = iloc.from /\ Reading(isr', iloc', iloc.from, mtime)
      /\ isr \in ReadAt /\ isr' \in ReadAt \cup {"set1"}
      /\ isr' = "set1" => iloc'.value \in iloc.from..mtime
  BY <1>1, <1>2, <1>3, ReadStep DEF ReadAt
<1>5. Types' /\ Places' /\ Reads'
  BY <1>1, <1>4 DEF IInv, Types, Places, Reads, ReadAt
<1>6. Compare' /\ Sleeping'
  BY <1>1, <1>4 DEF IInv, Compare, Writing, Holds, Sleeping, ReadAt
<1> QED
  BY <1>5, <1>6 DEF IInv

\* One of the three writes of alt_niosv_mtimecmp_set.
LEMMA SetWrites ==
  ASSUME NEW at, NEW to, NEW l \in Locals, NEW after, Types, Writing(at, l),
         after \notin {"set1", "set2", "set3"}, SetStep(at, to, NextTime(l), after)
  PROVE  /\ cmpHi' \in Nat /\ cmpLo' \in Nat /\ goal' \in Nat
         /\ to \in {"set2", "set3"} => cmpHi' = Base - 1 /\ goal' = NextTime(l)
         /\ to = "set3" => cmpLo' = Lo(goal')
         /\ to = after => cmpHi' = Hi(goal') /\ cmpLo' = Lo(goal')
         /\ at \in {"set1", "set2", "set3"} /\ to \in {"set2", "set3", after}
<1>1. /\ NextTime(l) \in Nat /\ Hi(NextTime(l)) \in Nat /\ Lo(NextTime(l)) \in Nat
      /\ Base - 1 \in Nat
  BY NextIsNat, TwoWords, Sizes
<1> QED
  BY <1>1 DEF SetStep, Guard, Writing, Types

LEMMA InitSetKeeps == IInv /\ InitSet => IInv'
<1> SUFFICES ASSUME IInv, InitSet PROVE IInv'
  OBVIOUS
<1>1. /\ UNCHANGED <<mtime, mie, isr, mloc, iloc, sleep>> /\ isr = "none" /\ ~mie
      /\ SetStep(main, main', NextTime(mloc), "enable")
  BY DEF InitSet
<1>2. mloc \in Locals /\ Types /\ Writing(main, mloc)
  BY DEF IInv, Types, Compare
<1>3. /\ cmpHi' \in Nat /\ cmpLo' \in Nat /\ goal' \in Nat
      /\ main' \in {"set2", "set3"} => cmpHi' = Base - 1 /\ goal' = NextTime(mloc)
      /\ main' = "set3" => cmpLo' = Lo(goal')
      /\ main' = "enable" => cmpHi' = Hi(goal') /\ cmpLo' = Lo(goal')
      /\ main \in {"set1", "set2", "set3"} /\ main' \in {"set2", "set3", "enable"}
  BY <1>1, <1>2, SetWrites
<1>4. Types' /\ Places' /\ Reads'
  BY <1>1, <1>3 DEF IInv, Types, Places, Reads, Reading, ReadAt
<1>5. Compare' /\ Sleeping'
  BY <1>1, <1>3 DEF IInv, Compare, Writing, Holds, Sleeping, NextTime
<1> QED
  BY <1>4, <1>5 DEF IInv

LEMMA IsrSetKeeps == IInv /\ IsrSet => IInv'
<1> SUFFICES ASSUME IInv, IsrSet PROVE IInv'
  OBVIOUS
<1>1. /\ UNCHANGED <<mtime, mie, main, mloc, sleep>>
      /\ SetStep(isr, isr', NextTime(iloc), "tick")
      /\ iloc' = IF isr' = "tick" THEN NoLoc ELSE iloc
  BY DEF IsrSet
<1>2. iloc \in Locals /\ Types /\ Writing(isr, iloc)
  BY DEF IInv, Types, Compare
<1>3. /\ cmpHi' \in Nat /\ cmpLo' \in Nat /\ goal' \in Nat
      /\ isr' \in {"set2", "set3"} => cmpHi' = Base - 1 /\ goal' = NextTime(iloc)
      /\ isr' = "set3" => cmpLo' = Lo(goal')
      /\ isr' = "tick" => cmpHi' = Hi(goal') /\ cmpLo' = Lo(goal')
      /\ isr \in {"set1", "set2", "set3"} /\ isr' \in {"set2", "set3", "tick"}
  BY <1>1, <1>2, SetWrites
<1>4. NoLoc \in Locals /\ NoLoc.from = 0
  BY DEF NoLoc, Locals
<1>5. mie /\ main \notin {"set1", "set2", "set3", "enable"}
  BY <1>3 DEF IInv, Places
<1>6. Types' /\ Places' /\ Reads'
  BY <1>1, <1>3, <1>4, Sizes DEF IInv, Types, Places, Reads, Reading, ReadAt
<1>7. Compare' /\ Sleeping'
  BY <1>1, <1>3, <1>5 DEF IInv, Compare, Writing, Holds, Sleeping, NextTime
<1> QED
  BY <1>6, <1>7 DEF IInv

LEMMA EnterKeeps == IInv /\ (IsrEnter \/ IsrReturn) => IInv'
<1> SUFFICES ASSUME IInv, IsrEnter \/ IsrReturn PROVE IInv'
  OBVIOUS
<1>1. /\ UNCHANGED <<mtime, cmpLo, cmpHi, goal, mie, main, mloc, sleep>> /\ mie
      /\ isr \in {"none", "tick"}
      /\ isr' \in {"none", "high"}
  BY DEF IsrEnter, IsrReturn, Interrupt, IInv, Places, cmp
<1>2. iloc' \in Locals /\ iloc'.from <= mtime
  <2>1. mtime \in Nat
    BY Sizes DEF IInv, Types
  <2>2. [NoLoc EXCEPT !.from = mtime] = [hi |-> 0, lo |-> 0, value |-> 0, from |-> mtime]
    BY DEF NoLoc
  <2> QED
    BY <2>1, <2>2 DEF IsrEnter, IsrReturn, IInv, Types, Locals
<1>3. Types' /\ Places' /\ Reads'
  BY <1>1, <1>2 DEF IInv, Types, Places, Reads, Reading, ReadAt
<1>4. Compare' /\ Sleeping'
  BY <1>1 DEF IInv, Compare, Writing, Holds, Sleeping
<1> QED
  BY <1>3, <1>4 DEF IInv

LEMMA EnableKeeps == IInv /\ InitEnable => IInv'
<1> SUFFICES ASSUME IInv, InitEnable PROVE IInv'
  OBVIOUS
<1>1. /\ UNCHANGED <<mtime, cmpLo, cmpHi, goal, isr, iloc, sleep>>
      /\ main = "enable" /\ main' = "run" /\ mie' /\ mloc' = NoLoc
  BY DEF InitEnable, cmp
<1>2. NoLoc \in Locals
  BY DEF NoLoc, Locals
<1>3. isr = "none"
  BY <1>1 DEF IInv, Places
<1>4. Types' /\ Places' /\ Reads'
  BY <1>1, <1>2, <1>3 DEF IInv, Types, Places, Reads, Reading, ReadAt
<1>5. Compare' /\ Sleeping'
  BY <1>1, <1>3 DEF IInv, Compare, Writing, Holds, Sleeping
<1> QED
  BY <1>4, <1>5 DEF IInv

\* The steps of alt_busy_sleep between two readings of the time.
LEMMA SleepKeeps == IInv /\ (MainCall \/ MainGot \/ MainReturn) => IInv'
<1> SUFFICES ASSUME IInv, MainCall \/ MainGot \/ MainReturn PROVE IInv'
  OBVIOUS
<1>1. /\ UNCHANGED <<mtime, cmpLo, cmpHi, goal, mie, isr, iloc>>
      /\ main \in {"run", "got"} /\ main' \in {"high", "run"} /\ mloc' = NoLoc /\ mie
  BY DEF MainCall, MainGot, MainReturn, ReadTime, cmp, IInv, Places
<1>2. NoLoc \in Locals /\ NoLoc.from = 0 /\ mtime \in Nat
  BY Sizes DEF NoLoc, Locals, IInv, Types
<1>3. /\ sleep' \in SleepType /\ sleep'.since <= mtime /\ sleep'.end = sleep'.asked
      /\ sleep'.set => sleep'.since <= sleep'.offset
  <2>1. CASE MainCall
    <3>1. PICK us \in Sleeps :
            sleep' = [Awake EXCEPT !.end = EndTime(us), !.since = mtime, !.asked = us]
      BY <2>1 DEF MainCall
    <3>2. us \in Nat /\ us < Base
      BY Sizes
    <3>3. EndTime(us) = us
      BY <3>2, Sizes DEF EndTime
    <3>4. sleep' = [set |-> FALSE, offset |-> 0, end |-> us, since |-> mtime, asked |-> us]
      BY <3>1, <3>3 DEF Awake
    <3> QED
      BY <3>2, <3>4, <1>2 DEF SleepType
  <2>2. CASE MainGot
    <3>1. \/ sleep' = [sleep EXCEPT !.set = TRUE, !.offset = mloc.value]
          \/ sleep' = sleep
      BY <2>2 DEF MainGot
    <3>2. mloc.value \in Nat /\ sleep.since <= mloc.value
      BY <2>2, <1>2 DEF MainGot, IInv, Reads, Types, Locals, SleepType
    <3> QED
      BY <3>1, <3>2 DEF IInv, Types, Sleeping, SleepType
  <2>3. CASE MainReturn
    BY <2>3, <1>2 DEF MainReturn, Awake, SleepType
  <2> QED
    BY <2>1, <2>2, <2>3
<1>4. Types' /\ Places'
  BY <1>1, <1>2, <1>3 DEF IInv, Types, Places, ReadAt
<1>5. Reads'
  BY <1>1 DEF IInv, Reads, Reading
<1>6. Compare' /\ Sleeping'
  BY <1>1, <1>3 DEF IInv, Compare, Writing, Holds, Sleeping
<1> QED
  BY <1>4, <1>5, <1>6 DEF IInv

LEMMA StutterInv == IInv /\ UNCHANGED timer => IInv'
BY DEF IInv, timer, Types, Places, Reads, Reading, Compare, Writing, Holds, Sleeping,
       Hi, Lo, NextTime

LEMMA StepInv == IInv /\ [Next]_vars => IInv'
<1> SUFFICES ASSUME IInv, [Next]_vars PROVE IInv'
  OBVIOUS
<1>1. CASE TimePasses
  BY <1>1, AdvanceKeeps DEF TimePasses
<1>2. CASE Main
  BY <1>2, InitGetKeeps, InitSetKeeps, EnableKeeps, MainGetKeeps, SleepKeeps DEF Main
<1>3. CASE \E a \in Alarm : StopAlarm(a) \/ \E nt \in 0..MaxPeriod : StartAlarm(a, nt)
  <2>1. UNCHANGED timer
    BY <1>3 DEF StopAlarm, StartAlarm
  <2> QED
    BY <2>1, StutterInv
<1>4. CASE TimerSteps
  BY <1>4, EnterKeeps, IsrGetKeeps, IsrSetKeeps DEF TimerSteps
<1>5. CASE TickSteps
  <2>1. CASE TickEnds
    BY <2>1, EnterKeeps DEF TickEnds
  <2>2. CASE TickStarts \/ Walk \/ \E r \in 0..MaxPeriod : CallsBack(r)
    <3>1. UNCHANGED timer
      BY <2>2 DEF TickStarts, Walk, CallsBack
    <3> QED
      BY <3>1, StutterInv
  <2> QED
    BY <1>5, <2>1, <2>2 DEF TickSteps
<1>6. CASE UNCHANGED vars
  <2>1. UNCHANGED timer
    BY <1>6 DEF vars
  <2> QED
    BY <2>1, StutterInv
<1> QED
  BY <1>1, <1>2, <1>3, <1>4, <1>5, <1>6 DEF Next

LEMMA Invariance == Spec => []IInv
<1>1. Init => IInv
  BY InitInv DEF Init
<1> QED
  BY <1>1, StepInv, PTL DEF Spec

-----------------------------------------------------------------------------
(* The theorems. *)

\* mtimer.c:28-39: what alt_niosv_mtime_get returns, to the program or to the
\* handler, was the time at some instant of the reading.
THEOREM ReadTheorem == Spec => []ReadIsWhole
<1>1. IInv => ReadIsWhole
  BY DEF IInv, Reads, ReadIsWhole
<1> QED
  BY <1>1, Invariance, PTL

LEMMA InvNeverEarly == IInv => NeverEarly
<1> SUFFICES ASSUME IInv, mie, Pending PROVE mtime >= goal
  BY DEF NeverEarly
<1>1. mtime \in Nat /\ mtime <= MaxTime /\ goal \in Nat /\ cmpLo \in Nat
  BY Sizes DEF IInv, Types
<1>2. CASE isr \in {"set2", "set3"}
  <2>1. cmpHi = Base - 1
    BY <1>2 DEF IInv, Compare, Writing
  <2>2. (Base - 1) * Base = Base * (Base - 1) /\ (Base - 1) * Base \in Nat
    BY Sizes, Z3
  <2>3. mtime >= Base * (Base - 1)
    BY <1>1, <2>1, <2>2 DEF Pending
  <2> QED
    BY <1>1, <2>2, <2>3, Sizes
<1>3. CASE isr \notin {"set2", "set3"}
  <2>1. cmpHi = Hi(goal) /\ cmpLo = Lo(goal)
    BY <1>3 DEF IInv, Compare, Holds
  <2> QED
    BY <1>1, <2>1, TwoWords DEF Pending
<1> QED
  BY <1>2, <1>3

\* mtimer.c:41-48: at no point of the writing of mtimecmp is an interrupt
\* pending before the time it is written for.
THEOREM NeverEarlyTheorem == Spec => []NeverEarly
  BY InvNeverEarly, Invariance, PTL

LEMMA SleptEnough ==
  ASSUME IInv, [Next]_vars, main = "got", main' = "run"
  PROVE  mtime >= sleep.since + sleep.asked
<1>1. MainReturn
  BY DEF Next, vars, timer, TimePasses, Advance, Main, InitGet, InitSet, InitEnable,
         MainCall, MainGet, MainGot, MainReturn, ReadTime, GetStep, SetStep,
         StopAlarm, StartAlarm, TimerSteps, IsrEnter, IsrGet, IsrSet, IsrReturn,
         TickSteps, TickStarts, TickEnds, Walk, CallsBack
<1>2. sleep.set /\ mloc.value - sleep.offset >= sleep.end
  BY <1>1 DEF MainReturn, Elapsed
<1>3. /\ sleep.since \in Nat /\ sleep.asked \in Nat /\ sleep.end = sleep.asked
      /\ sleep.offset \in Nat /\ sleep.since <= sleep.offset
  BY <1>2 DEF IInv, Types, SleepType, Sleeping
<1>4. mloc.value \in Nat /\ mtime \in Nat /\ mloc.value <= mtime
  BY Sizes DEF IInv, Reads, Types, Locals
<1> QED
  BY <1>2, <1>3, <1>4

\* alt_busy_sleep.c:82-103: a sleep lasts as long as was asked.
THEOREM SleepTheorem == Spec => SleepsEnough
<1>1. IInv /\ [Next]_vars =>
        [main = "got" /\ main' = "run" => mtime >= sleep.since + sleep.asked]_timer
  BY SleptEnough
<1> QED
  BY <1>1, Invariance, PTL DEF Spec, SleepsEnough

-----------------------------------------------------------------------------
(* The list of alarms. *)

\* A set of numbers that is not empty has a least one.
LEMMA LeastNumber ==
  ASSUME NEW T, T \subseteq Nat, T # {}
  PROVE  \E x \in T : \A y \in T : x <= y
<1>1. \E x \in T : \A y \in T : ~(<<y, x>> \in OpToRel(<, Nat))
  BY NatLessThanWellFounded, WFMin
<1>2. PICK x \in T : \A y \in T : ~(<<y, x>> \in OpToRel(<, Nat))
  BY <1>1
<1>3. ASSUME NEW y \in T PROVE x <= y
  <2>1. x \in Nat /\ y \in Nat /\ <<y, x>> \notin OpToRel(<, Nat)
    BY <1>2
  <2>2. ~(y < x)
    BY <2>1, Zenon DEF OpToRel
  <2>3. \A a, b \in Nat : ~(b < a) => a <= b
    OBVIOUS
  <2> QED
    BY <2>1, <2>2, <2>3, Zenon
<1> QED
  BY <1>3

\* A list of the alarms in S, in an order that falls from its head: a new alarm
\* comes right behind the head, which is moved up; one taken out leaves the others
\* in their order.
Linked(nx, pv, S, pos) ==
  /\ nx \in [Node -> Node] /\ pv \in [Node -> Node] /\ S \subseteq Alarm
  /\ pos \in [Node -> Nat]
  /\ \A m, n \in S \cup {Head} : pos[m] = pos[n] => m = n
  /\ \A n \in S \cup {Head} :
       /\ nx[n] \in S \cup {Head} /\ pv[n] \in S \cup {Head}
       /\ pv[nx[n]] = n /\ nx[pv[n]] = n
       /\ pos[n] <= pos[Head]
       /\ nx[n] # Head => pos[nx[n]] < pos[n]
       /\ \A m \in S \cup {Head} : pos[m] < pos[n] => nx[n] # Head /\ pos[m] <= pos[nx[n]]
  /\ \A a \in Alarm \ S : nx[a] = a /\ pv[a] = a

Above(pos, e) == [pos EXCEPT ![e] = pos[Head], ![Head] = pos[Head] + 1]

LEMMA InsertLinked ==
  ASSUME NEW nx, NEW pv, NEW S, NEW pos, Linked(nx, pv, S, pos), NEW e \in Alarm \ S
  PROVE  LET L == Insert([next |-> nx, previous |-> pv], e)
         IN  Linked(L.next, L.previous, S \cup {e}, Above(pos, e))
<1> DEFINE first == nx[Head]
           nx2 == [nx EXCEPT ![e] = first, ![Head] = e]
           pv2 == [pv EXCEPT ![e] = Head, ![first] = e]
           pos2 == Above(pos, e)
           T == S \cup {Head}
<1>1. /\ Insert([next |-> nx, previous |-> pv], e).next = nx2
      /\ Insert([next |-> nx, previous |-> pv], e).previous = pv2
  BY DEF Insert
<1>2. /\ nx \in [Node -> Node] /\ pv \in [Node -> Node] /\ S \subseteq Alarm
      /\ pos \in [Node -> Nat] /\ e \in Node /\ Head \in Node /\ e # Head
      /\ Head \notin S /\ e \notin T /\ e \in Alarm
  BY AlarmsAssumption DEF Linked, Node
<1>3. /\ first \in T /\ first \in Node /\ first # e /\ pv[first] = Head
      /\ T \subseteq Node
  BY <1>2 DEF Linked, Node
<1>4. nx2 \in [Node -> Node] /\ pv2 \in [Node -> Node] /\ S \cup {e} \subseteq Alarm
      /\ pos2 \in [Node -> Nat]
  BY <1>2, <1>3 DEF Above
<1>5. /\ nx2[e] = first /\ nx2[Head] = e /\ pv2[e] = Head /\ pv2[first] = e
      /\ \A n \in Node : n # e /\ n # Head => nx2[n] = nx[n]
      /\ \A n \in Node : n # e /\ n # first => pv2[n] = pv[n]
  BY <1>2, <1>3
<1>6. /\ pos2[e] = pos[Head] /\ pos2[Head] = pos[Head] + 1 /\ pos[Head] \in Nat
      /\ \A n \in S : pos2[n] = pos[n] /\ pos[n] < pos[Head] /\ pos[n] \in Nat
  <2>1. /\ pos2[e] = pos[Head] /\ pos2[Head] = pos[Head] + 1 /\ pos[Head] \in Nat
        /\ \A n \in S : pos2[n] = pos[n] /\ pos[n] \in Nat
    BY <1>2, <1>3 DEF Above
  <2>2. \A n \in S : pos[n] <= pos[Head] /\ pos[n] # pos[Head]
    BY <1>2 DEF Linked
  <2> QED
    BY <2>1, <2>2
<1>7. \A n \in T : /\ nx[n] \in T /\ pv[n] \in T /\ pv[nx[n]] = n /\ nx[pv[n]] = n
  BY DEF Linked
<1> HIDE DEF nx2, pv2, pos2, first
<1>8. \A m, n \in (S \cup {e}) \cup {Head} : pos2[m] = pos2[n] => m = n
  <2>1. \A m, n \in S : pos[m] = pos[n] => m = n
    BY DEF Linked
  <2> QED
    BY <1>6, <2>1
<1>9. ASSUME NEW n \in (S \cup {e}) \cup {Head}
      PROVE  /\ nx2[n] \in (S \cup {e}) \cup {Head} /\ pv2[n] \in (S \cup {e}) \cup {Head}
             /\ pv2[nx2[n]] = n /\ nx2[pv2[n]] = n
  <2>1. CASE n = e
    BY <2>1, <1>2, <1>3, <1>5
  <2>2. CASE n = Head
    <3>1. nx2[n] = e /\ pv2[nx2[n]] = n
      BY <2>2, <1>5
    <3>2. CASE first = Head
      BY <2>2, <3>1, <3>2, <1>5
    <3>3. CASE first # Head
      <4>1. pv2[n] = pv[n] /\ pv[n] \in T /\ nx[pv[n]] = Head
        BY <2>2, <3>3, <1>2, <1>5, <1>7
      <4>2. pv[n] # Head /\ pv[n] # e /\ pv[n] \in Node
        BY <3>3, <4>1, <1>2, <1>3 DEF first
      <4> QED
        BY <2>2, <3>1, <4>1, <4>2, <1>5
    <3> QED
      BY <3>2, <3>3
  <2>3. CASE n \in S /\ n # e
    <3>1. n # Head /\ n \in Node /\ nx2[n] = nx[n] /\ nx[n] \in T /\ pv[nx[n]] = n
      BY <2>3, <1>2, <1>3, <1>5, <1>7
    <3>2. nx[n] # first /\ nx[n] # e /\ nx[n] \in Node
      BY <3>1, <1>2, <1>3
    <3>3. pv2[nx2[n]] = n
      BY <3>1, <3>2, <1>5
    <3>4. CASE n = first
      BY <3>1, <3>3, <3>4, <1>5
    <3>5. CASE n # first
      <4>1. pv2[n] = pv[n] /\ pv[n] \in T /\ nx[pv[n]] = n
        BY <2>3, <3>1, <3>5, <1>5, <1>7
      <4>2. pv[n] # Head /\ pv[n] # e /\ pv[n] \in Node
        BY <3>5, <4>1, <1>2, <1>3 DEF first
      <4> QED
        BY <3>1, <3>3, <4>1, <4>2, <1>5
    <3> QED
      BY <3>4, <3>5
  <2> QED
    BY <2>1, <2>2, <2>3
<1>10. ASSUME NEW n \in (S \cup {e}) \cup {Head}
       PROVE  /\ pos2[n] <= pos2[Head]
              /\ nx2[n] # Head => pos2[nx2[n]] < pos2[n]
              /\ \A m \in (S \cup {e}) \cup {Head} :
                   pos2[m] < pos2[n] => nx2[n] # Head /\ pos2[m] <= pos2[nx2[n]]
  <2>1. \A m \in S \cup {e} : pos2[m] <= pos[Head] /\ pos2[m] \in Nat
    BY <1>6
  <2>2. CASE n = Head
    BY <2>1, <2>2, <1>2, <1>5, <1>6
  <2>3. CASE n = e
    <3>1. nx2[n] = first /\ pos2[n] = pos[Head]
      BY <2>3, <1>5, <1>6
    <3>2. \A m \in S : first # Head /\ pos[m] <= pos[first]
      BY <1>6 DEF Linked, first
    <3>3. first # Head => first \in S
      BY <1>3
    <3> QED
      BY <2>1, <2>3, <3>1, <3>2, <3>3, <1>6
  <2>4. CASE n \in S
    <3>1. n # Head /\ n # e /\ n \in Node /\ nx2[n] = nx[n] /\ nx[n] \in T
      BY <2>4, <1>2, <1>3, <1>5, <1>7
    <3>2. /\ nx[n] # Head => pos[nx[n]] < pos[n]
          /\ \A m \in S : pos[m] < pos[n] => nx[n] # Head /\ pos[m] <= pos[nx[n]]
      BY <2>4 DEF Linked
    <3> QED
      BY <2>4, <3>1, <3>2, <1>6
  <2> QED
    BY <2>2, <2>3, <2>4
<1>11. \A a \in Alarm \ (S \cup {e}) : nx2[a] = a /\ pv2[a] = a
  <2> TAKE a \in Alarm \ (S \cup {e})
  <2>1. a # e /\ a # Head /\ a # first /\ a \in Node
    BY <1>2, <1>3, AlarmsAssumption DEF Node
  <2>2. nx[a] = a /\ pv[a] = a
    BY DEF Linked
  <2> QED
    BY <2>1, <2>2, <1>5
<1> QED
  BY <1>1, <1>4, <1>8, <1>9, <1>10, <1>11 DEF Linked, pos2

LEMMA RemoveLinked ==
  ASSUME NEW nx, NEW pv, NEW S, NEW pos, Linked(nx, pv, S, pos), NEW e \in Alarm
  PROVE  LET L == Remove([next |-> nx, previous |-> pv], e)
         IN  Linked(L.next, L.previous, S \ {e}, pos)
<1> DEFINE p == pv[e]
           f == nx[e]
           nx2 == [nx EXCEPT ![p] = f, ![e] = e]
           pv2 == [pv EXCEPT ![f] = p, ![e] = e]
           T == S \cup {Head}
<1>1. /\ Remove([next |-> nx, previous |-> pv], e).next = nx2
      /\ Remove([next |-> nx, previous |-> pv], e).previous = pv2
  BY DEF Remove
<1>2. /\ nx \in [Node -> Node] /\ pv \in [Node -> Node] /\ S \subseteq Alarm
      /\ pos \in [Node -> Nat] /\ e \in Node /\ e # Head
      /\ T \subseteq Node
  BY AlarmsAssumption DEF Linked, Node
<1>3. CASE e \notin S
  <2>1. p = e /\ f = e /\ S \ {e} = S
    BY <1>3 DEF Linked
  <2>2. nx2 = nx /\ pv2 = pv
    BY <1>2, <2>1
  <2> QED
    BY <1>1, <2>1, <2>2
<1>4. CASE e \in S
  <2>1. \A n \in T : /\ nx[n] \in T /\ pv[n] \in T /\ pv[nx[n]] = n /\ nx[pv[n]] = n
    BY DEF Linked
  <2>2. /\ p \in T /\ f \in T /\ nx[p] = e /\ pv[f] = e /\ p \in Node /\ f \in Node
    BY <1>2, <1>4, <2>1
  <2>3. \A n \in T : pos[n] \in Nat /\ pos[n] <= pos[Head]
                     /\ (nx[n] # Head => pos[nx[n]] < pos[n])
    BY <1>2 DEF Linked
  <2>4. p # e /\ f # e
    <3>1. f # e
      BY <1>2, <1>4, <2>3
    <3>2. p # e
      BY <2>2, <3>1
    <3> QED
      BY <3>1, <3>2
  <2>5. nx2 \in [Node -> Node] /\ pv2 \in [Node -> Node] /\ S \ {e} \subseteq Alarm
    BY <1>2, <2>2
  <2>6. /\ nx2[p] = f /\ nx2[e] = e /\ pv2[f] = p /\ pv2[e] = e
        /\ \A n \in Node : n # e /\ n # p => nx2[n] = nx[n]
        /\ \A n \in Node : n # e /\ n # f => pv2[n] = pv[n]
    BY <1>2, <2>2, <2>4
  <2> HIDE DEF nx2, pv2, p, f
  <2>7. \A m, n \in (S \ {e}) \cup {Head} : pos[m] = pos[n] => m = n
    BY DEF Linked
  <2>8. ASSUME NEW n \in (S \ {e}) \cup {Head}
        PROVE  /\ nx2[n] \in (S \ {e}) \cup {Head} /\ pv2[n] \in (S \ {e}) \cup {Head}
               /\ pv2[nx2[n]] = n /\ nx2[pv2[n]] = n
    <3>1. n \in T /\ n # e /\ n \in Node
      BY <1>2
    <3>2. nx2[n] \in T /\ nx2[n] # e /\ pv2[nx2[n]] = n
      <4>1. CASE n = p
        BY <4>1, <2>2, <2>4, <2>6
      <4>2. CASE n # p
        <5>1. nx2[n] = nx[n] /\ nx[n] \in T /\ pv[nx[n]] = n
          BY <3>1, <4>2, <2>1, <2>6
        <5>2. nx[n] # e /\ nx[n] # f /\ nx[n] \in Node
          BY <3>1, <4>2, <5>1, <1>2, <2>2 DEF p
        <5> QED
          BY <5>1, <5>2, <2>6
      <4> QED
        BY <4>1, <4>2
    <3>3. pv2[n] \in T /\ pv2[n] # e /\ nx2[pv2[n]] = n
      <4>1. CASE n = f
        BY <4>1, <2>2, <2>4, <2>6
      <4>2. CASE n # f
        <5>1. pv2[n] = pv[n] /\ pv[n] \in T /\ nx[pv[n]] = n
          BY <3>1, <4>2, <2>1, <2>6
        <5>2. pv[n] # e /\ pv[n] # p /\ pv[n] \in Node
          BY <3>1, <4>2, <5>1, <1>2, <2>2 DEF f
        <5> QED
          BY <5>1, <5>2, <2>6
      <4> QED
        BY <4>1, <4>2
    <3> QED
      BY <3>2, <3>3
  <2>9. ASSUME NEW n \in (S \ {e}) \cup {Head}
        PROVE  /\ pos[n] <= pos[Head]
               /\ nx2[n] # Head => pos[nx2[n]] < pos[n]
               /\ \A m \in (S \ {e}) \cup {Head} :
                    pos[m] < pos[n] => nx2[n] # Head /\ pos[m] <= pos[nx2[n]]
    <3>1. n \in T /\ n # e /\ n \in Node /\ e \in T
      BY <1>2, <1>4
    <3>2. \A k, m \in T : pos[m] < pos[k] => nx[k] # Head /\ pos[m] <= pos[nx[k]]
      BY DEF Linked
    <3>3. CASE n # p
      <4>1. nx2[n] = nx[n]
        BY <3>1, <3>3, <2>6
      <4> QED
        BY <3>1, <3>2, <4>1, <2>3
    <3>4. CASE n = p
      <4>1. nx2[n] = f /\ nx[n] = e /\ f = nx[e]
        BY <3>4, <2>2, <2>6 DEF f
      <4>2. pos[e] < pos[n] /\ pos[e] \in Nat /\ pos[n] \in Nat
        BY <3>1, <4>1, <1>2, <2>3
      <4>3. nx2[n] # Head => pos[nx2[n]] < pos[n]
        <5>1. f # Head => pos[f] < pos[e] /\ pos[f] \in Nat
          BY <3>1, <4>1, <2>2, <2>3
        <5> QED
          BY <4>1, <4>2, <5>1
      <4>4. ASSUME NEW m \in (S \ {e}) \cup {Head}, pos[m] < pos[n]
            PROVE  nx2[n] # Head /\ pos[m] <= pos[nx2[n]]
        <5>1. m \in T /\ pos[m] <= pos[e] /\ pos[m] \in Nat /\ m # e
          BY <3>1, <3>2, <4>1, <4>4, <1>2, <2>3
        <5>2. pos[m] # pos[e]
          BY <5>1, <3>1 DEF Linked
        <5>3. pos[m] < pos[e]
          BY <5>1, <5>2, <4>2
        <5> QED
          BY <5>1, <5>3, <3>1, <3>2, <4>1
      <4> QED
        BY <3>1, <4>3, <4>4, <2>3
    <3> QED
      BY <3>3, <3>4
  <2>10. \A a \in Alarm \ (S \ {e}) : nx2[a] = a /\ pv2[a] = a
    <3> TAKE a \in Alarm \ (S \ {e})
    <3>1. CASE a = e
      BY <3>1, <2>6
    <3>2. CASE a # e
      <4>1. a \notin S /\ a \in Node /\ a # Head /\ nx[a] = a /\ pv[a] = a
        BY <3>2, AlarmsAssumption DEF Linked, Node
      <4>2. a # p /\ a # f
        BY <4>1, <2>2
      <4> QED
        BY <3>2, <4>1, <4>2, <2>6
    <3> QED
      BY <3>1, <3>2
  <2> QED
    BY <1>1, <1>2, <2>5, <2>7, <2>8, <2>9, <2>10 DEF Linked
<1> QED
  BY <1>3, <1>4


\* What a step does to the alarms.
AlarmStep == \/ \E a \in Alarm : Stop(a) \/ \E nt \in 0..MaxPeriod : Start(a, nt)
             \/ TickBegin \/ Pass \/ TickEnd
             \/ \E r \in 0..MaxPeriod : CallBack(r)

LEMMA AlarmSteps == [Next]_vars => AlarmStep \/ UNCHANGED alarms
<1> SUFFICES ASSUME [Next]_vars PROVE AlarmStep \/ UNCHANGED alarms
  OBVIOUS
<1> USE DEF AlarmStep
<1>1. CASE TimePasses \/ (Main /\ UNCHANGED <<alarms, promise>>) \/ TimerSteps
  BY <1>1 DEF TimePasses, TimerSteps
<1>2. CASE \E a \in Alarm : StopAlarm(a) \/ \E nt \in 0..MaxPeriod : StartAlarm(a, nt)
  BY <1>2 DEF StopAlarm, StartAlarm
<1>3. CASE TickSteps
  BY <1>3 DEF TickSteps, TickStarts, Walk, TickEnds, CallsBack
<1>4. CASE UNCHANGED vars
  BY <1>4 DEF vars
<1> QED
  BY <1>1, <1>2, <1>3, <1>4 DEF Next

\* The walk has every alarm behind it dealt with: those still ahead may be due,
\* and none is overdue by a tick.
Ahead(pos) ==
  /\ alarm \in Listed
  /\ ~walking => alarm = Head
  /\ \A m \in registered : /\ time[m] >= nticks
                           /\ alarm = Head \/ pos[m] > pos[alarm] => time[m] > nticks

\* A callback that stops an alarm may stop the one the walk goes to next.
Kept(pos) == /\ Linked(next, previous, registered, pos)
             /\ ~CallbackStops => Ahead(pos)

AInv == AlarmsOK /\ \E pos : Kept(pos)

LEMMA InitAlarmsInv == InitAlarms => AInv
<1> SUFFICES ASSUME InitAlarms PROVE AInv
  OBVIOUS
<1> DEFINE pos == [n \in Node |-> 0]
<1>1. AlarmsOK
  BY DEF InitAlarms, AlarmsOK, Node
<1>2. Linked(next, previous, registered, pos)
  BY DEF InitAlarms, Linked, Node
<1>3. Ahead(pos)
  BY DEF InitAlarms, Ahead, Listed
<1> QED
  BY <1>1, <1>2, <1>3 DEF AInv, Kept

LEMMA StartKeeps ==
  ASSUME AInv, NEW a \in Alarm, NEW nt \in 0..MaxPeriod, Start(a, nt)
  PROVE  AInv'
<1>1. PICK pos : Kept(pos)
  BY DEF AInv
<1>2. /\ next' = Insert(Links, a).next /\ previous' = Insert(Links, a).previous
      /\ registered' = registered \cup {a} /\ a \notin registered /\ ~walking
      /\ UNCHANGED <<nticks, alarm, walking>>
  BY DEF Start, SetLinks
<1>3. Linked(next', previous', registered', Above(pos, a))
  <2>1. Linked(Insert(Links, a).next, Insert(Links, a).previous, registered \cup {a},
               Above(pos, a))
    BY <1>1, <1>2, InsertLinked DEF Kept, Links
  <2> QED
    BY <1>2, <2>1
<1>4. /\ time' \in [Alarm -> Nat] /\ time'[a] > nticks
      /\ \A m \in Alarm : m # a => time'[m] = time[m]
  <2>1. Due(nt) \in Nat /\ Due(nt) > nticks
    BY DEF Due, AInv, AlarmsOK
  <2> QED
    BY <2>1 DEF Start, AInv, AlarmsOK
<1>5. AlarmsOK'
  BY <1>2, <1>3, <1>4 DEF AInv, AlarmsOK, Linked
<1>6. ~CallbackStops => Ahead(Above(pos, a))'
  <2> SUFFICES ASSUME ~CallbackStops PROVE Ahead(Above(pos, a))'
    OBVIOUS
  <2>1. Ahead(pos) /\ alarm = Head /\ alarm' = Head /\ nticks \in Nat
    BY <1>1, <1>2 DEF Kept, Ahead, AInv, AlarmsOK
  <2>2. \A m \in registered' : time'[m] > nticks /\ time'[m] \in Nat
    BY <1>2, <1>4, <2>1 DEF Ahead, AInv, AlarmsOK
  <2> QED
    BY <1>2, <2>1, <2>2 DEF Ahead, Listed
<1>7. Kept(Above(pos, a))'
  BY <1>3, <1>6 DEF Kept
<1> QED
  BY <1>5, <1>7 DEF AInv

LEMMA StopKeeps ==
  ASSUME AInv, NEW a \in Alarm, Stop(a)
  PROVE  AInv'
<1>1. PICK pos : Kept(pos)
  BY DEF AInv
<1>2. /\ next' = Remove(Links, a).next /\ previous' = Remove(Links, a).previous
      /\ registered' = registered \ {a} /\ ~walking
      /\ UNCHANGED <<time, nticks, alarm, walking>>
  BY DEF Stop, SetLinks
<1>3. Linked(next', previous', registered', pos)
  <2>1. Linked(Remove(Links, a).next, Remove(Links, a).previous, registered \ {a}, pos)
    BY <1>1, RemoveLinked DEF Kept, Links
  <2> QED
    BY <1>2, <2>1
<1>4. AlarmsOK'
  BY <1>2, <1>3 DEF AInv, AlarmsOK, Linked
<1>5. ~CallbackStops => Ahead(pos)'
  BY <1>1, <1>2 DEF Kept, Ahead, Listed
<1>6. Kept(pos)'
  BY <1>3, <1>5 DEF Kept
<1> QED
  BY <1>4, <1>6 DEF AInv

\* What the list says of the alarm that comes next.
LEMMA GoesOn ==
  ASSUME NEW pos, Linked(next, previous, registered, pos), NEW n \in Listed
  PROVE  /\ next[n] \in Listed
         /\ \A m \in registered :
              next[n] = Head \/ pos[m] > pos[next[n]]
                => m = n \/ (n # Head /\ pos[m] > pos[n])
<1>1. next[n] \in Listed /\ Head \in Listed /\ Listed \subseteq Node
  BY DEF Linked, Listed, Node
<1>2. ASSUME NEW m \in registered, next[n] = Head \/ pos[m] > pos[next[n]], m # n
      PROVE  n # Head /\ pos[m] > pos[n]
  <2>1. pos[m] \in Nat /\ pos[n] \in Nat /\ pos[next[n]] \in Nat /\ m \in Listed
    BY <1>1 DEF Linked, Listed
  <2>2. pos[m] < pos[n] => next[n] # Head /\ pos[m] <= pos[next[n]]
    BY <2>1 DEF Linked, Listed
  <2>3. pos[m] # pos[n]
    BY <1>2, <2>1 DEF Linked, Listed
  <2>4. pos[m] > pos[n]
    BY <1>2, <2>1, <2>2, <2>3
  <2>5. n # Head
    BY <2>1, <2>4 DEF Linked, Listed
  <2> QED
    BY <2>4, <2>5
<1> QED
  BY <1>1, <1>2

LEMMA TickBeginKeeps == AInv /\ TickBegin => AInv'
<1> SUFFICES ASSUME AInv, TickBegin PROVE AInv'
  OBVIOUS
<1>1. PICK pos : Kept(pos)
  BY DEF AInv
<1>2. /\ ~walking /\ walking' /\ nticks' = nticks + 1 /\ alarm' = next[Head]
      /\ UNCHANGED <<next, previous, time, registered>>
  BY DEF TickBegin, links
<1>3. AlarmsOK'
  BY <1>2, AlarmsAssumption DEF AInv, AlarmsOK, Node, TickBegin
<1>4. ~CallbackStops => Ahead(pos)'
  <2> SUFFICES ASSUME ~CallbackStops PROVE Ahead(pos)'
    OBVIOUS
  <2>1. \A m \in registered : time[m] > nticks /\ time[m] \in Nat /\ nticks \in Nat
    BY <1>1, <1>2 DEF Kept, Ahead, AInv, AlarmsOK
  <2>2. /\ next[Head] \in Listed
        /\ \A m \in registered : next[Head] = Head \/ pos[m] > pos[next[Head]] => m = Head
    BY <1>1, GoesOn DEF Kept, Listed
  <2>3. \A m \in registered : m # Head
    BY AlarmsAssumption DEF AInv, AlarmsOK
  <2> QED
    BY <1>2, <2>1, <2>2, <2>3 DEF Ahead, Listed
<1>5. Kept(pos)'
  BY <1>1, <1>2, <1>4 DEF Kept
<1> QED
  BY <1>3, <1>5 DEF AInv

LEMMA PassKeeps == AInv /\ Pass => AInv'
<1> SUFFICES ASSUME AInv, Pass PROVE AInv'
  OBVIOUS
<1>1. PICK pos : Kept(pos)
  BY DEF AInv
<1>2. /\ walking /\ alarm # Head /\ ~(time[alarm] <= nticks) /\ alarm' = next[alarm]
      /\ UNCHANGED <<next, previous, time, nticks, walking, registered>>
  BY DEF Pass, Expired, links
<1>3. AlarmsOK'
  BY <1>2 DEF AInv, AlarmsOK
<1>4. ~CallbackStops => Ahead(pos)'
  <2> SUFFICES ASSUME ~CallbackStops PROVE Ahead(pos)'
    OBVIOUS
  <2>1. Ahead(pos) /\ alarm \in Listed
    BY <1>1 DEF Kept, Ahead
  <2>2. /\ next[alarm] \in Listed
        /\ \A m \in registered :
             next[alarm] = Head \/ pos[m] > pos[next[alarm]] => m = alarm \/ pos[m] > pos[alarm]
    BY <1>1, <2>1, GoesOn DEF Kept
  <2>3. \A m \in registered : time[m] \in Nat /\ nticks \in Nat
    BY DEF AInv, AlarmsOK
  <2> QED
    BY <1>2, <2>1, <2>2, <2>3 DEF Ahead, Listed
<1>5. Kept(pos)'
  BY <1>1, <1>2, <1>4 DEF Kept
<1> QED
  BY <1>3, <1>5 DEF AInv

LEMMA TickEndKeeps == AInv /\ (TickEnd \/ UNCHANGED alarms) => AInv'
<1> SUFFICES ASSUME AInv, TickEnd \/ UNCHANGED alarms PROVE AInv'
  OBVIOUS
<1>1. PICK pos : Kept(pos)
  BY DEF AInv
<1>2. /\ UNCHANGED <<next, previous, time, nticks, alarm, registered>>
      /\ walking' = walking \/ (walking' = FALSE /\ alarm = Head)
  BY DEF TickEnd, links, alarms
<1>3. AlarmsOK'
  BY <1>2 DEF AInv, AlarmsOK
<1>4. Kept(pos)'
  BY <1>1, <1>2 DEF Kept, Ahead, Listed
<1> QED
  BY <1>3, <1>4 DEF AInv

\* What a callback leaves of the list: the alarms that stay keep their order.
LEMMA EffectLinked ==
  ASSUME AInv, NEW pos, Kept(pos), NEW e \in Effects
  PROVE  /\ \E q : /\ Linked(e.links.next, e.links.previous, e.registered, q)
                   /\ \A n \in registered : q[n] = pos[n]
         /\ e.time \in [Alarm -> Nat]
         /\ \A n \in registered : e.time[n] = time[n]
         /\ \A n \in e.registered : n \in registered \/ e.time[n] = nticks + 1
         /\ ~CallbackStops => registered \subseteq e.registered
<1>1. /\ Linked(next, previous, registered, pos) /\ time \in [Alarm -> Nat]
      /\ nticks \in Nat /\ registered \subseteq Alarm /\ pos \in [Node -> Nat]
  BY DEF Kept, AInv, AlarmsOK, Linked
<1>2. CASE e = [links |-> Links, time |-> time, registered |-> registered]
  BY <1>1, <1>2 DEF Links
<1>3. ASSUME NEW a \in Alarm \ registered,
             e = [links |-> Insert(Links, a), time |-> [time EXCEPT ![a] = Due(0)],
                  registered |-> registered \cup {a}]
      PROVE  /\ \E q : /\ Linked(e.links.next, e.links.previous, e.registered, q)
                       /\ \A n \in registered : q[n] = pos[n]
             /\ e.time \in [Alarm -> Nat]
             /\ \A n \in registered : e.time[n] = time[n]
             /\ \A n \in e.registered : n \in registered \/ e.time[n] = nticks + 1
             /\ registered \subseteq e.registered
  <2>1. Linked(Insert(Links, a).next, Insert(Links, a).previous, registered \cup {a},
               Above(pos, a))
    BY <1>1, InsertLinked DEF Links
  <2>2. \A n \in registered : Above(pos, a)[n] = pos[n]
    BY <1>1, AlarmsAssumption DEF Above, Node
  <2>3. Due(0) = nticks + 1 /\ Due(0) \in Nat
    BY <1>1 DEF Due
  <2> QED
    BY <1>1, <1>3, <2>1, <2>2, <2>3
<1>4. ASSUME CallbackStops, NEW a \in Alarm,
             e = [links |-> Remove(Links, a), time |-> time, registered |-> registered \ {a}]
      PROVE  /\ \E q : /\ Linked(e.links.next, e.links.previous, e.registered, q)
                       /\ \A n \in registered : q[n] = pos[n]
             /\ e.time \in [Alarm -> Nat]
             /\ \A n \in registered : e.time[n] = time[n]
             /\ \A n \in e.registered : n \in registered \/ e.time[n] = nticks + 1
  <2>1. Linked(Remove(Links, a).next, Remove(Links, a).previous, registered \ {a}, pos)
    BY <1>1, RemoveLinked DEF Links
  <2> QED
    BY <1>1, <1>4, <2>1
<1> QED
  BY <1>2, <1>3, <1>4 DEF Effects

LEMMA CallBackKeeps ==
  ASSUME AInv, NEW r \in 0..MaxPeriod, CallBack(r)
  PROVE  AInv'
<1>1. PICK pos : Kept(pos)
  BY DEF AInv
<1>2. PICK e \in Effects :
        IF r = 0
        THEN /\ SetLinks(Remove(e.links, alarm))
             /\ time' = e.time
             /\ registered' = e.registered \ {alarm}
        ELSE /\ SetLinks(e.links)
             /\ time' = [e.time EXCEPT ![alarm] = Again(@, r)]
             /\ registered' = e.registered
  BY DEF CallBack
<1>3. PICK q : /\ Linked(e.links.next, e.links.previous, e.registered, q)
               /\ \A n \in registered : q[n] = pos[n]
  BY <1>1, EffectLinked
<1>4. /\ e.time \in [Alarm -> Nat]
      /\ \A n \in registered : e.time[n] = time[n]
      /\ \A n \in e.registered : n \in registered \/ e.time[n] = nticks + 1
      /\ ~CallbackStops => registered \subseteq e.registered
  BY <1>1, EffectLinked
<1>5. /\ walking /\ alarm # Head /\ time[alarm] <= nticks /\ alarm' = next[alarm]
      /\ UNCHANGED <<nticks, walking>> /\ alarm \in Alarm /\ nticks \in Nat
      /\ alarm' \in Node
  BY DEF CallBack, Expired, Following, AInv, AlarmsOK, Node
<1>6. Linked(next', previous', registered', q)
  <2>1. CASE r = 0
    <3>1. Remove(e.links, alarm) = Remove([next |-> e.links.next,
                                           previous |-> e.links.previous], alarm)
      BY DEF Remove
    <3>2. Linked(Remove(e.links, alarm).next, Remove(e.links, alarm).previous,
                 e.registered \ {alarm}, q)
      BY <1>3, <1>5, <3>1, RemoveLinked
    <3> QED
      BY <1>2, <2>1, <3>2 DEF SetLinks
  <2>2. CASE r # 0
    BY <1>2, <1>3, <2>2 DEF SetLinks
  <2> QED
    BY <2>1, <2>2
<1>7. time' \in [Alarm -> Nat] /\ \A n \in Alarm : n # alarm => time'[n] = e.time[n]
  <2>1. r \in Nat
    BY AlarmsAssumption
  <2> QED
    BY <1>2, <1>4, <1>5, <2>1 DEF Again
<1>8. AlarmsOK'
  BY <1>5, <1>6, <1>7 DEF AInv, AlarmsOK, Linked
<1>9. ~CallbackStops => Ahead(q)'
  <2> SUFFICES ASSUME ~CallbackStops PROVE Ahead(q)'
    OBVIOUS
  <2>1. Ahead(pos) /\ alarm \in registered /\ registered \subseteq Alarm
        /\ Linked(next, previous, registered, pos)
    BY <1>1, <1>5 DEF Kept, Ahead, Listed, AInv, AlarmsOK
  <2>2. /\ next[alarm] \in Listed
        /\ \A m \in registered :
             next[alarm] = Head \/ pos[m] > pos[next[alarm]] => m = alarm \/ pos[m] > pos[alarm]
    BY <2>1, GoesOn DEF Listed
  <2>3. next[alarm] # alarm
    <3>1. /\ next[alarm] # Head => pos[next[alarm]] < pos[alarm]
          /\ pos[alarm] \in Nat
      BY <2>1, <1>5 DEF Linked, Node
    <3> QED
      BY <3>1, <1>5
  <2>4. /\ registered \subseteq registered' \cup {alarm}
        /\ \A m \in registered' : m \in registered \/ time'[m] = nticks + 1
        /\ registered' \subseteq Alarm
        /\ alarm \in registered' => r # 0
    <3>1. registered' \subseteq e.registered
      BY <1>2
    <3>2. \A m \in registered' : m \notin registered => m # alarm /\ m \in Alarm
      BY <1>8, <2>1 DEF AlarmsOK
    <3>3. \A m \in registered' : m \in registered \/ time'[m] = nticks + 1
      BY <1>4, <1>7, <3>1, <3>2
    <3>4. registered \subseteq registered' \cup {alarm} /\ (alarm \in registered' => r # 0)
      BY <1>2, <1>4
    <3> QED
      BY <1>8, <3>3, <3>4 DEF AlarmsOK
  <2>5. alarm' \in Listed'
    BY <1>5, <2>2, <2>3, <2>4 DEF Listed
  <2>6. alarm \in registered' => time'[alarm] >= nticks + 1
    <3>1. SUFFICES ASSUME alarm \in registered' PROVE time'[alarm] >= nticks + 1
      OBVIOUS
    <3>2. time'[alarm] = e.time[alarm] + r
      BY <1>2, <1>4, <1>5, <2>4, <3>1 DEF Again
    <3>3. e.time[alarm] = time[alarm] /\ time[alarm] >= nticks /\ time[alarm] \in Nat
      BY <1>4, <2>1 DEF Ahead, AInv, AlarmsOK
    <3>4. r \in Nat /\ r >= 1
      BY <2>4, <3>1, AlarmsAssumption
    <3> QED
      BY <1>5, <3>2, <3>3, <3>4
  <2>7. ASSUME NEW m \in registered'
        PROVE  /\ time'[m] >= nticks
               /\ alarm' = Head \/ q[m] > q[alarm'] => time'[m] > nticks
    <3>1. CASE m = alarm
      BY <1>5, <1>7, <2>1, <2>6, <3>1
    <3>2. CASE m \notin registered
      BY <1>5, <2>4, <3>2
    <3>3. CASE m \in registered /\ m # alarm
      <4>1. time'[m] = time[m] /\ time[m] \in Nat /\ q[m] = pos[m]
        BY <1>3, <1>4, <1>7, <2>1, <3>3 DEF AInv, AlarmsOK
      <4>2. alarm' # Head => alarm' \in registered /\ q[alarm'] = pos[alarm']
        BY <1>3, <1>5, <2>2 DEF Listed
      <4>3. /\ time[m] >= nticks
            /\ pos[m] > pos[alarm] => time[m] > nticks
        BY <2>1, <3>3 DEF Ahead
      <4> QED
        BY <1>5, <2>2, <3>3, <4>1, <4>2, <4>3
    <3> QED
      BY <3>1, <3>2, <3>3
  <2> QED
    BY <1>5, <2>5, <2>7 DEF Ahead, Listed
<1>10. Kept(q)'
  BY <1>6, <1>9 DEF Kept
<1> QED
  BY <1>8, <1>10 DEF AInv

LEMMA AlarmInvariance == Spec => []AInv
<1>1. Init => AInv
  BY InitAlarmsInv DEF Init
<1>2. AInv /\ [Next]_vars => AInv'
  BY AlarmSteps, StartKeeps, StopKeeps, TickBeginKeeps, PassKeeps, TickEndKeeps,
     CallBackKeeps DEF AlarmStep
<1> QED
  BY <1>1, <1>2, PTL DEF Spec

\* alt_llist.h:84-112, alt_tick.c:101-129, alt_alarm_start.c:84: the list holds the
\* alarms that are started and no other, whatever callbacks start or stop while
\* alt_tick walks it.
THEOREM ListTheorem == Spec => []ListIsExact
<1>1. AInv => ListIsExact
  <2> SUFFICES ASSUME AInv PROVE ListIsExact
    OBVIOUS
  <2>1. PICK pos : Linked(next, previous, registered, pos)
    BY DEF AInv, Kept
  <2>2. Closed(Listed) /\ \A n \in Listed : previous[next[n]] = n
    BY <2>1 DEF Linked, Listed, Closed
  <2>3. \A a \in Alarm \ registered : next[a] = a /\ previous[a] = a
    BY <2>1 DEF Linked
  <2>4. ASSUME NEW S \in SUBSET Listed, Closed(S) PROVE S = Listed
    <3>1. SUFFICES ASSUME S # Listed PROVE FALSE
      OBVIOUS
    <3> DEFINE below(n) == pos[Head] - pos[n]
               missed == {below(n) : n \in Listed \ S}
    <3>2. \A n \in Listed : below(n) \in Nat /\ pos[n] \in Nat /\ pos[n] <= pos[Head]
      BY <2>1 DEF Linked, Listed, Node
    <3>3. missed \subseteq Nat /\ missed # {}
      BY <3>1, <3>2
    <3>4. \E x \in missed : \A y \in missed : x <= y
      BY <3>3, LeastNumber
    <3>5. PICK n \in Listed \ S : \A m \in Listed \ S : below(n) <= below(m)
      BY <3>4
    <3>6. n # Head /\ previous[n] \in Listed /\ next[previous[n]] = n
      BY <2>1, <2>4 DEF Linked, Listed, Closed
    <3>7. pos[n] < pos[previous[n]]
      BY <2>1, <3>6 DEF Linked, Listed
    <3>8. previous[n] \in S
      <4>1. ~(below(n) <= below(previous[n]))
        <5>1. pos[n] \in Nat /\ pos[previous[n]] \in Nat /\ pos[Head] \in Nat
          BY <2>1, <3>6 DEF Linked, Listed, Node
        <5> QED
          BY <3>7, <5>1
      <4> HIDE DEF below
      <4> QED
        BY <3>5, <3>6, <4>1
    <3> QED
      BY <2>4, <3>5, <3>6, <3>8 DEF Closed
  <2> QED
    BY <2>2, <2>3, <2>4 DEF ListIsExact
<1> QED
  BY <1>1, AlarmInvariance, PTL

\* alt_tick.c:96-136: when alt_tick has returned, no alarm is left that was due,
\* unless a callback stops another alarm than its own, which the walk does not bear.
THEOREM NoneOverdueTheorem ==
  ASSUME ~CallbackStops
  PROVE  Spec => []NoneOverdue
<1>1. AInv => NoneOverdue
  BY DEF AInv, Kept, Ahead, NoneOverdue
<1> QED
  BY <1>1, AlarmInvariance, PTL

-----------------------------------------------------------------------------
(* Alarms and real time. *)

Ticks(n) == n * DELTA

LEMMA TicksAre ==
  /\ \A n \in Int : Ticks(n) \in Int /\ Ticks(n + 1) = Ticks(n) + DELTA
  /\ \A n \in Nat : Ticks(n) \in Nat
  /\ Ticks(0) = 0 /\ Ticks(0 - 1) = 0 - DELTA
<1>1. DELTA \in Nat
  BY Sizes
<1>2. \A n \in Int : n * DELTA \in Int /\ (n + 1) * DELTA = n * DELTA + DELTA
  BY <1>1
<1>3. \A n \in Nat : n * DELTA \in Nat
  BY <1>1
<1> QED
  BY <1>1, <1>2, <1>3 DEF Ticks

\* The time the ticks still to come are counted from: before the interrupt of the
\* next one its goal, or now when that is past; then the time the interrupt came;
\* and from the tick on the goal of the one after.
From == CASE isr = "none"                        -> IF mtime > goal THEN mtime ELSE goal
          [] isr \in {"high", "low", "check", "set1"} -> iloc.from
          [] isr = "tick" /\ walking             -> goal
          [] OTHER                               -> goal - DELTA

FromCases ==
  /\ isr = "none" => From = IF mtime > goal THEN mtime ELSE goal
  /\ isr \in {"high", "low", "check", "set1"} => From = iloc.from
  /\ isr = "tick" /\ walking => From = goal
  /\ isr \in {"set2", "set3"} \/ (isr = "tick" /\ ~walking) => From = goal - DELTA

LEMMA FromIs == FromCases /\ FromCases'
  BY DEF FromCases, From

\* A promise not yet kept is for as many ticks as the alarm waits.
Waits(a) == \/ promise[a] <= mtime
            \/ promise[a] <= From + Ticks(time[a] - nticks - 1)

PInv == /\ walking => isr = "tick"
        /\ ~mie => registered = {}
        /\ isr \in {"set2", "set3", "tick"} => goal <= mtime + DELTA
        /\ promise \in [Alarm -> Nat]
        /\ \A a \in registered : Waits(a)

\* Numbers, and the place of the handler.
LEMMA PTypes ==
  ASSUME IInv, AInv, PInv
  PROVE  /\ mtime \in Nat /\ goal \in Nat /\ iloc.from \in Nat /\ DELTA \in Nat
         /\ nticks \in Nat /\ registered \subseteq Alarm
         /\ \A a \in registered : promise[a] \in Nat /\ time[a] - nticks - 1 \in Int
                                  /\ Ticks(time[a] - nticks - 1) \in Int
         /\ isr \in {"none", "high", "low", "check", "set1", "set2", "set3", "tick"}
         /\ From \in Int
<1>1. mtime \in Nat /\ goal \in Nat /\ iloc.from \in Nat /\ DELTA \in Nat
  BY Sizes DEF IInv, Types, Locals
<1>2. isr \in {"none", "high", "low", "check", "set1", "set2", "set3", "tick"}
  BY DEF IInv, Places, ReadAt
<1>3. From \in Int
  BY <1>1, <1>2, FromIs DEF FromCases
<1>4. nticks \in Nat /\ time \in [Alarm -> Nat] /\ registered \subseteq Alarm
      /\ promise \in [Alarm -> Nat]
  BY DEF AInv, AlarmsOK, PInv
<1>5. \A a \in registered : promise[a] \in Nat /\ time[a] - nticks - 1 \in Int
  BY <1>4
<1> QED
  BY <1>1, <1>2, <1>3, <1>4, <1>5, TicksAre

LEMMA InitPromise == Init => PInv
  BY DEF Init, InitTimer, InitAlarms, PInv

\* A step that changes no alarm, and moves the count of the ticks to no earlier time.
LEMMA WaitsOn ==
  ASSUME IInv, AInv, PInv, IInv', UNCHANGED <<time, nticks, registered, promise>>,
         mtime <= mtime', registered # {} => From <= From' /\ From' \in Int
  PROVE  \A a \in registered' : Waits(a)'
<1> SUFFICES ASSUME NEW a \in registered PROVE Waits(a)'
  OBVIOUS
<1>1. /\ mtime \in Nat /\ From \in Int /\ promise[a] \in Nat
      /\ Ticks(time[a] - nticks - 1) \in Int
  BY PTypes
<1>2. mtime' \in Nat
  BY Sizes DEF IInv, Types
<1>3. Waits(a)
  BY DEF PInv
<1> DEFINE k == Ticks(time[a] - nticks - 1)
<1>4. k' = k
  BY DEF Ticks
<1> HIDE DEF k
<1>5. CASE promise[a] <= mtime
  BY <1>1, <1>2, <1>5 DEF Waits
<1>6. CASE promise[a] <= From + k
  <2>1. promise[a] <= From' + k
    BY <1>1, <1>6 DEF k
  <2> QED
    BY <1>4, <2>1 DEF Waits, k
<1> QED
  BY <1>3, <1>5, <1>6 DEF Waits, k

LEMMA MainPromise ==
  ASSUME IInv, AInv, PInv, IInv', Main, UNCHANGED <<alarms, promise>>
  PROVE  PInv'
<1>1. isr = "none" /\ isr' = "none" /\ mtime' = mtime /\ (~mie' => ~mie)
  <2>1. InitEnable => isr = "none"
    BY DEF InitEnable, IInv, Places
  <2>2. /\ InitGet \/ InitSet \/ MainGet => isr = "none" /\ UNCHANGED <<isr, mtime, mie>>
        /\ MainCall \/ MainGot \/ MainReturn => isr = "none" /\ UNCHANGED <<isr, mtime, mie>>
        /\ InitEnable => mie' /\ UNCHANGED <<isr, mtime>>
    BY DEF InitGet, InitSet, InitEnable, MainCall, MainGet, MainGot, MainReturn
  <2> QED
    BY <2>1, <2>2 DEF Main
<1>2. mie => goal' = goal
  BY DEF Main, InitGet, InitSet, InitEnable, MainCall, MainGet, MainGot, MainReturn, cmp
<1>3. UNCHANGED <<time, nticks, walking, registered, promise>>
  BY DEF alarms
<1>4. registered # {} => From <= From' /\ From' \in Int
  BY <1>1, <1>2, PTypes, FromIs DEF FromCases, PInv
<1>5. \A a \in registered' : Waits(a)'
  BY <1>1, <1>3, <1>4, WaitsOn, PTypes
<1> QED
  BY <1>1, <1>3, <1>5 DEF PInv

LEMMA TimePromise ==
  ASSUME IInv, AInv, PInv, IInv', TimePasses
  PROVE  PInv'
<1>1. /\ mtime' = mtime + 1 /\ UNCHANGED <<goal, mie, isr, iloc>>
      /\ UNCHANGED <<time, nticks, walking, registered>>
      /\ promise' = [a \in Alarm |-> IF promise[a] <= mtime' THEN 0 ELSE promise[a]]
  BY DEF TimePasses, Advance, cmp, alarms
<1>2. promise' \in [Alarm -> Nat]
  BY <1>1 DEF PInv
<1>3. From <= From' /\ From' \in Int
  BY <1>1, PTypes, FromIs DEF FromCases
<1>4. ASSUME NEW a \in registered PROVE Waits(a)'
  <2>1. /\ mtime \in Nat /\ From \in Int /\ promise[a] \in Nat /\ a \in Alarm
        /\ Ticks(time[a] - nticks - 1) \in Int
    BY PTypes
  <2>2. CASE promise[a] <= mtime'
    BY <1>1, <2>1, <2>2 DEF Waits
  <2>3. CASE ~(promise[a] <= mtime')
    <3>1. promise'[a] = promise[a] /\ promise[a] <= From + Ticks(time[a] - nticks - 1)
      BY <1>1, <2>1, <2>3 DEF Waits, PInv
    <3>2. promise'[a] <= From' + Ticks(time[a] - nticks - 1)
      BY <1>3, <2>1, <3>1
    <3> QED
      BY <1>1, <3>2 DEF Waits, Ticks
  <2> QED
    BY <2>2, <2>3
<1>5. isr' \in {"set2", "set3", "tick"} => goal' <= mtime' + DELTA
  BY <1>1, PTypes DEF PInv
<1> QED
  BY <1>1, <1>2, <1>4, <1>5 DEF PInv

\* The interrupt handler, up to alt_tick: the interrupt has come no earlier than
\* its goal, and the goal of the next one is no earlier than a period after that.
LEMMA TimerPromise ==
  ASSUME IInv, AInv, PInv, IInv', TimerSteps
  PROVE  PInv'
<1>1. UNCHANGED <<mtime, mie, promise>> /\ UNCHANGED <<time, nticks, walking, registered>>
  BY DEF TimerSteps, IsrEnter, IsrGet, IsrSet, alarms
<1>2. CASE IsrEnter
  <2>1. /\ isr = "none" /\ mie /\ Pending /\ isr' = "high" /\ iloc'.from = mtime
        /\ goal' = goal
    BY <1>2 DEF IsrEnter, Interrupt, NoLoc, cmp
  <2>2. mtime >= goal
    BY <2>1, InvNeverEarly DEF NeverEarly
  <2>3. From <= From' /\ From' \in Int
    BY <2>1, <2>2, PTypes, FromIs DEF FromCases
  <2>4. \A a \in registered' : Waits(a)'
    BY <1>1, <2>3, WaitsOn, PTypes
  <2> QED
    BY <1>1, <2>1, <2>4 DEF PInv
<1>3. CASE IsrGet
  <2>1. /\ isr \in {"high", "low", "check"} /\ isr' \in {"high", "low", "check", "set1"}
        /\ iloc'.from = iloc.from /\ goal' = goal
    <3>1. iloc \in Locals
      BY DEF IInv, Types
    <3> QED
      BY <1>3, <3>1 DEF IsrGet, GetStep, ReadHigh, ReadLow, ReadValue, NoLoc, cmp, Locals
  <2>2. From <= From' /\ From' \in Int
    BY <2>1, PTypes, FromIs DEF FromCases
  <2>3. \A a \in registered' : Waits(a)'
    BY <1>1, <2>2, WaitsOn, PTypes
  <2> QED
    BY <1>1, <2>1, <2>3 DEF PInv
<1>4. CASE IsrSet
  <2>1. \/ isr = "set1" /\ isr' = "set2" /\ goal' = iloc.value + DELTA
        \/ isr = "set2" /\ isr' = "set3" /\ goal' = goal
        \/ isr = "set3" /\ isr' = "tick" /\ goal' = goal
    BY <1>4 DEF IsrSet, SetStep, NextTime
  <2>2. isr = "set1" => /\ iloc.value \in Nat /\ iloc.from <= iloc.value
                        /\ iloc.value <= mtime
    BY PTypes DEF IInv, Reads, Types, Locals
  <2>3. ~walking
    BY <2>1 DEF PInv
  <2>4. goal' <= mtime' + DELTA
    BY <1>1, <2>1, <2>2, PTypes DEF PInv
  <2>5. From <= From' /\ From' \in Int
    <3>1. CASE isr = "set1"
      <4>1. isr' = "set2" /\ goal' = iloc.value + DELTA
        BY <2>1, <3>1
      <4>2. From = iloc.from
        BY <3>1, FromIs DEF FromCases
      <4>3. From' = goal' - DELTA
        BY <4>1, FromIs DEF FromCases
      <4> HIDE DEF From
      <4> QED
        BY <2>2, <3>1, <4>1, <4>2, <4>3, PTypes
    <3>2. CASE isr \in {"set2", "set3"}
      BY <1>1, <2>1, <2>3, <3>2, PTypes, FromIs DEF FromCases
    <3> QED
      BY <2>1, <3>1, <3>2
  <2>6. \A a \in registered' : Waits(a)'
    BY <1>1, <2>5, WaitsOn, PTypes
  <2> QED
    BY <1>1, <2>3, <2>4, <2>6 DEF PInv
<1> QED
  BY <1>2, <1>3, <1>4 DEF TimerSteps

LEMMA TickStartPromise ==
  ASSUME IInv, AInv, PInv, IInv', TickStarts
  PROVE  PInv'
<1>1. /\ isr = "tick" /\ ~walking /\ walking' /\ nticks' = nticks + 1
      /\ UNCHANGED <<time, registered, promise>>
      /\ UNCHANGED <<mtime, goal, mie, isr, iloc>>
  BY DEF TickStarts, TickBegin, timer
<1>2. From = goal - DELTA /\ From' = goal
  BY <1>1, FromIs DEF FromCases
<1>3. ASSUME NEW a \in registered PROVE Waits(a)'
  <2> DEFINE m == time[a] - nticks - 1
  <2>1. m \in Int /\ promise[a] \in Nat /\ goal \in Nat /\ DELTA \in Nat
        /\ time[a] - (nticks + 1) - 1 = m - 1 /\ m = (m - 1) + 1 /\ m - 1 \in Int
    BY PTypes DEF AInv, AlarmsOK
  <2>2. promise[a] <= mtime \/ promise[a] <= From + Ticks(m)
    BY DEF PInv, Waits
  <2> HIDE DEF m
  <2>3. Ticks(m) = Ticks(m - 1) + DELTA /\ Ticks(m - 1) \in Int
    BY <2>1, TicksAre
  <2>4. promise[a] <= mtime \/ promise[a] <= goal + Ticks(m - 1)
    BY <1>2, <2>1, <2>2, <2>3
  <2> QED
    BY <1>1, <1>2, <2>1, <2>4 DEF Waits, Ticks
<1> QED
  BY <1>1, <1>3 DEF PInv

LEMMA StopPromise ==
  ASSUME IInv, AInv, PInv, NEW a \in Alarm, StopAlarm(a)
  PROVE  PInv'
<1>1. /\ registered' = registered \ {a} /\ UNCHANGED <<time, nticks, walking>>
      /\ promise' = [promise EXCEPT ![a] = 0] /\ UNCHANGED <<mtime, goal, mie, isr, iloc>>
  BY DEF StopAlarm, Stop, timer
<1>2. ASSUME NEW b \in registered' PROVE Waits(b)'
  <2>1. b \in registered /\ promise'[b] = promise[b]
    BY <1>1 DEF PInv
  <2>2. Waits(b) /\ From' = From
    BY <1>1, <2>1 DEF PInv, From
  <2> QED
    BY <1>1, <2>1, <2>2 DEF Waits, Ticks
<1> QED
  BY <1>1, <1>2 DEF PInv

LEMMA StartPromise ==
  ASSUME IInv, AInv, PInv, NEW a \in Alarm, NEW nt \in 0..MaxPeriod, StartAlarm(a, nt)
  PROVE  PInv'
<1>1. /\ registered' = registered \cup {a} /\ UNCHANGED <<nticks, walking>>
      /\ a \notin registered /\ main = "run" /\ isr = "none"
      /\ time' = [time EXCEPT ![a] = nt + nticks + 1]
      /\ promise' = [promise EXCEPT ![a] = mtime + Ticks(nt)]
      /\ UNCHANGED <<mtime, goal, mie, isr, iloc>>
  BY DEF StartAlarm, Start, MainRuns, Due, Ticks, timer
<1>2. mie
  BY <1>1 DEF IInv, Places
<1>3. /\ time \in [Alarm -> Nat] /\ promise \in [Alarm -> Nat] /\ nt \in Nat
      /\ Ticks(nt) \in Nat
  BY TicksAre, AlarmsAssumption DEF AInv, AlarmsOK, PInv
<1>4. promise' \in [Alarm -> Nat]
  BY <1>1, <1>3, PTypes
<1>5. From' = From /\ From >= mtime
  <2>1. From' = From
    BY <1>1 DEF From
  <2> QED
    BY <1>1, <2>1, PTypes, FromIs DEF FromCases
<1>6. ASSUME NEW b \in registered' PROVE Waits(b)'
  <2>1. CASE b = a
    <3>1. time'[a] = nt + nticks + 1 /\ promise'[a] = mtime + Ticks(nt)
      BY <1>1, <1>3
    <3>2. time'[a] - nticks' - 1 = nt
      BY <1>1, <1>3, <3>1, PTypes
    <3>3. promise'[a] <= From' + Ticks(nt)
      BY <1>3, <1>5, <3>1, PTypes
    <3> QED
      BY <2>1, <3>2, <3>3 DEF Waits, Ticks
  <2>2. CASE b # a
    <3>1. b \in registered /\ time'[b] = time[b] /\ promise'[b] = promise[b]
      BY <1>1, <1>3, <2>2
    <3> QED
      BY <1>1, <1>5, <3>1 DEF Waits, PInv, Ticks
  <2> QED
    BY <2>1, <2>2
<1> QED
  BY <1>1, <1>2, <1>4, <1>6 DEF PInv

\* An alarm is called back in the very tick it was due for.
LEMMA CallBackTimes ==
  ASSUME ~CallbackStops, AInv, AInv', NEW r \in 0..MaxPeriod, CallBack(r)
  PROVE  /\ alarm \in registered /\ time[alarm] = nticks
         /\ \A a \in registered' :
              \/ a = alarm /\ time'[a] = nticks + r /\ r >= 1
              \/ a # alarm /\ a \in registered /\ time'[a] = time[a]
              \/ a # alarm /\ a \notin registered /\ time'[a] = nticks + 1
<1>1. PICK pos : Kept(pos)
  BY DEF AInv
<1>2. /\ alarm # Head /\ time[alarm] <= nticks /\ nticks \in Nat /\ time \in [Alarm -> Nat]
      /\ registered \subseteq Alarm
  BY DEF CallBack, Expired, AInv, AlarmsOK
<1>3. alarm \in registered /\ time[alarm] >= nticks
  BY <1>1, <1>2 DEF Kept, Ahead, Listed
<1>4. time[alarm] = nticks
  BY <1>2, <1>3
<1>5. PICK e \in Effects :
        IF r = 0
        THEN /\ SetLinks(Remove(e.links, alarm))
             /\ time' = e.time
             /\ registered' = e.registered \ {alarm}
        ELSE /\ SetLinks(e.links)
             /\ time' = [e.time EXCEPT ![alarm] = Again(@, r)]
             /\ registered' = e.registered
  BY DEF CallBack
<1>6. /\ e.time \in [Alarm -> Nat]
      /\ \A n \in registered : e.time[n] = time[n]
      /\ \A n \in e.registered : n \in registered \/ e.time[n] = nticks + 1
  BY <1>1, EffectLinked
<1>7. CASE r = 0
  BY <1>2, <1>3, <1>4, <1>5, <1>6, <1>7
<1>8. CASE r # 0
  <2>1. r \in Nat /\ r >= 1
    BY <1>8, AlarmsAssumption
  <2>2. time'[alarm] = nticks + r /\ registered' = e.registered
    BY <1>2, <1>3, <1>4, <1>5, <1>6, <1>8 DEF Again
  <2>3. \A a \in registered' : a # alarm => time'[a] = e.time[a]
    <3>1. registered' \subseteq Alarm /\ alarm \in Alarm
      BY <1>2, <1>3 DEF AInv, AlarmsOK
    <3> QED
      BY <1>5, <1>6, <1>8, <3>1
  <2> QED
    BY <1>3, <1>4, <1>6, <2>1, <2>2, <2>3
<1> QED
  BY <1>7, <1>8

LEMMA CallBackPromise ==
  ASSUME ~CallbackStops, IInv, AInv, PInv, AInv', NEW r \in 0..MaxPeriod, CallsBack(r)
  PROVE  /\ mtime >= promise[alarm]
         /\ PInv'
<1>1. /\ walking /\ walking' /\ isr = "tick" /\ mie
      /\ UNCHANGED <<mtime, goal, mie, isr, iloc, nticks>>
      /\ promise' = [a \in Alarm |->
                       IF a \notin registered' THEN 0
                       ELSE IF a = alarm THEN goal + Ticks(r - 1)
                       ELSE IF a \notin registered THEN goal
                       ELSE promise[a]]
  BY DEF CallsBack, CallBack, PInv, IInv, Places, timer, Ticks
<1>2. /\ alarm \in registered /\ time[alarm] = nticks
      /\ \A a \in registered' :
           \/ a = alarm /\ time'[a] = nticks + r /\ r >= 1
           \/ a # alarm /\ a \in registered /\ time'[a] = time[a]
           \/ a # alarm /\ a \notin registered /\ time'[a] = nticks + 1
  BY CallBackTimes DEF CallsBack
<1>3. From = goal /\ From' = goal
  BY <1>1, FromIs DEF FromCases
<1>4. /\ mtime \in Nat /\ goal \in Nat /\ nticks \in Nat /\ goal <= mtime + DELTA
      /\ DELTA \in Nat /\ registered' \subseteq Alarm /\ r \in Nat
      /\ promise \in [Alarm -> Nat]
  BY <1>1, PTypes, AlarmsAssumption DEF PInv, AInv, AlarmsOK
<1>5. mtime >= promise[alarm]
  <2>1. promise[alarm] <= mtime \/ promise[alarm] <= goal + Ticks(time[alarm] - nticks - 1)
    BY <1>2, <1>3 DEF PInv, Waits
  <2>2. time[alarm] - nticks - 1 = 0 - 1 /\ promise[alarm] \in Nat
    BY <1>2, <1>4, PTypes
  <2>3. Ticks(time[alarm] - nticks - 1) = 0 - DELTA
    BY <2>2, TicksAre
  <2> QED
    BY <1>4, <2>1, <2>2, <2>3
<1>6. ASSUME NEW a \in registered'
      PROVE  promise'[a] \in Nat /\ Waits(a)'
  <2>1. CASE a = alarm
    <3>1. r >= 1 /\ time'[a] = nticks + r /\ r - 1 \in Nat
      BY <1>2, <1>4, <2>1
    <3>2. promise'[a] = goal + Ticks(r - 1) /\ Ticks(r - 1) \in Nat
      BY <1>1, <1>4, <2>1, <3>1, TicksAre
    <3>3. time'[a] - nticks' - 1 = r - 1
      BY <1>1, <1>4, <3>1
    <3>4. promise'[a] <= From' + Ticks(r - 1) /\ promise'[a] \in Nat
      BY <1>3, <1>4, <3>2
    <3> QED
      BY <3>3, <3>4 DEF Waits, Ticks
  <2>2. CASE a # alarm /\ a \in registered
    <3>1. promise'[a] = promise[a] /\ time'[a] = time[a] /\ promise[a] \in Nat
      BY <1>1, <1>2, <1>4, <2>2
    <3> QED
      BY <1>1, <1>3, <2>2, <3>1 DEF Waits, PInv, Ticks
  <2>3. CASE a # alarm /\ a \notin registered
    <3>1. promise'[a] = goal /\ time'[a] = nticks + 1
      BY <1>1, <1>2, <1>4, <2>3
    <3>2. time'[a] - nticks' - 1 = 0
      BY <1>1, <1>4, <3>1
    <3>3. promise'[a] <= From' + Ticks(0) /\ promise'[a] \in Nat
      BY <1>3, <1>4, <3>1, TicksAre
    <3> QED
      BY <3>2, <3>3 DEF Waits, Ticks
  <2> QED
    BY <2>1, <2>2, <2>3
<1>7. promise' \in [Alarm -> Nat]
  <2>1. \A a \in Alarm : a \notin registered' => promise'[a] = 0
    BY <1>1
  <2>2. \A a \in Alarm : promise'[a] \in Nat
    BY <1>6, <2>1
  <2> QED
    BY <1>1, <2>2
<1> QED
  BY <1>1, <1>4, <1>5, <1>6, <1>7 DEF PInv

LEMMA RestPromise ==
  ASSUME IInv, AInv, PInv, IInv', TickEnds \/ Walk \/ UNCHANGED vars
  PROVE  PInv'
<1>1. /\ UNCHANGED <<time, nticks, registered, promise>>
      /\ UNCHANGED <<mtime, goal, mie, iloc>>
      /\ \/ UNCHANGED <<isr, walking>>
         \/ isr = "tick" /\ walking /\ isr' = "none" /\ ~walking'
  BY DEF TickEnds, TickEnd, IsrReturn, Walk, Pass, vars, timer, alarms, links, cmp
<1>2. From <= From' /\ From' \in Int
  <2>1. CASE UNCHANGED <<isr, walking>>
    <3>1. From' = From
      BY <1>1, <2>1 DEF From
    <3> QED
      BY <3>1, PTypes
  <2>2. CASE isr = "tick" /\ walking /\ isr' = "none"
    BY <1>1, <2>2, PTypes, FromIs DEF FromCases
  <2> QED
    BY <1>1, <2>1, <2>2
<1>3. \A a \in registered' : Waits(a)'
  BY <1>1, <1>2, WaitsOn, PTypes
<1> QED
  BY <1>1, <1>3 DEF PInv

LEMMA PromiseStep ==
  ASSUME ~CallbackStops, IInv, AInv, PInv, IInv', AInv', [Next]_vars
  PROVE  PInv'
<1>1. CASE \E a \in Alarm : StopAlarm(a) \/ \E nt \in 0..MaxPeriod : StartAlarm(a, nt)
  BY <1>1, StopPromise, StartPromise
<1>2. CASE TickSteps
  BY <1>2, TickStartPromise, RestPromise, CallBackPromise DEF TickSteps
<1> QED
  BY <1>1, <1>2, TimePromise, MainPromise, TimerPromise, RestPromise DEF Next

\* alt_alarm_start.c:78-82, mtimer.c:81-95: an alarm is called back no earlier than
\* the ticks asked for in real time, whenever in a period it is started and however
\* late the interrupts come.
THEOREM AlarmTheorem ==
  ASSUME ~CallbackStops
  PROVE  Spec => AlarmNotEarly
<1>1. Init => PInv
  BY InitPromise
<1>2. IInv /\ AInv /\ PInv /\ IInv' /\ AInv' /\ [Next]_vars => PInv'
  BY PromiseStep
<1>3. IInv /\ AInv /\ PInv /\ AInv' /\ [Next]_vars =>
        [\A r \in 0..MaxPeriod : CallsBack(r) => mtime >= promise[alarm]]_vars
  BY CallBackPromise
<1> QED
  BY <1>1, <1>2, <1>3, Invariance, AlarmInvariance, PTL DEF Spec, AlarmNotEarly

=============================================================================
