------------------------------- MODULE Mtimer -------------------------------
(***************************************************************************)
(* The machine timer of the Nios V (mtimer.c): mtime counts beside the     *)
(* processor, which reads it and writes mtimecmp one word at a time; the   *)
(* timer interrupt sets the next one and calls alt_tick.  The interrupt    *)
(* handler runs between any two instructions of the main program, which    *)
(* sleeps by reading the time over and over (usleep, alt_busy_sleep).      *)
(*                                                                         *)
(* Words have Base values instead of 2^32, and a microsecond is one tick.  *)
(***************************************************************************)
EXTENDS Integers

CONSTANTS Base,     \* values of a word
          DELTA,    \* MTIMECMP_DELTA_AMT
          MaxTime,  \* bound: mtime stops there; the real one takes 10^4 years
          Sleeps    \* the durations asked for: at most 200 ms (main.c)

ASSUME MtimerAssumption ==
  /\ Base \in Nat \ {0, 1} /\ DELTA \in Nat \ {0}
  /\ MaxTime \in Nat /\ MaxTime + DELTA < Base * (Base - 1)
  /\ Sleeps \subseteq 0..(Base - 1)

VARIABLES mtime,
          cmpLo, cmpHi,   \* mtimecmp
          mie,            \* is the timer interrupt enabled
          main, isr,      \* where each context is
          mloc, iloc,     \* their local variables
          sleep,          \* the sleep of the program
          goal            \* history: time last asked for in mtimecmp

timer == <<mtime, cmpLo, cmpHi, mie, main, isr, mloc, iloc, sleep, goal>>

Hi(t) == t \div Base
Lo(t) == t % Base
Word == 0..(Base - 1)

\* Locals: the two words read, the value, and (history, of the handler) the
\* time at the call.
NoLoc == [hi |-> 0, lo |-> 0, value |-> 0, from |-> 0]

\* Of the sleep: is alt_niosv_timestamp_offset set, its value, end_time, and
\* (history) when and for how long the program asked to sleep.
Awake == [set |-> FALSE, offset |-> 0, end |-> 0, since |-> 0, asked |-> 0]

Pending == mtime >= cmpHi * Base + cmpLo

-----------------------------------------------------------------------------
(* alt_niosv_mtime_get, as a step from label to label on a context's locals. *)

\* Mutant: the high word is not read again.
SameHighAlways(l) == TRUE

SameHigh(l) == Hi(mtime) = l.hi

ReadHigh(l) == [l EXCEPT !.hi = Hi(mtime)]
ReadLow(l) == [l EXCEPT !.lo = Lo(mtime)]
ReadValue(l) == [NoLoc EXCEPT !.value = l.hi * Base + l.lo, !.from = l.from]

\* The labels of a read, in order, and where a context goes from each.
GetStep(at, to, l, l2, after) ==
  \/ at = "high" /\ to = "low" /\ l2 = ReadHigh(l)
  \/ at = "low" /\ to = "check" /\ l2 = ReadLow(l)
  \/ at = "check" /\ ~SameHigh(l) /\ to = "high" /\ l2 = l
  \/ at = "check" /\ SameHigh(l) /\ to = after /\ l2 = ReadValue(l)

-----------------------------------------------------------------------------
(* alt_niosv_mtimecmp_set(time). *)

\* Mutant: the high word keeps its value while the low one is written.
GuardNone(h) == h

Guard(h) == Base - 1

SetStep(at, to, t, after) ==
  \/ at = "set1" /\ to = "set2" /\ cmpHi' = Guard(cmpHi) /\ goal' = t /\ UNCHANGED cmpLo
  \/ at = "set2" /\ to = "set3" /\ cmpLo' = Lo(t) /\ UNCHANGED <<cmpHi, goal>>
  \/ at = "set3" /\ to = after /\ cmpHi' = Hi(t) /\ UNCHANGED <<cmpLo, goal>>

\* Mutant: the next interrupt is due at once.
NextTimeNow(l) == l.value

NextTime(l) == l.value + DELTA

cmp == <<cmpLo, cmpHi, goal>>

-----------------------------------------------------------------------------
(* The main program runs while the handler does not. *)

Interrupt == mie /\ Pending

\* alt_niosv_mtimecmp_interrupt_init.
InitGet == /\ isr = "none" /\ ~mie
           /\ \E to \in {"high", "low", "check", "set1"} :
                GetStep(main, to, mloc, mloc', "set1") /\ main' = to
           /\ UNCHANGED <<mtime, cmp, mie, isr, iloc, sleep>>

InitSet == /\ isr = "none" /\ ~mie
           /\ \E to \in {"set2", "set3", "enable"} :
                SetStep(main, to, NextTime(mloc), "enable") /\ main' = to
           /\ UNCHANGED <<mtime, mie, isr, mloc, iloc, sleep>>

InitEnable == /\ main = "enable" /\ main' = "run" /\ mie' = TRUE /\ mloc' = NoLoc
              /\ UNCHANGED <<mtime, cmp, isr, iloc, sleep>>

(* alt_busy_sleep, with interrupts enabled. *)

\* CPU_FREQUENCY_MHZ * us, in a word.
EndTime(us) == us % Base

\* Mutant: the time stamp counts from reset.
ElapsedSinceReset(s, t) == t

\* alt_timestamp.
Elapsed(s, t) == t - s.offset

ReadTime == main' = "high" /\ mloc' = NoLoc

MainCall == /\ isr = "none" /\ main = "run"
            /\ \E us \in Sleeps :
                 sleep' = [Awake EXCEPT !.end = EndTime(us), !.since = mtime, !.asked = us]
            /\ ReadTime
            /\ UNCHANGED <<mtime, cmp, mie, isr, iloc>>

MainGet == /\ isr = "none" /\ mie
           /\ \E to \in {"high", "low", "check", "got"} :
                GetStep(main, to, mloc, mloc', "got") /\ main' = to
           /\ UNCHANGED <<mtime, cmp, mie, isr, iloc, sleep>>

\* alt_timestamp_start, then the loop on alt_timestamp.
MainGot == /\ isr = "none" /\ main = "got"
           /\ \/ /\ ~sleep.set /\ ReadTime
                 /\ sleep' = [sleep EXCEPT !.set = TRUE, !.offset = mloc.value]
              \/ /\ sleep.set /\ Elapsed(sleep, mloc.value) < sleep.end
                 /\ ReadTime /\ UNCHANGED sleep
           /\ UNCHANGED <<mtime, cmp, mie, isr, iloc>>

MainReturn == /\ isr = "none" /\ main = "got"
              /\ sleep.set /\ Elapsed(sleep, mloc.value) >= sleep.end
              /\ main' = "run" /\ mloc' = NoLoc /\ sleep' = Awake
              /\ UNCHANGED <<mtime, cmp, mie, isr, iloc>>

Main == InitGet \/ InitSet \/ InitEnable \/ MainCall \/ MainGet \/ MainGot \/ MainReturn

-----------------------------------------------------------------------------
(* The timer interrupt, alt_niosv_timer_sc_isr. *)

IsrEnter == /\ isr = "none" /\ Interrupt
            /\ isr' = "high" /\ iloc' = [NoLoc EXCEPT !.from = mtime]
            /\ UNCHANGED <<mtime, cmp, mie, main, mloc, sleep>>

IsrGet == /\ \E to \in {"high", "low", "check", "set1"} :
               GetStep(isr, to, iloc, iloc', "set1") /\ isr' = to
          /\ UNCHANGED <<mtime, cmp, mie, main, mloc, sleep>>

IsrSet == /\ \E to \in {"set2", "set3", "tick"} :
               /\ SetStep(isr, to, NextTime(iloc), "tick") /\ isr' = to
               /\ iloc' = IF to = "tick" THEN NoLoc ELSE iloc
          /\ UNCHANGED <<mtime, mie, main, mloc, sleep>>

IsrReturn == /\ isr = "tick" /\ isr' = "none"
             /\ UNCHANGED <<mtime, cmp, mie, main, mloc, iloc, sleep>>

Advance == /\ mtime < MaxTime /\ mtime' = mtime + 1
           /\ UNCHANGED <<cmp, mie, main, isr, mloc, iloc, sleep>>

\* mtimecmp may hold anything before the first write, also a time that is past.
InitTimer == /\ mtime = 0 /\ cmpLo \in Word /\ cmpHi \in Word /\ mie = FALSE
             /\ goal = 0 /\ sleep = Awake
             /\ main = "high" /\ isr = "none" /\ mloc = NoLoc /\ iloc = NoLoc

-----------------------------------------------------------------------------

TimerOK == /\ mtime \in 0..MaxTime /\ cmpLo \in Word /\ cmpHi \in Word
          /\ mie \in BOOLEAN /\ goal \in 0..(MaxTime + DELTA)
          /\ {mloc.hi, mloc.lo, iloc.hi, iloc.lo} \subseteq Word

\* What a read of the time returns was the time at some instant of the read, or
\* of the sleep it is for, although a carry, or the handler, comes between its words.
ReadIsWhole == /\ main = "got" => mloc.value \in sleep.since..mtime
               /\ isr \in {"set1", "set2", "set3"} => iloc.value \in iloc.from..mtime

\* No interrupt is raised before the time asked for, at no point of the writing
\* of the two words.
NeverEarly == mie /\ Pending => mtime >= goal

\* A sleep lasts as long as was asked, whatever carries and handlers come
\* between its readings of the time.
SleepsEnough ==
  [][main = "got" /\ main' = "run" => mtime >= sleep.since + sleep.asked]_timer
=============================================================================
