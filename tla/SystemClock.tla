---------------------------- MODULE SystemClock ----------------------------
(***************************************************************************)
(* The system clock: the machine timer whose interrupt calls alt_tick,     *)
(* which walks the alarms, and one main program that reads the time and    *)
(* starts and stops alarms.  alt_tick runs at interrupt level while mtime  *)
(* goes on.                                                                *)
(***************************************************************************)
EXTENDS Mtimer, Alarms

VARIABLE promise        \* history: for each alarm, the time before which it
                        \* is not to be called back
vars == <<timer, alarms, promise>>

\* The program, between two interrupts and with the clock set up.
MainRuns == main = "run" /\ isr = "none"

StartAlarm(a, nt) == /\ MainRuns /\ Start(a, nt)
                     /\ promise' = [promise EXCEPT ![a] = mtime + nt * DELTA]
                     /\ UNCHANGED timer

StopAlarm(a) == /\ MainRuns /\ Stop(a) /\ promise' = [promise EXCEPT ![a] = 0]
                /\ UNCHANGED timer

TickStarts == isr = "tick" /\ TickBegin /\ UNCHANGED <<timer, promise>>

Walk == Pass /\ UNCHANGED <<timer, promise>>

\* What a callback asks for counts from the tick it is made in.
CallsBack(r) ==
  /\ CallBack(r) /\ UNCHANGED timer
  /\ promise' = [a \in Alarm |-> IF a \notin registered' THEN 0
                                 ELSE IF a = alarm THEN goal + (r - 1) * DELTA
                                 ELSE IF a \notin registered THEN goal
                                 ELSE promise[a]]

TickEnds == /\ TickEnd /\ IsrReturn /\ UNCHANGED promise

\* alt_niosv_timer_sc_isr, in which alt_tick is called once.
TimerSteps == (IsrEnter \/ IsrGet \/ IsrSet) /\ UNCHANGED <<alarms, promise>>
TickSteps == \/ TickStarts \/ Walk \/ TickEnds
             \/ \E r \in 0..MaxPeriod : CallsBack(r)

Init == InitTimer /\ InitAlarms /\ promise = [a \in Alarm |-> 0]

\* A promise is forgotten when its time has come.
TimePasses ==
  /\ Advance /\ UNCHANGED alarms
  /\ promise' = [a \in Alarm |-> IF promise[a] <= mtime' THEN 0 ELSE promise[a]]

Next == \/ TimePasses
        \/ Main /\ UNCHANGED <<alarms, promise>>
        \/ \E a \in Alarm : StopAlarm(a) \/ \E nt \in 0..MaxPeriod : StartAlarm(a, nt)
        \/ TimerSteps \/ TickSteps

\* The interrupt handler, once entered, runs.
Spec == Init /\ [][Next]_vars /\ WF_vars(TimerSteps) /\ WF_vars(TickSteps)

-----------------------------------------------------------------------------
(* Properties *)

\* alt_tick comes to an end, whatever its callbacks start and end.
TickReturns == walking ~> ~walking

\* An alarm is never called back before the ticks asked for have passed in real
\* time, though the first of them may come at once and others are lost.
AlarmNotEarly ==
  [][\A r \in 0..MaxPeriod : CallsBack(r) => mtime >= promise[alarm]]_vars

\* alt_tick.c:61-64: alt_alarm_stop removes an alarm, so that it is no longer
\* called back.
StoppedIsSilent ==
  [][\A r \in 0..MaxPeriod : CallsBack(r) => alarm \in registered]_vars
=============================================================================
