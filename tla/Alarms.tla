------------------------------- MODULE Alarms -------------------------------
(***************************************************************************)
(* The alarms of the HAL (alt_tick.c, alt_alarm_start.c, alt_llist.h): a   *)
(* doubly linked list that alt_tick() walks at interrupt level, calling    *)
(* back the alarms that are due; callbacks may start and stop alarms.      *)
(* The main program starts and stops alarms with interrupts disabled, so   *)
(* between two ticks; a callback is one step of the walk.                  *)
(***************************************************************************)
EXTENDS Integers

CONSTANTS Alarm,          \* alarm structures of the program
          Head,           \* alt_alarm_list
          MaxPeriod,      \* bound: ticks asked for
          CallbackStops   \* may a callback stop another alarm

ASSUME AlarmsAssumption == /\ Head \notin Alarm
                           /\ MaxPeriod \in Nat \ {0}
                           /\ CallbackStops \in BOOLEAN

Node == Alarm \cup {Head}

VARIABLES next, previous,   \* the links; one that is not in the list points to
                            \* itself, as a stopped one does
          time, nticks,
          alarm,            \* where alt_tick is; Head when it does not run
          walking,
          registered        \* history: alarms started, and neither stopped
                            \* nor ended by a callback that returned zero

links == <<next, previous>>
alarms == <<links, time, nticks, alarm, walking, registered>>

-----------------------------------------------------------------------------
(* alt_llist_insert and alt_llist_remove, on a pair of link functions. *)

Links == [next |-> next, previous |-> previous]

Insert(L, e) ==
  [next |-> [L.next EXCEPT ![e] = L.next[Head], ![Head] = e],
   previous |-> [L.previous EXCEPT ![e] = Head, ![L.next[Head]] = e]]

\* Mutant: the way back is not repaired.
RemoveForward(L, e) ==
  [next |-> [L.next EXCEPT ![L.previous[e]] = L.next[e], ![e] = e],
   previous |-> [L.previous EXCEPT ![e] = e]]

Remove(L, e) ==
  [next |-> [L.next EXCEPT ![L.previous[e]] = L.next[e], ![e] = e],
   previous |-> [L.previous EXCEPT ![L.next[e]] = L.previous[e], ![e] = e]]

SetLinks(L) == next' = L.next /\ previous' = L.previous

\* At least nt whole ticks from now.
Due(nt) == nt + nticks + 1

-----------------------------------------------------------------------------

\* alt_alarm_start and alt_alarm_stop, called by the main program.  An alarm is
\* not started twice; one that was stopped may be stopped again, which changes
\* nothing.  One that was never started has null links, which alt_alarm_stop would
\* follow: the caller's error, here the same as stopping it again.
Start(a, nt) ==
  /\ ~walking /\ a \notin registered
  /\ time' = [time EXCEPT ![a] = Due(nt)]
  /\ SetLinks(Insert(Links, a))
  /\ registered' = registered \cup {a}
  /\ UNCHANGED <<nticks, alarm, walking>>

Stop(a) ==
  /\ ~walking
  /\ SetLinks(Remove(Links, a))
  /\ registered' = registered \ {a}
  /\ UNCHANGED <<time, nticks, alarm, walking>>

\* alt_tick begins.
TickBegin ==
  /\ ~walking
  /\ walking' = TRUE /\ nticks' = nticks + 1 /\ alarm' = next[Head]
  /\ UNCHANGED <<links, time, registered>>

\* Mutant: an alarm is called back a tick late.
Late(a) == time[a] < nticks

Expired(a) == time[a] <= nticks

\* The walk passes an alarm that is not due.
Pass == /\ walking /\ alarm # Head /\ ~Expired(alarm)
        /\ alarm' = next[alarm]
        /\ UNCHANGED <<links, time, nticks, walking, registered>>

\* What a callback may do besides: nothing, start an alarm, stop an alarm.  The
\* three give the links, the times and the registered alarms it leaves.
Effects ==
  {[links |-> Links, time |-> time, registered |-> registered]}
  \cup {[links |-> Insert(Links, a), time |-> [time EXCEPT ![a] = Due(0)],
         registered |-> registered \cup {a}] : a \in Alarm \ registered}
  \cup {[links |-> Remove(Links, a), time |-> time, registered |-> registered \ {a}]
         : a \in IF CallbackStops THEN Alarm ELSE {}}

Again(t, r) == t + r

\* Mutant: the next alarm is read after the call.
FollowingAfter(a) == next'[a]

Following(a) == next[a]

\* A callback, then what alt_tick does with its result; the next alarm was read
\* before the call.
CallBack(r) ==
  /\ walking /\ alarm # Head /\ Expired(alarm)
  /\ \E e \in Effects :
       IF r = 0
       THEN /\ SetLinks(Remove(e.links, alarm))
            /\ time' = e.time
            /\ registered' = e.registered \ {alarm}
       ELSE /\ SetLinks(e.links)
            /\ time' = [e.time EXCEPT ![alarm] = Again(@, r)]
            /\ registered' = e.registered
  /\ alarm' = Following(alarm)
  /\ UNCHANGED <<nticks, walking>>

TickEnd == /\ walking /\ alarm = Head
           /\ walking' = FALSE
           /\ UNCHANGED <<links, time, nticks, alarm, registered>>

InitAlarms == /\ next = [n \in Node |-> n] /\ previous = [n \in Node |-> n]
              /\ time = [a \in Alarm |-> 0] /\ nticks = 0
              /\ alarm = Head /\ walking = FALSE /\ registered = {}

-----------------------------------------------------------------------------

AlarmsOK ==
  /\ next \in [Node -> Node] /\ previous \in [Node -> Node]
  /\ time \in [Alarm -> Nat] /\ nticks \in Nat
  /\ alarm \in Node /\ walking \in BOOLEAN /\ registered \subseteq Alarm

Listed == registered \cup {Head}

\* The links lead from the head to no node outside the set.
Closed(S) == Head \in S /\ \A n \in S : next[n] \in S

\* The list holds the registered alarms and no other, each once, and can be
\* followed both ways, whatever callbacks do to it during a walk.
ListIsExact == /\ Closed(Listed)
               /\ \A S \in SUBSET Listed : Closed(S) => S = Listed
               /\ \A n \in Listed : previous[next[n]] = n
               /\ \A a \in Alarm \ registered : next[a] = a /\ previous[a] = a

\* No tick passes over an alarm that was due, and none calls it back twice:
\* between ticks every registered alarm lies in the future.
NoneOverdue == ~walking => \A a \in registered : time[a] > nticks
=============================================================================
