SPECIFICATION Spec
CONSTANTS
  Base = 4
  DELTA = 2
  MaxTime = 5
  Sleeps = {2}
  Alarm = {a, b}
  Head = head
  MaxPeriod = 1
  CallbackStops = FALSE
INVARIANTS ListIsExact NoneOverdue ReadIsWhole NeverEarly
PROPERTIES TickReturns AlarmNotEarly SleepsEnough
CHECK_DEADLOCK FALSE
