SPECIFICATION Spec
CONSTANTS
  Base = 4
  DELTA = 2
  MaxTime = 9
  Sleeps = {}
  Alarm = {a, b}
  Head = head
  MaxPeriod = 2
  CallbackStops = TRUE
PROPERTY StoppedIsSilent
CHECK_DEADLOCK FALSE
