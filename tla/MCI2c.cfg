SPECIFICATION Spec
CONSTANTS
  Depth = 2
  Calls <- MCCalls
  MaxRetry = 1
INVARIANTS
  HonestSuccess
  HonestStatus
  RestsClean
  TimeoutHasCause
PROPERTY IrqEnds
CHECK_DEADLOCK TRUE
