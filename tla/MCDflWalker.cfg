SPECIFICATION Spec
CONSTANTS
  Dfh <- MCDfh
  Lists <- MCLists
  DFH_PARENT_STACK_INCR_SIZE = 4
INVARIANTS TableMatchesList StackHolds NoLeak
CHECK_DEADLOCK FALSE
