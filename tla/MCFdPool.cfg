SPECIFICATION Spec
CONSTANTS
  ALT_MAX_FD = 6
  Devices = {null, uart, other}
  Null = null
  Console = uart
  NoDev = NoDev
  Access = {"O_RDONLY", "O_WRONLY"}
INVARIANTS PoolIsExact OneLocker RightsAsAsked
PROPERTY OpenRespectsLock
