SPECIFICATION Spec
CONSTANTS
  BUF_LEN = 3
  WriteDepth = 2
  ReadDepth = 2
  WriteThreshold = 1
  ReadThreshold = 1
  InactiveMax = 2
  Timeouts <- MCTimeouts
  MaxCount = 2
INVARIANT TxNeverStranded
PROPERTIES RxIsPipe TxIsPipe ReaderWakes WriterReturns
