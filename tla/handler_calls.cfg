CONSTANTS
  Cap = 1
  MaxCalls = 4
  MaxChunks = 3
SPECIFICATION FairSpec
INVARIANTS
  WireWellFormed
  FlushMeansSent
PROPERTIES
  CallsReturn
  CloseReturns
\* The stream ends with its goroutine done, or parked in Close.
CHECK_DEADLOCK FALSE
