CONSTANTS
  Cap = 1
  MaxCalls = 2
  MaxChunks = 1
SPECIFICATION FairSpec
PROPERTIES
  ExitsAfterDisconnect
\* The stream ends with its goroutine done, or parked in Close.
CHECK_DEADLOCK FALSE
