CONSTANTS
  Cap = 2
  MaxReq = 4
  MaxResp = 3
  Batch = 2
  Limit = 2
  Plans <- UnreadPlans
SPECIFICATION FairSpec
PROPERTIES
  WorkerReturns
\* The worker stays blocked in the callback: nothing else can happen.
CHECK_DEADLOCK FALSE
