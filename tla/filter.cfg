CONSTANTS
  Cap = 2
  MaxReq = 5
  MaxResp = 3
  Batch = 3
  Limit = 2
  Plans <- FilterPlans
SPECIFICATION FairSpec
INVARIANTS
  TypeOK
  BodyComplete
  RespBodyComplete
  SettledOnce
  NothingStranded
  RwNotShared
PROPERTIES
  MutationsInTime
  ImplementsContract
  WorkerReturns
  GoroutineExits
  RequestSettled
  ResponseSettled
