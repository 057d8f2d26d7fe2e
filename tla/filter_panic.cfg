CONSTANTS
  Cap = 2
  MaxReq = 2
  MaxResp = 3
  Batch = 2
  Limit = 2
  Plans <- PanicPlans
SPECIFICATION FairSpec
PROPERTIES
  ResponseSettled
