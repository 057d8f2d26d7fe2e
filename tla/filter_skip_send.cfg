CONSTANTS
  Cap = 2
  MaxReq = 2
  MaxResp = 3
  Batch = 2
  Limit = 2
  Plans <- SkipSendPlans
SPECIFICATION Spec
INVARIANTS
  AnsweredNotForwarded
