CONSTANTS
  Cap = 2
  MaxBytes = 5
  MaxChunk = 3
  Batch = 3
  MaxRead = 2
  Limits = {0, 2, 3}
SPECIFICATION FairSpec
INVARIANTS
  TypeOK
  InOrder
  LimitExact
PROPERTIES
  ImplementsStream
  ReadReturns
  GivingUpFreesSender
