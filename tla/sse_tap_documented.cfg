CONSTANTS
  HeadSizes = {2}
  TailSizes = {4}
  MaxChunk = 7
  MaxBytes = 7
  Streams <- UsageThrice
SPECIFICATION TSpec
INVARIANTS
  DocumentedUsage
