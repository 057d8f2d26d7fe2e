CONSTANTS
  HeadSizes = {0, 2, 3}
  TailSizes = {1, 2, 3}
  MaxChunk = 7
  MaxBytes = 8
  Streams <- TapStreams
SPECIFICATION TSpec
INVARIANTS
  TypeOK
  HeadIsBeginning
  UsageExtracted
PROPERTIES
  TailIsEnd
