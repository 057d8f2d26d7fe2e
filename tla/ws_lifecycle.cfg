CONSTANTS
  MaxFrames = 1
  Last = 2
  Exporting = {1, 2}
SPECIFICATION LFairSpec
INVARIANTS
  DeliveredIsRecorded
  RecordNotTorn
  FlagMeansExporter
  SessionCounted
PROPERTIES
  SessionEnds
  PumpsEnd
