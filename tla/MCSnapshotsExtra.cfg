SPECIFICATION Spec
CONSTANTS
  Missing = Missing
  Torn = Torn
  FileOfBlock <- MCFileOfBlock
  Period = 1
  MaxSnapshots = 1
  ChunkSize = 2
  BatchSize = 2
  MaxHeight = 3
  MaxCrashes = 0
INVARIANTS
  AtMostMaxSnapshots
CHECK_DEADLOCK FALSE
