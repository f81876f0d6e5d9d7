SPECIFICATION FairSpec
CONSTANTS
  Missing = Missing
  Torn = Torn
  FileOfBlock <- MCFileOfBlock
  Period = 1
  MaxSnapshots = 1
  ChunkSize = 2
  BatchSize = 2
  MaxHeight = 3
  MaxCrashes = 2
INVARIANTS
  TypeOK
  ListedComplete
  AtMostOneExtra
  OffsetsMatch
  ImportFaithful
PROPERTIES
  NodeJoins
CHECK_DEADLOCK FALSE
