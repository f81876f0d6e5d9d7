SPECIFICATION Spec
CONSTANTS
  Missing = Missing
  PartSize = 4
  Microblocks <- MCMicroblocks
  FileOf <- MCFileOf
  SizeOf <- MCSizeOf
  DayLength = 2
  EndlessBase = 100
  GenesisTime = 2
  MaxHeight = 2
  MaxTime = 4
  MaxTxs = 2
  MaxCrashes = 2
  CrashPoints <- Anywhere
  BatchMayFail = TRUE
INVARIANTS
  TypeOK
  FilesCoverTables
  PlacesDisjoint
  TablesMatchBlocks
PROPERTIES
  CommittedBytesImmutable
CHECK_DEADLOCK FALSE
