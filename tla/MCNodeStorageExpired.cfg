SPECIFICATION Spec
CONSTANTS
  Missing = Missing
  PartSize = 4
  Microblocks <- MCMicroblocks
  FileOf <- MCFileOf
  SizeOf <- MCSizeOf
  DayLength = 2
  EndlessBase = 100
  GenesisTime = 2
  MaxHeight = 2
  MaxTime = 4
  MaxTxs = 2
  MaxCrashes = 0
  CrashPoints <- Nowhere
  BatchMayFail = FALSE
INVARIANTS
  ExpiredFilesRemoved
CHECK_DEADLOCK FALSE
