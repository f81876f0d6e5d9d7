SPECIFICATION Spec
CONSTANTS
  Missing = Missing
  PartSize = 4
  Microblocks <- MCMicroblocks
  FileOf <- MCFileOf
  SizeOf <- MCSizeOf
  DayLength = 2
  EndlessBase = 100
  GenesisTime = 2
  MaxHeight = 2
  MaxTime = 4
  MaxTxs = 2
  MaxCrashes = 1
  CrashPoints <- Anywhere
  BatchMayFail = FALSE
INVARIANTS
  CommittedReadable
CHECK_DEADLOCK FALSE
