SPECIFICATION FairSpec
CONSTANTS
  Missing = Missing
  PartSize = 4
  Microblocks <- MCMicroblocks
  FileOf <- MCFileOf
  SizeOf <- MCSizeOf
  DayLength = 2
  EndlessBase = 100
  GenesisTime = 2
  MaxHeight = 2
  MaxTime = 4
  MaxTxs = 2
  MaxCrashes = 2
  CrashPoints <- OutsideFlush
  BatchMayFail = FALSE
INVARIANTS
  CommittedReadable
  StorageHashAgrees
  NoBlockMissing
PROPERTIES
  DecidedIsStored
CHECK_DEADLOCK FALSE
