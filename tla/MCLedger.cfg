SPECIFICATION Spec
CONSTANTS
  Missing = Missing
  EscrowIds <- MCEscrowIds
  Nodes <- MCNodes
  StandardAccounts <- MCStandardAccounts
  FeesAccount = "fees"
  PublicKeys <- MCPublicKeys
  OwnerOf <- MCOwnerOf
  MinStake = 1
  MaxStake = 2
  UnstakingDelay = 1
  SlashingDelay = 2
  Governance = "b"
  Microblocks <- MCMicroblocks
  GenesisLedger <- MCGenesisLedger
  MaxDay = 3
  MaxHeight = 3
  MaxTxs = 4
INVARIANTS
  TypeOK
  TokensConserved
  SpendableNonNegative
  EscrowRowsMatchLocks
  LocksAreIndexed
  NoHandlerException
PROPERTIES
  NothingOverdue
  FeesFullyDispatched
CHECK_DEADLOCK FALSE
