SPECIFICATION Spec
CONSTANTS
  Missing = Missing
  EscrowIds <- MCEscrowIds
  Nodes <- MCNodes
  StandardAccounts <- MCStandardAccounts
  FeesAccount = "fees"
  PublicKeys <- MCPublicKeys
  OwnerOf <- MCOwnerOf
  MinStake = 1
  MaxStake = 2
  UnstakingDelay = 1
  SlashingDelay = 2
  Governance = "b"
  Microblocks <- MCMicroblocks
  Body <- MCBody
  VbOf <- MCVbOf
  PositionOf <- MCPositionOf
  SizeOf <- MCSizeOf
  GenesisLedger <- MCGenesisLedger
  MaxBlockSize = 3
  ProtocolLimit = 2
  ConfigLimit = 3
  MaxHeight = 2
  MaxDay = 1
INVARIANTS
  AcceptedTxsSucceed
  NothingLostOnChain
  ChainExtendsVirtualBlockchains
  UndisturbedProposalAccepted
CHECK_DEADLOCK FALSE
