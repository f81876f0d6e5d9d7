SPECIFICATION Spec
CONSTANTS
  Missing = Missing
  EscrowIds <- MCEscrowIds
  Nodes <- MCNodes
  StandardAccounts <- MCStandardAccounts
  FeesAccount = "fees"
  PublicKeys <- MCPublicKeys
  OwnerOf <- MCOwnerOf
  MinStake = 1
  MaxStake = 2
  UnstakingDelay = 1
  SlashingDelay = 2
  Governance = "b"
  Microblocks <- MCAgentMicroblocks
  GenesisLedger <- MCGenesisLedger
  MaxDay = 1
  MaxHeight = 2
  MaxTxs = 3
INVARIANTS
  AgentCanSettle
CHECK_DEADLOCK FALSE
