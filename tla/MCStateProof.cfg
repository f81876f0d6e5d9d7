SPECIFICATION Spec
CONSTANTS
  KeyLength = 4
  Owner = Owner
  FeesAccount = FeesAccount
  Unit = 2
  Nodes = {1, 2, 3}
  IdOf <- MCIdOf
  GenesisTxs <- MCGenesisTxs
  GenesisPowers <- MCGenesisPowers
  Blocks <- MCBlocks
  MaxHeight = 4
  MaxFaults = 1
  ProvenMicroblocks <- MCProvenMicroblocks
  ProvenAccounts <- MCProvenAccounts
  MaxQueries = 1
INVARIANTS
  ProofsGenuine
  UndisturbedProofServed
  SameBlockSameHash
  VotingPowersCurrent
  MisbehaviourAttributed
  HaltsExplained
PROPERTIES
  RadixHoldsStates
  MerkleRootsRebuilt
  IndexerMissesNothing
CHECK_DEADLOCK FALSE
