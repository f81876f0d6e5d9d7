SPECIFICATION CachedSpec
CONSTANTS
  Missing = Missing
  Keys <- MCKeys
  Values <- MCValues
  BatchMayBeLost = TRUE
INVARIANTS
  CacheConsistent
  KeysAndRowsAgree
  LookupDiffersOnlyOnDeleted
PROPERTIES
  ImplementsStore
