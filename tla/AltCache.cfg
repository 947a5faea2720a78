SPECIFICATION Spec
CONSTANTS
  a = a
  b = b
  c = c
  Tables = {a, b, c}
  MaxAddresses <- MCMaxAddresses
  Capacity = 2
  BatchSize = 2
  Reserved = 1
  Transactions <- MCTransactions
  Preloads <- MCPreloads
  MaxGeneration = 3
  MaxFailures = 1
INVARIANT CacheSound
PROPERTIES NothingTakenBack MissesLoaded SnapshotsCatchUp
CHECK_DEADLOCK FALSE
