SPECIFICATION Spec
CONSTANTS
  Keys = {k1, k2}
  MaxCalls = 3
  MaxDepth = 3
  MaxLost = 2
  MaxUnknown = 1
  LosesTail = TRUE
SYMMETRY Symmetry
INVARIANTS
  NeverMixed
  NothingVanishes
  RouterTrue
  CreatePrecedesTrades
  ExactWhenComplete
CHECK_DEADLOCK FALSE
