SPECIFICATION Spec
CONSTANTS
  Keys = {k1, k2}
  MaxCalls = 3
  MaxDepth = 3
  MaxLost = 1
  MaxUnknown = 0
  LosesTail = FALSE
SYMMETRY Symmetry
INVARIANTS
  RouterTrue
CHECK_DEADLOCK FALSE
