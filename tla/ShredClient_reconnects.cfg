SPECIFICATION Spec
CONSTANTS
  Budgets <- MCBudgets
  Cap = 1
  MaxCalls = 3
  MaxMessages = 1
  MaxFailures = 2
INVARIANT ReconnectsUsed
CHECK_DEADLOCK FALSE
