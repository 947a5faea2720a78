SPECIFICATION Spec
CONSTANTS
  Budgets <- MCBudgets
  Cap = 1
  MaxCalls = 3
  MaxMessages = 1
  MaxFailures = 2
INVARIANTS OneAtATime GivesUpOnBudget
PROPERTIES SilentAfterStop MovesOn
CHECK_DEADLOCK FALSE
