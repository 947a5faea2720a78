SPECIFICATION Spec
CONSTANTS
  MaxSize = 3
  Strategies = {"drop-newest", "drop-oldest"}
  MaxPushes = 8
  MaxReads = 4
INVARIANTS
  ServedInOrder
  EveryReadAnswered
PROPERTY
  ImplementsFifo
\* the last push and the last read may be behind us
CHECK_DEADLOCK FALSE
