SPECIFICATION Spec
CONSTANTS
  Log <- ShortChain
  IngressSize = 2
  DedupeSlots = 1
  Configs <- Refusing
  MaxFailures = 1
  MaxParseErrors = 0
  MaxRefusals = 0
  MaxPings = 1
PROPERTIES
  RejectionCounted
CHECK_DEADLOCK FALSE
