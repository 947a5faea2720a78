SPECIFICATION Spec
CONSTANTS
  Log <- ShortChain
  IngressSize = 2
  DedupeSlots = 1
  Configs <- AllConfigs
  MaxFailures = 2
  MaxParseErrors = 1
  MaxRefusals = 1
  MaxPings = 1
INVARIANTS
  DeliveredOnce
  DeliveredInOrder
  GapReported
  DrainIsComing
  QuietBetweenStreams
  StatusTruthful
PROPERTIES
  CancelEnds
  Recovers
  ImplementsStreamTask
\* a task cancelled while it writes its request may park for ever: see
\* DexSubscription_join.cfg
CHECK_DEADLOCK FALSE
