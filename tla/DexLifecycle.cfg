SPECIFICATION Spec
CONSTANTS
  MaxCalls = 3
  MaxCancels = 1
  MaxFailures = 1
INVARIANTS OneDexTask UpdateFindsActive FiltersReachServer DisconnectSilences ConnectedMeansReady
PROPERTY CallsAnswered
CHECK_DEADLOCK FALSE
