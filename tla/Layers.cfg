SPECIFICATION Spec

CONSTANTS
  Chains <- MCChains
  Codes = {204, 404}
  MaxLayers = 6
  MaxWrites = 3
  ErrAbortHandler = ErrAbortHandler
  OtherPanic = OtherPanic
  None = None

INVARIANTS
  BodyDecodes
  FailureReachesClient
  ContextRestored
  LogTruthful
  WritersReachWire

\* The request has been served.
CHECK_DEADLOCK FALSE
