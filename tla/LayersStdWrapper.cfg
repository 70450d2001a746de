SPECIFICATION Spec

CONSTANTS
  Chains <- WrappedChain
  Codes = {404}
  MaxLayers = 6
  MaxWrites = 1
  ErrAbortHandler = ErrAbortHandler
  OtherPanic = OtherPanic
  None = None

INVARIANTS
  WritersReachWire

\* The request has been served.
CHECK_DEADLOCK FALSE
