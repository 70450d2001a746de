SPECIFICATION Spec

CONSTANTS
  Chains <- CompressedChain
  Codes = {404}
  MaxLayers = 6
  MaxWrites = 1
  ErrAbortHandler = ErrAbortHandler
  OtherPanic = OtherPanic
  None = None

INVARIANTS
  HTTPErrorRendered

\* The request has been served.
CHECK_DEADLOCK FALSE
