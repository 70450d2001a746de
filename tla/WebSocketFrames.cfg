SPECIFICATION FairSpec

CONSTANTS
  Handler = h
  Writers = {w}
  DataTypes = {2}
  Masks = {TRUE}
  ReadSizes = {125, 33554433}
  WriteSizes <- MCWriteSizes
  maxPayload = 33554432
  MaxFrames = 3
  MaxInFlight = 1
  MaxWrites = 1
  None = None

INVARIANTS
  MessagesInOrder
  OutputCorrect
  FailuresHaveCauses

PROPERTIES
  WritesFinish

\* The connection has been closed.
CHECK_DEADLOCK FALSE
