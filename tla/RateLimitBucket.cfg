SPECIFICATION Spec

CONSTANTS
  Requests = {r1, r2}
  Keys = {k1}
  Cost = 2
  BurstConfig = 2
  TicksPerSecond = 3
  sweepInterval = 6
  MaxDelay = 1
  MaxTime = 9
  None = None

INVARIANTS
  TypeOK
  RateBound

PROPERTIES
  RetryAfterHonest
  ImplementsContract

\* The clock stops at MaxTime.
CHECK_DEADLOCK FALSE
