SPECIFICATION FairSpec

CONSTANTS
  Requests = {r1, r2}
  Timeouts = {0, 1, 3}
  DefaultShutdownTimeout = 2
  MaxTime = 4

INVARIANTS
  ErrorsReported
  GracefulShutdown

PROPERTIES
  SignalEndsServer
  GoroutineEnds

\* ListenAndServe has returned.
CHECK_DEADLOCK FALSE
