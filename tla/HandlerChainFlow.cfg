SPECIFICATION FairSpec

CONSTANTS
  Requests = {r1}
  Contexts = {c1}
  Chains <- LongChains
  Codes = {201, 404}
  Accepted = {0, 1}
  AbortIndex = 1073741824
  MaxNextCalls = 2
  MaxWrites = 1
  None = None

INVARIANTS
  InOrder
  FailureAnswered

PROPERTIES
  AbortStopsChain
  ErrorStopsUnlessSwallowed
  RequestTerminates

\* Every request has been served and nothing lies in the pool.
CHECK_DEADLOCK FALSE
