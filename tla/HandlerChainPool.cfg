SPECIFICATION Spec

CONSTANTS
  Requests = {r1, r2}
  Contexts = {c1, c2}
  Chains <- LoneHandler
  Codes = {}
  Accepted = {1}
  AbortIndex = 1073741824
  MaxNextCalls = 0
  MaxWrites = 1
  None = None

SYMMETRY Symmetry

INVARIANTS
  TypeOK
  ContextExclusive
  Isolation
  WriterMatchesWire

\* Every request has been served and nothing lies in the pool.
CHECK_DEADLOCK FALSE
