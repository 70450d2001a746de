SPECIFICATION Spec

CONSTANTS
  Handlers = {m1, m2}
  Prefixes <- MCPrefixes
  Suffixes <- MCSuffixes
  MaxSpare = 1
  MaxLen = 2
  MaxGroups = 2
  MaxRoutes = 1
  MaxArrays = 4
  None = None

SYMMETRY Symmetry

INVARIANTS
  MiddlewareAsDeclared
  RoutesAsDeclared

\* Setup ends.
CHECK_DEADLOCK FALSE
