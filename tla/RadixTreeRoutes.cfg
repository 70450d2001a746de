SPECIFICATION Spec

CONSTANTS
  Patterns <- AllPatterns
  Paths <- MCPaths
  MaxRoutes = 4
  None = None

INVARIANTS
  LookupCorrect
  PanicsOnlyOnError
  TreeShape
  NoRedirectLoop

\* Registration ends.
CHECK_DEADLOCK FALSE
