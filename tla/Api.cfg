SPECIFICATION Spec

CONSTANTS
  Types <- MCTypes
  Decl <- MCDecl
  timeType = "Time"
  Paths <- MCPaths
  Methods = {"GET", "POST"}
  Documented = {"User", "User2", "Team", "Filter"}
  Statuses = {200, 404}
  BindTargets = {"Filter", "User", "users"}
  Requests <- MCRequests
  MaxRoutes = 2
  MaxMetadata = 2
  None = None

INVARIANTS
  DocumentFaithful
  QueryAgrees
  BindExact

\* Setup ends, and so does a request.
CHECK_DEADLOCK FALSE
