SPECIFICATION Spec

CONSTANTS
  Methods = {"GET", "HEAD", "OPTIONS", "POST", "COPY"}
  Patterns <- MCPatterns
  SubPatterns <- MCSubPatterns
  MountPrefixes <- MCMountPrefixes
  Paths <- MCPaths
  MaxRoutes = 2
  None = None
  EmptyTree <- MCEmptyTree
  TreeAdd <- MCTreeAdd
  TreeValue <- MCTreeValue
  Matches <- MCMatches
  Built <- MCBuilt

INVARIANTS
  HeadFollowsGet
  AllowIsExact
  MountIsTransparent
  RedirectsEnd
  ParamsFit

\* Setup ends.
CHECK_DEADLOCK FALSE
