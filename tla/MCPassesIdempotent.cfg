SPECIFICATION Spec
CONSTANTS
  Services <- MCServices
  Edges <- MCEdges
  Stateful <- MCStateful
  HTTP <- MCHTTP
  Portless <- MCPortless
  Label <- MCLabel
  Flows <- MCFlows
  Target <- MCTargetTwo
  Routes <- MCRoutes
  Host <- MCHost
  Backends <- MCBackends
  Paths <- MCPaths
  Baseline = "baseline"
  Own = Own
  None = None
  Joined <- MCJoined
  Volatile <- MCVolatile
  Withdrawn <- MCWithdrawn
  Installed <- MCInstalled
  MaxChanges = 1
PROPERTIES ImagesIdempotent
CHECK_DEADLOCK FALSE
