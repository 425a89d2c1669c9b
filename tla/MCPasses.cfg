SPECIFICATION Spec
CONSTANTS
  Services <- MCServices
  Edges <- MCEdges
  Stateful <- MCStateful
  HTTP <- MCHTTP
  Portless <- MCPortless
  Label <- MCLabel
  Flows <- MCFlows
  Target <- MCTarget
  Routes <- MCRoutes
  Host <- MCHost
  Backends <- MCBackends
  Paths <- MCPaths
  Baseline = "baseline"
  Own = Own
  None = None
  Joined <- MCJoined
  Volatile <- MCVolatile
  Withdrawn <- MCWithdrawn
  Installed <- MCInstalled
  MaxChanges = 1
INVARIANTS TypeOK FlowsServed  RoutesReachVersions SubsetsAreDeployed  HostsApart
PROPERTIES RoutesFollowTheirList
CHECK_DEADLOCK FALSE
