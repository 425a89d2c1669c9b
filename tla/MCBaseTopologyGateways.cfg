SPECIFICATION Spec
CONSTANTS
  None = None
  Namespaces <- MCNamespaces
  Names <- MCNames
  Ports <- MCPorts
  Entries <- MCEntries
  Clusters <- MCClusters
INVARIANTS GatewaysKept
CHECK_DEADLOCK FALSE
