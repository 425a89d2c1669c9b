SPECIFICATION Spec
CONSTANTS
  None = None
  Namespaces <- MCNamespaces
  Names <- MCNames
  Ports <- MCPorts
  Entries <- MCEntries
  Clusters <- MCClusters
INVARIANTS TypeOK IInv AcceptedIffSound BuiltCompletely PanicCauses StrandedCauses
CHECK_DEADLOCK FALSE
