SPECIFICATION FairSpec
CONSTANTS
  Absent = Absent
  NoSpec = NoSpec
  Unread = Unread
  Keys <- OneService
  Specs <- MCSpecs
  InitSpec <- Installed
  UserKeys <- FlowUsers
  Namespaces <- MCNamespaces
  Desired <- MCDesired
  Refers <- MCRefers
  PlanResult <- MCPlanResult
  DefaultedKinds = {"Deployment"}
  MaxUserOps = 1
  MaxFaults = 0

PROPERTIES RemovalIsApplied
CHECK_DEADLOCK FALSE
