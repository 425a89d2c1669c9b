SPECIFICATION FairSpec
CONSTANTS
  Absent = Absent
  NoSpec = NoSpec
  Unread = Unread
  Keys <- OneService
  Specs <- MCSpecs
  InitSpec <- Installed
  UserKeys <- FlowUsers
  Namespaces <- MCNamespaces
  Desired <- MCDesired
  Refers <- MCRefers
  PlanResult <- MCPlanResult
  DefaultedKinds = {"Deployment"}
  MaxUserOps = 2
  MaxFaults = 1

PROPERTIES FlowsConverge
CHECK_DEADLOCK FALSE
