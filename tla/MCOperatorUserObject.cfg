SPECIFICATION Spec
CONSTANTS
  Absent = Absent
  NoSpec = NoSpec
  Unread = Unread
  Keys <- OneService
  Specs <- MCSpecs
  InitSpec <- Installed
  UserKeys <- RaceUsers
  Namespaces <- MCNamespaces
  Desired <- MCDesired
  Refers <- MCRefers
  PlanResult <- MCPlanResult
  DefaultedKinds = {"Deployment"}
  MaxUserOps = 3
  MaxFaults = 0

PROPERTIES UserObjectsSurvive
CHECK_DEADLOCK FALSE
