SPECIFICATION Spec
CONSTANTS
  Absent = Absent
  NoSpec = NoSpec
  Unread = Unread
  Keys <- TwoServices
  Specs <- MCSpecs
  InitSpec <- BothInstalled
  UserKeys <- BothFlows
  Namespaces <- BothNamespaces
  Desired <- BothDesired
  Refers <- MCRefers
  PlanResult <- BothPlanResult
  DefaultedKinds = {"Deployment"}
  MaxUserOps = 1
  MaxFaults = 0
INVARIANTS CleanPassConverges
PROPERTIES WorkloadsBeforeRoutes
CHECK_DEADLOCK FALSE
