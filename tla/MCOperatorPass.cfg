SPECIFICATION Spec
CONSTANTS
  Absent = Absent
  NoSpec = NoSpec
  Unread = Unread
  Keys <- OneService
  Specs <- MCSpecs
  InitSpec <- Installed
  UserKeys <- WorkloadUsers
  Namespaces <- MCNamespaces
  Desired <- MCDesired
  Refers <- MCRefers
  PlanResult <- MCPlanResult
  DefaultedKinds = {"Deployment"}
  MaxUserOps = 2
  MaxFaults = 1
INVARIANTS TypeOK IInv CleanPassConverges NoLostWakeup  DanglingRoutesPending
PROPERTIES IdempotentPass ImplementsAtomicPass
CHECK_DEADLOCK FALSE
