SPECIFICATION Spec
CONSTANTS
  Ids <- MachineIds
  None = None
  RunOf <- JobOfRun
  Keys = {}
  Requests <- MachineRequests
  ParentOf <- NoChildren
  Budgets <- MachineBudgets
  Resizes <- MachineBudgets
  Headrooms <- MachineHeadrooms
  Policies <- BothPolicies
  Priorities = {1}
  MaxAdmit = 4
INVARIANT HostBounds
INVARIANT WaiterInvariants
CHECK_DEADLOCK FALSE
