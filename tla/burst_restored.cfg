SPECIFICATION Spec
CONSTANTS
  Ids <- FloorIds
  None = None
  RunOf <- SelfRuns
  Keys = {}
  Requests <- FloorRequests
  ParentOf <- NoChildren
  Budgets <- FloorBudgets
  Resizes = {}
  Headrooms = {}
  Policies <- BothPolicies
  Priorities = {}
  MaxAdmit = 3
INVARIANT NeverRefused
CHECK_DEADLOCK FALSE
