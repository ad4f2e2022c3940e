SPECIFICATION Spec
CONSTANTS
  Ids <- RaisedIds
  None = None
  RunOf <- SelfRuns
  Keys = {}
  Requests <- RaisedRequests
  ParentOf <- NoChildren
  Budgets <- RaisedBudgets
  Resizes = {}
  Headrooms = {}
  Policies <- ClassicOnly
  Priorities = {}
  MaxAdmit = 6
INVARIANT NeverPanics
CHECK_DEADLOCK FALSE
