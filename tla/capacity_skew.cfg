SPECIFICATION Spec
CONSTANTS
  Ids <- SkewIds
  None = None
  RunOf <- SelfRuns
  Keys = {"k"}
  Requests <- SkewRequests
  ParentOf <- NoChildren
  Budgets <- SkewBudgets
  Resizes = {}
  Headrooms = {}
  Policies <- ClassicOnly
  Priorities = {}
  MaxAdmit = 3
PROPERTY BackfillSparesHead
CHECK_DEADLOCK FALSE
