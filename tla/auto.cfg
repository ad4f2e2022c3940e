SPECIFICATION Spec
CONSTANTS
  Ids <- AutoIds
  None = None
  RunOf <- SelfRuns
  Keys = {"k"}
  Requests <- AutoRequests
  ParentOf <- NoChildren
  Budgets <- AutoBudgets
  Resizes = {}
  Headrooms <- AutoHeadrooms
  Policies <- AutoOnly
  Priorities = {}
  MaxAdmit = 5
INVARIANT NeverPanics
INVARIANT NeverRefused
PROPERTY BackfillSparesHead
