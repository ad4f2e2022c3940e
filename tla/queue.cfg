SPECIFICATION FairSpec
CONSTANTS
  Ids <- QueueIds
  None = None
  RunOf <- SelfRuns
  Keys = {"k", "j"}
  Requests <- QueueRequests
  ParentOf <- NoChildren
  Budgets <- QueueBudgets
  Resizes = {}
  Headrooms <- QueueHeadrooms
  Policies <- ClassicOnly
  Priorities = {}
  MaxAdmit = 5
INVARIANT TypeOK
INVARIANT NeverPanics
INVARIANT HoldsMatchClaims
PROPERTY BackfillSparesHead
PROPERTY QueueDrains
