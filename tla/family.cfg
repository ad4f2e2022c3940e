SPECIFICATION Spec
CONSTANTS
  Ids <- FamilyIds
  None = None
  RunOf <- SelfRuns
  Keys = {"k"}
  Requests <- FamilyRequests
  ParentOf <- Family
  Budgets <- FamilyBudgets
  Resizes = {}
  Headrooms = {}
  Policies <- ClassicOnly
  Priorities = {}
  MaxAdmit = 2
INVARIANT LeaseInvariants
INVARIANT NeverRefused
PROPERTY DependentsTold
CHECK_DEADLOCK FALSE
