SPECIFICATION Spec
CONSTANTS
  Keys = {"k1", "k2"}
  Participants = {"p1", "p2"}
  Runs = {"r1"}
  Hosts = {"h1"}
  PartOf <- MCPartOf
  RunOf <- MCRunOf
  HostOf <- MCHostOf
  Capacity = 1
  Threads = {"t1"}
  MaxFaults = 2
INVARIANTS
  TypeOK
  Books
  WorkHoldsCapacity
  GrantsAreTold
  CancelledRunsLeave
  DeletedKeysHoldNothing
PROPERTIES
  TicketsEndOnce
  DoomedTicketsEnd
CHECK_DEADLOCK FALSE
