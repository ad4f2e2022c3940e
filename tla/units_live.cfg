CONSTANTS
  Lease = 2
  Drain = 3
  MaxDisruptions = 2
  Retries = 1
  MaxGeneration = 1
  MaxFaults = 2
SPECIFICATION Spec
PROPERTIES
  AbandonedReturns
  CancelledSettles
CHECK_DEADLOCK FALSE
