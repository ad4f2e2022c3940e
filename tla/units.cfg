CONSTANTS
  Lease = 2
  Drain = 2
  MaxDisruptions = 2
  Retries = 1
  MaxGeneration = 2
  MaxFaults = 1
SPECIFICATION Spec
INVARIANTS
  TypeOK
  StoreSound
  WorkIsCovered
PROPERTIES
  LiveClaimsStay
  OneWorkerAtATime
CHECK_DEADLOCK FALSE
