CONSTANTS
  MaxTime = 3
  Decls <- MCDecls
  CatchUp = 1
  MaxMissed = 1
  MaxEdits = 2
  MaxFaults = 1
SPECIFICATION Spec
INVARIANTS TypeOK Accounted SkipHonoured
PROPERTIES FiresOnlyArmed TickResolves
