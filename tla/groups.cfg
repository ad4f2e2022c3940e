CONSTANTS
  Works = {"a", "b", "c"}
  Keys = {1, 2}
  Declared <- MCDeclared
  Repeating = {"a"}
  Lease = 2
  MaxTicks = 2
SPECIFICATION Spec
INVARIANTS TypeOK InvariantsHold RunningBudget WholeSets
PROPERTIES ArrivalsKept WaitersMoveOn SupersededEnd
