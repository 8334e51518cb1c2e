SPECIFICATION Spec
CONSTANTS
  None = None
  Paths = {f1, f2}
  MaxRows = 2
  Faults = {"cut"}
  MaxFiles = 1
  MaxGens = 1
INVARIANTS
  FoldsExact
CHECK_DEADLOCK FALSE
