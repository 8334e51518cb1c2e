SPECIFICATION FairSpec
CONSTANTS
  None = None
  Paths = {f1, f2}
  MaxRows = 2
  Faults = {"read", "scan"}
  MaxFiles = 2
  MaxGens = 2
INVARIANTS
  TypeOK
  FoldsExact
  TabExact
PROPERTIES
  GivenUpUnwritten
  EveryWaitEnds
CHECK_DEADLOCK FALSE
