SPECIFICATION FairSpec
CONSTANTS
  None = None
  MaxId = 3
  Scenarios <- MCScenarios
INVARIANTS
  OneSidecar
PROPERTY ServedInTheEnd
CHECK_DEADLOCK FALSE
