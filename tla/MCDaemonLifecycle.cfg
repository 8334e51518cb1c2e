SPECIFICATION FairSpec
CONSTANTS
  old = old
  new = new
  restart = restart
  None = None
  Clients = {old, new, restart}
  Restarters = {restart}
  Version <- MCVersion
  Scenarios <- MCScenarios
INVARIANTS
  HasAll
PROPERTIES
  NewestStays EachIsServed
CHECK_DEADLOCK FALSE
