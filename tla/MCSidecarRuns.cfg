SPECIFICATION Spec
CONSTANTS
  s1 = s1
  s2 = s2
  r1 = r1
  r2 = r2
  p1 = p1
  p2 = p2
  d1 = d1
  d2 = d2
  o1 = o1
  o2 = o2
  None = None
  Sids = {s1, s2}
  RunIds = {r1, r2}
  Pids = {p1, p2}
  Dirs = {d1}
  Owners = {o1, o2}
  NamesDir = {r1}
  Harness <- MCHarness
  DirOf <- MCDirOf
  StartedAt <- MCStartedAt
  MayServe <- MCMayServe
  MaxClock = 1
SYMMETRY MCSymmetry
INVARIANTS
  RegistryAgrees
  PidsApart
PROPERTIES
  MovedOnStays
  SteadyRunKept
  RememberedThroughARound
