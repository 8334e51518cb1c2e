SPECIFICATION Spec
CONSTANTS
  s1 = s1
  s2 = s2
  x1 = x1
  x2 = x2
  x3 = x3
  q1 = q1
  q2 = q2
  q3 = q3
  None = None
  Sessions = {s1, s2}
  Says = {x1, x2, x3}
  SessionOf <- MCSessionOf
  Requests = {q1, q2, q3}
  MaxStarts = 3
SYMMETRY MCSymmetry
INVARIANTS
  ReadIsOnDisk
  TabsCurrent
PROPERTIES
  ReadStaysRead
  UnreadKept
CHECK_DEADLOCK FALSE
