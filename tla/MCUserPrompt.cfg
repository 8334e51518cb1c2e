SPECIFICATION FairSpec
CONSTANTS
  p1 = p1
  p2 = p2
  r1 = r1
  r2 = r2
  None = None
  Prompts = {p1, p2}
  Runs = {r1, r2}
INVARIANTS
  AtMostOneCopy
PROPERTIES
  KeepsPromise
  EveryPromptAnswered
CHECK_DEADLOCK FALSE
