SPECIFICATION FairSpec
CONSTANTS
  s1 = s1  s2 = s2  r1 = r1  r2 = r2
  None = None
  Sessions = {s1, s2}
  Runs = {r1, r2}
  Stalling = {s1}
  MaxRequests = 2
  Serves <- ServesDef
  Asks <- AsksDef
  MaxMoves = 1
  MaxStalls = 1
PROPERTY EveryRequestAnswered
INVARIANTS
  WakeTypeOK InAskOrder ToldTruly OneWakePerStall
CHECK_DEADLOCK FALSE
