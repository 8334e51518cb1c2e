SPECIFICATION FairSpec
CONSTANTS
  a = a
  b = b
  ta = ta
  tb = tb
  None = None
  Draft = Draft
  Typed = Typed
  Requests = {a, b}
  Text <- MCText
  Bash = {b}
  MaxActs = 1
  MaxMoves = 1
  MaxClears = 1
INVARIANTS
  TypeOK
  NotDeliveredIsOut
  AcceptedIsIn
  PersonTextKept
PROPERTY
  EveryRequestAnswered
CHECK_DEADLOCK FALSE
