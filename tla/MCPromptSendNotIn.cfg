SPECIFICATION Spec
CONSTANTS
  a = a
  b = b
  ta = ta
  tb = tb
  None = None
  Draft = Draft
  Typed = Typed
  Requests = {a, b}
  Text <- MCText
  Bash = {b}
  MaxActs = 1
  MaxMoves = 0
  MaxClears = 1
INVARIANT
  NotDeliveredNeverIn
CHECK_DEADLOCK FALSE
