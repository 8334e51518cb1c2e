SPECIFICATION FairEffectsSpec
CONSTANTS
  None = None
  Paths = {f1, f2}
  MaxRows = 2
  Faults = {"scan"}
  MaxFiles = 2
  MaxGens = 2
  SideRows = {9}
  Budgets <- MCBudgets
INVARIANTS
  EffectsTypeOK
PROPERTIES
  TakenInOrder
  SpokenOnce
  QueueDrains
CHECK_DEADLOCK FALSE
