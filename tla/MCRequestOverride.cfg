SPECIFICATION OverrideFairSpec
CONSTANTS
  model = model
  effort = effort
  high = high
  Null = Null
  Absent = Absent
  Fields = {model, effort}
  Values = {high}
  Patches <- MCPatches
  Budgets <- MCBudgets
  OneShots <- MCOneShots
INVARIANTS
  OverrideTypeOK OneTurnOnly
PROPERTIES
  HeldIsApplied ShownInTheEnd
CHECK_DEADLOCK FALSE
