SPECIFICATION Spec
CONSTANTS
  Procs = {1, 2, 3}
  Setups <- MCSetups
  Capacity = 1
  LinkMayFail = TRUE
  Second = 2
  MaxLate = 1
  MaxOther = 1
  NoLine = NoLine
INVARIANT NeverOverstates
CHECK_DEADLOCK FALSE
