CONSTANTS
  Procs = {p1}
  Keys = {k1, k2}
  MaxFaults = 1
  MaxLosses = 1
SPECIFICATION Spec
INVARIANTS
  CursorsSurvive
CHECK_DEADLOCK FALSE
