CONSTANTS
  Procs = {p1, p2}
  Keys = {k1, k2, k3, k4}
  MaxFaults = 2
  MaxLosses = 1
SPECIFICATION FairSpec
INVARIANTS
  TypeOK
  OneKey
  ConfirmedKept
PROPERTIES
  StartsRecover
