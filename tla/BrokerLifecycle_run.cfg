CONSTANTS
  Procs = {p1, p2}
  Conns = {c1, c2}
  Slots = 1
  MaxFaults = 3
SPECIFICATION Spec
INVARIANTS
  TypeOK
  Reachable
  ReturnClean
PROPERTIES
  ShutdownCompletes
  ServesAgain
