CONSTANTS
  a = a
  Chats = {a}
  RowClasses <- MixedRows
  Limits = {1, 2}
  MaxScan = 2
  ResponseCap = 1
  Starts = {1}
  MaxRow = 3
  MaxGen = 1
  MaxFaults = 1
SPECIFICATION Spec
INVARIANTS
  TypeOK
  CursorsUsable
  PagesAgree
  NoSkip
  NoRedelivery
  RevocationApplies
  OneDatabase
  HorizonKept
PROPERTIES
  BoundaryPinned
  ImplementsFeed
