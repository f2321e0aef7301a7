CONSTANTS
  a = a
  Chats = {a}
  RowClasses <- AmbiguousRows
  Limits = {1, 2}
  MaxScan = 2
  ResponseCap = 2
  Starts = {0}
  MaxRow = 2
  MaxGen = 0
  MaxFaults = 0
SPECIFICATION FairSpec
PROPERTIES
  NeverWedged

