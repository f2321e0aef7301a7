CONSTANTS
  a = a
  Chats = {a}
  RowClasses <- ReadableRows
  Limits = {1, 2}
  MaxScan = 2
  ResponseCap = 1
  Starts = {0}
  MaxRow = 3
  MaxGen = 0
  MaxFaults = 1
SPECIFICATION FairSpec
PROPERTIES
  RangeCompletes
  OwedArrives
