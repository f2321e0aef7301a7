CONSTANTS
  MaxRows = 1
  MaxLines = 2
  PipeCap = 1
  MaxOutput = 3
SPECIFICATION FairSpec
INVARIANTS
  TypeOK
  WholeOutput
  NothingLeft
PROPERTIES
  Returns
