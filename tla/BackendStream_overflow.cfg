CONSTANTS
  MaxRows = 2
  MaxLines = 1
  PipeCap = 1
  MaxOutput = 2
SPECIFICATION Spec
PROPERTIES
  OverflowReported
