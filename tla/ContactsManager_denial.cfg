CONSTANTS
  Identities = {i1}
  Refresh = 2
  MaxAge = 6
  Timeout = 1
  MaxFaults = 1
SPECIFICATION Spec
PROPERTIES
  DenialInvalidates
