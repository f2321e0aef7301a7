CONSTANTS
  Identities = {i1}
  Refresh = 3
  MaxAge = 9
  Timeout = 2
  MaxFaults = 3
SPECIFICATION FairSpec
INVARIANTS
  TypeOK
  RemovalBounded
  RemovalPrompt
  NoGap
  ReadyIsFresh
PROPERTIES
  Recovers
