CONSTANTS
  Stores <- MCStores
  Container = "c"
  Selections = {{}, {1, 2}}
  MaxContacts = 1
  MaxLists = 2
  MaxEdits = 2
SPECIFICATION Spec
INVARIANTS
  TypeOK
  OneInstant
PROPERTY ExchangeEnds
