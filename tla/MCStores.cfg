\* Two clients of one store, two assertions, three times.
CONSTANTS
  None = None
  Ids = {i1, i2}
  Times = {0, 1, 2}
  Clients = {c1, c2}
SPECIFICATION Spec
INVARIANTS
  TypeOK
PROPERTIES
  ImplementsAssertionStore
  SeenForGood
