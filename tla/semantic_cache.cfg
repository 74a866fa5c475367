SPECIFICATION Spec
CONSTANTS
  Clients = {c1, c2}
  Keys = {k1, k2}
  Capacity = 1
  MaxStores = 2
INVARIANTS
  TypeOK
  OwnerHasReadBucket
  NoOrphans
  NoDangling
PROPERTIES
  ServableIsKept
  EveryRequestIsAnswered
