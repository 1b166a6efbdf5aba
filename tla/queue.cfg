\* Three producers, four calls, and a heap small enough for addresses to return.
SPECIFICATION Spec
CONSTANTS
  Producers = {p1, p2, p3}
  Payloads = {a, b}
  Nothing = nothing
  Nodes = {n1, n2, n3}
  Null = null
  MaxEnqueues = 4
INVARIANTS
  TypeOK
  NoUseAfterFree
  NoLeak
  ListIntact
PROPERTIES
  ImplementsOrder
  EverythingDelivered
