CONSTANTS
  Kinds = {"chains", "ordered"}
  Keys = {1, 2, 3, 4, 5}
  HashOf <- ChainHash
  TinyOf <- ChainTiny
  NodeSize = 2
  DenseSize = 2
  PerBucket = 2
  MaxMask = 3
  a1 = a1
  a2 = a2
  a3 = a3
  a4 = a4
  Addresses = {a1, a2, a3, a4}
  Null = Null
SPECIFICATION SpecOne
INVARIANTS
  TypeOK
  ChainShape
  LookupFinds
  EraseIfAsksAll
  IndexIsSound
  DedupeKeepsFirst
