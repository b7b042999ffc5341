CONSTANTS
  Kinds = {"sequence", "devector", "tiered_vector", "flat_set", "flat_set of names", "flat_multiset", "radix_set", "radix_hash_set", "net_sort of a list", "net_sort of an array"}
  Value = Value
  Hole = Hole
  Raw = Raw
  Moved = Moved
  Lost = Lost
  Count = 3
  MaxChunks = 3
  MaxIndex = 1
  MaxCapacity = 7
  MinBSize = 2
  MaxBSize = 4
  CheckBelow = 2
  CheckEvery = 4
  MaxSize = 10
  MaxKey = 5
  MaxKeys = 6
  RadixKeys = {0, 1, 2, 8, 9, 12}
SPECIFICATION SpecOne
INVARIANTS
  FreeListExact
  ChunksInOrder
  JumpsAgree
  SlotsExact
  PushesAmortized
  BucketsFull
  BoundsExact
  TreeExact
  KeepsPromise
