CONSTANTS
  Kinds = {"net_sort of an array"}
  Value = Value
  Hole = Hole
  Raw = Raw
  Moved = Moved
  Lost = Lost
  Count = 3
  MaxChunks = 3
  MaxIndex = 1
  MaxCapacity = 7
  MinBSize = 2
  MaxBSize = 4
  CheckBelow = 2
  CheckEvery = 4
  MaxSize = 10
  MaxKey = 5
  MaxKeys = 6
  RadixKeys = {0, 1, 2, 8, 9, 12}
SPECIFICATION SpecOne
INVARIANT SortsStably
CHECK_DEADLOCK FALSE
