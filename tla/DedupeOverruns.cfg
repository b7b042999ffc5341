SPECIFICATION SpecDedupe
CONSTANTS
  Keys = {1, 2, 3, 4}
  HashOf <- MCHash
  Iterators = {1, 2, 3, 4}
  MinMask = 3
  MaxDistance = 3
  LowDistance = 1
  LoadNum = 3
  LoadDen = 5
  Sizes = {4}
  CopySizes = {1, 3}
  Null = Null
INVARIANT
  InBounds
