SPECIFICATION SpecCopy
CONSTANTS
  Keys = {1, 2, 3}
  HashOf <- MCHash
  Iterators = {1, 2, 3}
  MinMask = 3
  MaxDistance = 2
  LowDistance = 1
  LoadNum = 3
  LoadDen = 5
  Sizes = {4}
  CopySizes = {1, 3}
  Null = Null
INVARIANT
  LookupFinds
