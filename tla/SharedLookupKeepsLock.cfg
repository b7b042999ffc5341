CONSTANTS
  t1 = t1
  t2 = t2
  Threads = {t1, t2}
  a1 = a1
  a2 = a2
  ArrayIds = {a1, a2}
  Static = Static
  Keys = {0, 1}
  MaxMask = 1
  NodeSize = 1
  Ops = {"insert", "cvisit"}
  RehashMasks = {0}
  Shared = TRUE
  Failures = {}
SYMMETRY Symmetry
SPECIFICATION SafetySpec
INVARIANT LocksReleased
