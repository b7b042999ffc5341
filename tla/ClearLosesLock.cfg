CONSTANTS
  t1 = t1
  t2 = t2
  t3 = t3
  Threads = {t1, t2, t3}
  a1 = a1
  a2 = a2
  ArrayIds = {a1, a2}
  Static = Static
  Keys = {0, 1}
  MaxMask = 1
  NodeSize = 1
  Ops = {"insert", "clear"}
  RehashMasks = {0}
  Shared = FALSE
  Failures = {}
SYMMETRY Symmetry
SPECIFICATION SafetySpec
INVARIANT BucketMutex
CHECK_DEADLOCK FALSE
