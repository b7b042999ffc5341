CONSTANTS
  t1 = t1
  t2 = t2
  t3 = t3
  t4 = t4
  Threads = {t1, t2, t3, t4}
  ReadCap = 2
  Narrow = TRUE
  Kinds = {"shared_spinner", "tables"}
  BucketThreads = {t1, t2, t3, t4}
  LastBucket = 0
  m1 = m1
  m2 = m2
  Addresses = {m1, m2}
  Null = Null
  x1 = x1
  x2 = x2
  Tables = {x1, x2}
  k1 = k1
  k2 = k2
  Keys = {k1, k2}
  Shards = 2
  u1 = u1
  u2 = u2
  TableThreads = {u1, u2}
SYMMETRY Symmetry
SPECIFICATION SafetySpecOne
INVARIANTS
  NarrowReadersBounded
  IInv
  TablesSound
PROPERTIES
  NeedKeepsOthersOut
  RefinesRWLock
