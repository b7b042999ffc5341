CONSTANTS
  t1 = t1
  t2 = t2
  t3 = t3
  Threads = {t1, t2, t3}
  ReadCap = 2
  Narrow = FALSE
  Kinds = {"shared_spinner", "spinlock", "bucket locks"}
  BucketThreads = {t1, t2}
  LastBucket = 3
  m1 = m1
  m2 = m2
  m3 = m3
  m4 = m4
  Addresses = {m1, m2, m3, m4}
  Null = Null
  x1 = x1
  Tables = {x1}
  Keys = {x1}
  Shards = 1
  TableThreads = {t1}
SPECIFICATION SpecOne
INVARIANTS
  MutualExclusion
  WordCounts
  NeedHasWaiter
  FlagHasOneOwner
  OneLockPerBucket
  NoArrayLost
PROPERTIES
  SomeWriterProgress
  TimedAttemptReturns
  FreeLockIsTaken
  LocksStay
  NoWakeUpIsLost
