CONSTANTS
  t1 = t1
  t2 = t2
  v0 = v0
  v1 = v1
  Threads = {t1, t2}
  NoThread = NoThread
  SegmentCount = 2
  MutexCnt = 2
  Values = {v0, v1}
  Zero = v0
  ThreadSafe = TRUE
  Writable = TRUE
  Work <- AllWork
SPECIFICATION Spec
SYMMETRY ThreadSymmetry
INVARIANTS TypeOK CleanIsStored WritableIsDirty
PROPERTIES FlushReachesStorage ImplementsUserMemory
