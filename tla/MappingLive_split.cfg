CONSTANTS
  t1 = t1
  t2 = t2
  v0 = v0
  v1 = v1
  Threads = {t1, t2}
  NoThread = NoThread
  SegmentCount = 3
  MutexCnt = 2
  Values = {v0}
  Zero = v0
  ThreadSafe = TRUE
  Writable = TRUE
  Work <- AllWork
  Budget = 2
SPECIFICATION LSpec
PROPERTY EveryOperationEnds
