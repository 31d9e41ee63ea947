CONSTANTS
  t1 = t1
  v0 = v0
  v1 = v1
  Threads = {t1}
  NoThread = NoThread
  SegmentCount = 2
  MutexCnt = 2
  Values = {v0}
  Zero = v0
  ThreadSafe = FALSE
  Writable = TRUE
  Work <- AllWork
  Programs <- WritePrograms
  Stored <- EmptyStorage
SPECIFICATION FairWrapper
PROPERTY StoresEnd
