CONSTANTS
  t1 = t1
  v0 = v0
  v1 = v1
  Threads = {t1}
  NoThread = NoThread
  SegmentCount = 4
  MutexCnt = 2
  Values = {v0, v1}
  Zero = v0
  ThreadSafe = FALSE
  Writable = TRUE
  Work <- AllWork
  Programs <- CallPrograms
  Stored <- FullStorage
SPECIFICATION SpecWrapper
INVARIANTS TypeOKWrapper RetryMoves BufferIsInput
PROPERTY WrapperImplementsUserMemory
CHECK_DEADLOCK FALSE
