CONSTANTS
  t1 = t1
  t2 = t2
  p1 = p1
  p2 = p2
  Threads = {t1, t2}
  NoThread = NoThread
  Policies = {p1, p2}
  Kind <- AllFifo
  SegmentSize <- OneAndTwo
  MaxMemory <- Sixes
  QuotaMemory = 5
  Word = 16
  Start <- Pair
  Churn = {p2}
SPECIFICATION Spec
INVARIANTS TypeOK QuotaRespected AverageGuaranteed
PROPERTY UpdateEnds
