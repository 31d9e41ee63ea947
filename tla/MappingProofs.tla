--------------------------- MODULE MappingProofs ---------------------------
(***************************************************************************)
(* Proofs about module Mapping, for any number of threads, segments and    *)
(* mutexes and any set of values.                                          *)
(***************************************************************************)
EXTENDS Mapping, TLAPS

-----------------------------------------------------------------------------
(***************************************************************************)
(* The inductive invariant.                                                *)
(***************************************************************************)

Inside(t) == pc[t] \in {"seg", "load", "write", "written"}

\* What a thread executes agrees with where it is.
ControlInv ==
  \A t \in Threads :
    /\ cur[t] <= last[t]
    /\ op[t] \in Access => cur[t] = last[t]
    /\ pc[t] = "user" => op[t] \in Access \cup {"none"}
    /\ pc[t] # "user" => op[t] # "none"
    /\ pc[t] = "load" => op[t] \in Access
    /\ pc[t] \in {"write", "written"} => op[t] \in {"flush", "unmap"}

\* A thread that works on a range holds the mutex of each of its segments.
MutexInv ==
  \A t \in Threads :
    Inside(t) => \A s \in cur[t]..last[t] : mutex[MutexOf(s)] = t

\* Between the steps of an operation, the segment is as the thread left it.
LocalAt(t) ==
  /\ pc[t] = "load" => /\ cur[t] \notin mapped
                       /\ cur[t] \in needRead
                       /\ buf[t] = storage[cur[t]]
  /\ pc[t] = "write" => /\ cur[t] \in dirty
                        /\ prot[cur[t]] = "ro"
  /\ pc[t] = "written" => cur[t] \notin dirty

LocalInv == \A t \in Threads : LocalAt(t)

\* Segment by segment: protection, status bits, memory and storage agree.
PageAt(s) ==
  /\ prot[s] = "rw" => s \in dirty
  /\ prot[s] # "none" <=> s \in mapped
  /\ s \in dirty => s \in mapped
  /\ s \in mapped /\ s \notin dirty =>
       mem[s] = IF s \in needRead THEN storage[s] ELSE Zero
  /\ s \notin mapped => mem[s] = Zero

PageInv == \A s \in Segments : PageAt(s)

IInv == TypeOK /\ ControlInv /\ MutexInv /\ LocalInv /\ PageInv

-----------------------------------------------------------------------------
(***************************************************************************)
(* Facts about ranges and mutexes.                                         *)
(***************************************************************************)

\* The mutex of a segment exists: the modulo of onSegmentationFault() and of
\* getMutexRange() stays within segmentMutexes.
LEMMA MutexOfSegment ==
  ASSUME NEW s \in Segments
  PROVE  MutexOf(s) \in Mutexes
BY MappingAssumption DEF Segments, Mutexes, MutexOf

\* A range of segments contains only segments, its ends included.
LEMMA RangeOfSegments ==
  ASSUME NEW a \in Segments, NEW b \in Segments, a <= b
  PROVE  /\ a..b \subseteq Segments
         /\ a \in a..b
         /\ b \in a..b
         /\ a # b => a + 1 \in Segments /\ a + 1 <= b /\ (a + 1)..b \subseteq a..b
         /\ a = b => a..b = {a}
BY MappingAssumption DEF Segments

\* Zero is a segment, the last one too, and they are in order.
LEMMA EndSegments ==
  /\ 0 \in Segments /\ SegmentCount - 1 \in Segments /\ 0 <= SegmentCount - 1
  /\ \A s \in Segments : s \in Nat /\ s <= s
BY MappingAssumption DEF Segments

-----------------------------------------------------------------------------
(***************************************************************************)
(* Type correctness, with or without UMMAP_THREAD_UNSAFE.                  *)
(***************************************************************************)

\* Every step of the mapping keeps every variable in its type.
LEMMA TypeStep == TypeOK /\ ControlInv /\ [Next]_vars => TypeOK'
<1> SUFFICES ASSUME TypeOK, ControlInv, [Next]_vars PROVE TypeOK'
  OBVIOUS
<1> USE MappingAssumption
<1>1. ASSUME NEW t \in Threads, NEW o \in Operations, NEW lo \in Segments, NEW hi \in Segments, Call(t, o, lo, hi)
      PROVE  /\ op' \in [Threads -> Operations \cup {"none"}]
             /\ cur' \in [Threads -> Segments]
             /\ last' \in [Threads -> Segments]
  BY <1>1 DEF Call, TypeOK
<1>2. ASSUME NEW t \in Threads, Done(t)
      PROVE  /\ op' \in [Threads -> Operations \cup {"none"}]
             /\ cur' \in [Threads -> Segments]
             /\ last' \in [Threads -> Segments]
  BY <1>2, EndSegments DEF Done, TypeOK
<1>3. ASSUME NEW t \in Threads, Unlock(t) PROVE mutex' \in [Mutexes -> Threads \cup {NoThread}]
  BY <1>3 DEF Unlock, TypeOK
<1>4. ASSUME NEW t \in Threads, Advance(t)
      PROVE  /\ op' \in [Threads -> Operations \cup {"none"}]
             /\ cur' \in [Threads -> Segments]
             /\ last' \in [Threads -> Segments]
             /\ mutex' \in [Mutexes -> Threads \cup {NoThread}]
             /\ pc' \in [Threads -> {"user", "lock", "seg", "load", "write", "written"}]
  <2>1. CASE cur[t] = last[t]
    BY <1>2, <1>3, <1>4, <2>1 DEF Advance, TypeOK
  <2>2. CASE cur[t] # last[t]
    <3>1. cur[t] + 1 \in Segments
      BY <2>2, RangeOfSegments DEF ControlInv, TypeOK
    <3>2. QED
      BY <1>4, <2>2, <3>1 DEF Advance, TypeOK
  <2>3. QED
    BY <2>1, <2>2
<1>5. ASSUME NEW t \in Threads, Begin(t) PROVE TypeOK'
  <2>1. ASSUME NEW s \in Segments, IssueLoad(t, s) PROVE TypeOK'
    BY <1>1, <2>1 DEF IssueLoad, TypeOK, page, status, Operations, Access
  <2>2. ASSUME NEW s \in Segments, NEW v \in Values, IssueStore(t, s, v) PROVE TypeOK'
    BY <1>1, <2>2 DEF IssueStore, TypeOK, page, status, Operations, Access
  <2>3. ASSUME NEW o \in {"flush", "unmap"}, NEW lo \in Segments, NEW hi \in Segments, CallFlush(t, o, lo, hi)
        PROVE TypeOK'
    BY <1>1, <2>3 DEF CallFlush, TypeOK, page, status, Operations, Access
  <2>4. ASSUME NEW o \in {"drop", "dirty"}, CallOnAll(t, o) PROVE TypeOK'
    BY <1>1, <2>4, EndSegments DEF CallOnAll, TypeOK, page, status, Operations, Access
  <2>5. QED
    BY <1>5, <2>1, <2>2, <2>3, <2>4 DEF Begin
<1>6. ASSUME NEW t \in Threads, Step(t) PROVE TypeOK'
  <2>1. CASE Load(t)
    BY <1>2, <2>1 DEF Load, TypeOK, page, status
  <2>2. CASE Store(t)
    BY <1>2, <2>2 DEF Store, TypeOK, page, status
  <2>3. CASE Fault(t)
    BY <2>3 DEF Fault, TypeOK, page, status, local
  <2>4. CASE Lock(t)
    <3>1. pc' = [pc EXCEPT ![t] = "seg"] \/ pc' = [pc EXCEPT ![t] = "lock"]
      BY <2>4, Zenon DEF Lock
    <3>2. PICK m : mutex' = [mutex EXCEPT ![m] = t]
      BY <2>4, Zenon DEF Lock
    <3>3. UNCHANGED <<prot, mem, storage, mapped, dirty, needRead, op, cur, last, val, buf>>
      BY <2>4 DEF Lock, page, status, local
    <3>4. QED
      BY <3>1, <3>2, <3>3, Zenon DEF TypeOK
  <2>5. CASE FaultAlreadyDone(t)
    BY <1>3, <2>5 DEF FaultAlreadyDone, Return, TypeOK, page, status, local
  <2>6. CASE FaultRead(t)
    BY <2>6 DEF FaultRead, TypeOK, page, status, local
  <2>7. CASE FaultSwap(t)
    BY <1>3, <2>7 DEF FaultSwap, Return, TypeOK, page, status, local
  <2>8. CASE FaultOpen(t)
    BY <1>3, <2>8 DEF FaultOpen, Return, TypeOK, page, status, local
  <2>9. CASE FlushProtect(t)
    BY <2>9 DEF FlushProtect, TypeOK, page, status, local
  <2>10. CASE FlushWrite(t)
    BY <2>10 DEF FlushWrite, TypeOK, page, status, local
  <2>11. CASE FlushRelease(t)
    BY <1>4, <2>11 DEF FlushRelease, Drop, TypeOK, page, status
  <2>12. CASE DropClean(t)
    BY <1>4, <2>12 DEF DropClean, Drop, TypeOK, page, status
  <2>13. CASE MarkCleanAsDirty(t)
    BY <1>4, <2>13 DEF MarkCleanAsDirty, TypeOK, page, status
  <2>14. QED
    BY <1>6, <2>1, <2>2, <2>3, <2>4, <2>5, <2>6, <2>7, <2>8, <2>9, <2>10,
       <2>11, <2>12, <2>13 DEF Step
<1>7. CASE UNCHANGED vars
  BY <1>7 DEF vars, TypeOK
<1>8. QED
  BY <1>5, <1>6, <1>7 DEF Next
-----------------------------------------------------------------------------
(***************************************************************************)
(* Control and mutual exclusion, with or without UMMAP_THREAD_UNSAFE.      *)
(***************************************************************************)

\* Every step keeps the operation of a thread in agreement with its place.
LEMMA ControlStep == TypeOK /\ ControlInv /\ [Next]_vars => ControlInv'
<1> SUFFICES ASSUME TypeOK, ControlInv, [Next]_vars PROVE ControlInv'
  OBVIOUS
<1> USE MappingAssumption DEF ControlInv, Access
<1>1. ASSUME NEW t \in Threads, Begin(t) PROVE ControlInv'
  <2>1. ASSUME NEW s \in Segments, IssueLoad(t, s) PROVE ControlInv'
    BY <2>1, EndSegments DEF IssueLoad, Call, TypeOK
  <2>2. ASSUME NEW s \in Segments, NEW v \in Values, IssueStore(t, s, v) PROVE ControlInv'
    BY <2>2, EndSegments DEF IssueStore, Call, TypeOK
  <2>3. ASSUME NEW o \in {"flush", "unmap"}, NEW lo \in Segments, NEW hi \in Segments, CallFlush(t, o, lo, hi)
        PROVE ControlInv'
    BY <2>3 DEF CallFlush, Call, TypeOK
  <2>4. ASSUME NEW o \in {"drop", "dirty"}, CallOnAll(t, o) PROVE ControlInv'
    BY <2>4, EndSegments DEF CallOnAll, Call, TypeOK
  <2>5. QED
    BY <1>1, <2>1, <2>2, <2>3, <2>4 DEF Begin
<1>2. ASSUME NEW t \in Threads, pc[t] # "user", op[t] \notin Access, Advance(t)
      PROVE  ControlInv'
  <2>1. CASE cur[t] = last[t]
    BY <1>2, <2>1, EndSegments DEF Advance, Done, TypeOK
  <2>2. CASE cur[t] # last[t]
    <3>1. cur[t] + 1 <= last[t]
      BY <2>2, RangeOfSegments, ZenonT(40) DEF TypeOK
    <3>2. QED
      BY <1>2, <2>2, <3>1 DEF Advance, TypeOK
  <2>3. QED
    BY <2>1, <2>2
<1>3. ASSUME NEW t \in Threads, Step(t) PROVE ControlInv'
  <2>1. CASE Load(t)
    BY <2>1, EndSegments DEF Load, Done, TypeOK
  <2>2. CASE Store(t)
    BY <2>2, EndSegments DEF Store, Done, TypeOK
  <2>3. CASE Fault(t)
    BY <2>3 DEF Fault, TypeOK, local
  <2>4. CASE Lock(t)
    <3>1. /\ pc[t] = "lock"
          /\ pc' = [pc EXCEPT ![t] = "seg"] \/ pc' = [pc EXCEPT ![t] = "lock"]
      BY <2>4, Zenon DEF Lock
    <3>2. UNCHANGED <<op, cur, last>>
      BY <2>4 DEF Lock, local
    <3>3. QED
      BY <3>1, <3>2 DEF TypeOK
  <2>5. CASE FaultAlreadyDone(t)
    BY <2>5 DEF FaultAlreadyDone, Return, TypeOK, local
  <2>6. CASE FaultRead(t)
    BY <2>6 DEF FaultRead, TypeOK, local
  <2>7. CASE FaultSwap(t)
    BY <2>7 DEF FaultSwap, Return, TypeOK, local
  <2>8. CASE FaultOpen(t)
    BY <2>8 DEF FaultOpen, Return, TypeOK, local
  <2>9. CASE FlushProtect(t)
    BY <2>9 DEF FlushProtect, TypeOK, local
  <2>10. CASE FlushWrite(t)
    BY <2>10 DEF FlushWrite, TypeOK, local
  <2>11. CASE FlushRelease(t)
    BY <1>2, <2>11 DEF FlushRelease
  <2>12. CASE DropClean(t)
    BY <1>2, <2>12 DEF DropClean
  <2>13. CASE MarkCleanAsDirty(t)
    BY <1>2, <2>13 DEF MarkCleanAsDirty
  <2>14. QED
    BY <1>3, <2>1, <2>2, <2>3, <2>4, <2>5, <2>6, <2>7, <2>8, <2>9, <2>10,
       <2>11, <2>12, <2>13 DEF Step
<1>4. CASE UNCHANGED vars
  BY <1>4 DEF vars
<1>5. QED
  BY <1>1, <1>3, <1>4 DEF Next

\* The segments of a thread's range have a mutex.
LEMMA RangeMutex ==
  ASSUME TypeOK, ControlInv, NEW u \in Threads, NEW s \in cur[u]..last[u]
  PROVE  s \in Segments /\ MutexOf(s) \in Mutexes
<1>1. cur[u] \in Segments /\ last[u] \in Segments /\ cur[u] <= last[u]
  BY DEF TypeOK, ControlInv
<1>2. s \in Segments
  BY <1>1, RangeOfSegments
<1>3. QED
  BY <1>2, MutexOfSegment

\* Every step keeps each thread inside an operation the owner of the mutexes
\* of the segments it has still to visit.
LEMMA MutexStep == TypeOK /\ ControlInv /\ MutexInv /\ [Next]_vars => MutexInv'
<1> SUFFICES ASSUME TypeOK, ControlInv, MutexInv, [Next]_vars PROVE MutexInv'
  OBVIOUS
<1> USE MappingAssumption DEF Inside
<1>1. ASSUME NEW t \in Threads,
             UNCHANGED mutex, ~Inside(t)' \/ (Inside(t) /\ UNCHANGED <<cur, last>>),
             \A u \in Threads \ {t} : /\ pc'[u] = pc[u]
                                      /\ cur'[u] = cur[u]
                                      /\ last'[u] = last[u]
      PROVE  MutexInv'
  BY <1>1 DEF MutexInv
<1>2. ASSUME NEW t \in Threads, Unlock(t), pc'[t] = "user",
             \A u \in Threads \ {t} : /\ pc'[u] = pc[u]
                                      /\ cur'[u] = cur[u]
                                      /\ last'[u] = last[u]
      PROVE  MutexInv'
  <2> SUFFICES ASSUME NEW u \in Threads, Inside(u)', NEW s \in (cur[u]..last[u])'
               PROVE  mutex'[MutexOf(s)] = u
    BY DEF MutexInv, MutexOf
  <2>1. u # t
    BY <1>2
  <2>2. Inside(u) /\ s \in cur[u]..last[u]
    BY <1>2, <2>1
  <2>3. mutex[MutexOf(s)] = u
    BY <2>2 DEF MutexInv
  <2>4. MutexOf(s) \in Mutexes
    BY <2>2, RangeMutex
  <2>5. QED
    BY <1>2, <2>1, <2>3, <2>4 DEF Unlock
<1>3. ASSUME NEW t \in Threads, Inside(t), Advance(t) PROVE MutexInv'
  <2>1. CASE cur[t] = last[t]
    BY <1>2, <1>3, <2>1 DEF Advance, Done, TypeOK
  <2>2. CASE cur[t] # last[t]
    <3>1. (cur[t] + 1)..last[t] \subseteq cur[t]..last[t]
      BY <2>2, RangeOfSegments DEF ControlInv, TypeOK
    <3>2. QED
      BY <1>3, <2>2, <3>1 DEF Advance, TypeOK, MutexInv
  <2>3. QED
    BY <2>1, <2>2
<1>4. ASSUME NEW t \in Threads, Begin(t) PROVE MutexInv'
  <2>1. ASSUME NEW s \in Segments, IssueLoad(t, s) PROVE MutexInv'
    BY <1>1, <2>1 DEF IssueLoad, Call, TypeOK
  <2>2. ASSUME NEW s \in Segments, NEW v \in Values, IssueStore(t, s, v) PROVE MutexInv'
    BY <1>1, <2>2 DEF IssueStore, Call, TypeOK
  <2>3. ASSUME NEW o \in {"flush", "unmap"}, NEW lo \in Segments, NEW hi \in Segments, CallFlush(t, o, lo, hi)
        PROVE MutexInv'
    BY <1>1, <2>3 DEF CallFlush, Call, TypeOK
  <2>4. ASSUME NEW o \in {"drop", "dirty"}, CallOnAll(t, o) PROVE MutexInv'
    BY <1>1, <2>4 DEF CallOnAll, Call, TypeOK
  <2>5. QED
    BY <1>4, <2>1, <2>2, <2>3, <2>4 DEF Begin
<1>5. ASSUME NEW t \in Threads, Step(t) PROVE MutexInv'
  <2>1. CASE Load(t)
    BY <1>1, <2>1 DEF Load, Done, TypeOK
  <2>2. CASE Store(t)
    BY <1>1, <2>2 DEF Store, Done, TypeOK
  <2>3. CASE Fault(t)
    BY <1>1, <2>3 DEF Fault, TypeOK, local
  <2>4. CASE Lock(t)
    <3>1. PICK m \in Needed(t) :
            /\ mutex[m] = NoThread
            /\ mutex' = [mutex EXCEPT ![m] = t]
            /\ pc' = [pc EXCEPT ![t] =
                        IF \A k \in Needed(t) : k = m \/ mutex[k] = t
                        THEN "seg" ELSE "lock"]
      BY <2>4, Zenon DEF Lock
    <3>2. UNCHANGED <<cur, last>> /\ pc[t] = "lock"
      BY <2>4 DEF Lock, local
    <3>3. ASSUME NEW u \in Threads, NEW s \in cur[u]..last[u]
          PROVE  MutexOf(s) \in Mutexes
      BY <3>3, RangeMutex
    <3>4. ASSUME NEW u \in Threads \ {t}, Inside(u)', NEW s \in cur[u]..last[u]
          PROVE  mutex'[MutexOf(s)] = u
      <4>1. Inside(u)
        BY <3>1, <3>4 DEF TypeOK
      <4>2. mutex[MutexOf(s)] = u /\ u # NoThread
        BY <3>4, <4>1 DEF MutexInv
      <4>3. QED
        BY <3>1, <3>3, <4>2 DEF TypeOK
    <3>5. ASSUME Inside(t)', NEW s \in cur[t]..last[t] PROVE mutex'[MutexOf(s)] = t
      <4>1. \A k \in Needed(t) : k = m \/ mutex[k] = t
        <5>1. CASE ~ \A k \in Needed(t) : k = m \/ mutex[k] = t
          <6>1. pc' = [pc EXCEPT ![t] = "lock"]
            BY <3>1, <5>1, Zenon
          <6>2. QED
            BY <3>5, <6>1 DEF TypeOK
        <5>2. QED
          BY <5>1
      <4>2. MutexOf(s) \in Needed(t)
        BY <3>5 DEF Needed
      <4>3. QED
        BY <3>1, <3>3, <4>1, <4>2 DEF TypeOK
    <3>6. QED
      BY <3>2, <3>4, <3>5 DEF MutexInv, MutexOf
  <2>5. CASE FaultAlreadyDone(t)
    BY <1>2, <2>5 DEF FaultAlreadyDone, Return, TypeOK, local
  <2>6. CASE FaultRead(t)
    BY <1>1, <2>6 DEF FaultRead, TypeOK, local
  <2>7. CASE FaultSwap(t)
    BY <1>2, <2>7 DEF FaultSwap, Return, TypeOK, local
  <2>8. CASE FaultOpen(t)
    BY <1>2, <2>8 DEF FaultOpen, Return, TypeOK, local
  <2>9. CASE FlushProtect(t)
    BY <1>1, <2>9 DEF FlushProtect, TypeOK, local
  <2>10. CASE FlushWrite(t)
    BY <1>1, <2>10 DEF FlushWrite, TypeOK, local
  <2>11. CASE FlushRelease(t)
    BY <1>3, <2>11 DEF FlushRelease
  <2>12. CASE DropClean(t)
    BY <1>3, <2>12 DEF DropClean
  <2>13. CASE MarkCleanAsDirty(t)
    BY <1>3, <2>13 DEF MarkCleanAsDirty
  <2>14. QED
    BY <1>5, <2>1, <2>2, <2>3, <2>4, <2>5, <2>6, <2>7, <2>8, <2>9, <2>10,
       <2>11, <2>12, <2>13 DEF Step
<1>6. CASE UNCHANGED vars
  BY <1>6 DEF vars, MutexInv, MutexOf
<1>7. QED
  BY <1>4, <1>5, <1>6 DEF Next
-----------------------------------------------------------------------------
(***************************************************************************)
(* The data, when the mapping is thread safe.                              *)
(***************************************************************************)

\* Two threads that hold their mutexes are never at the same segment.
LEMMA Exclusion ==
  ASSUME TypeOK, ControlInv, MutexInv,
         NEW t \in Threads, NEW u \in Threads, t # u, Inside(t), Inside(u)
  PROVE  cur[t] # cur[u]
<1>1. /\ cur[t] \in Segments /\ last[t] \in Segments /\ cur[t] <= last[t]
      /\ cur[u] \in Segments /\ last[u] \in Segments /\ cur[u] <= last[u]
  BY DEF TypeOK, ControlInv
<1>2. cur[t] \in cur[t]..last[t] /\ cur[u] \in cur[u]..last[u]
  BY <1>1, RangeOfSegments
<1>3. mutex[MutexOf(cur[t])] = t /\ mutex[MutexOf(cur[u])] = u
  BY <1>2 DEF MutexInv
<1>4. QED
  BY <1>3

\* A step of thread t at segment c that leaves the other segments and the
\* other threads alone needs to be examined at t and c only.
LEMMA OneSegment ==
  ASSUME IInv, NEW t \in Threads, Inside(t), NEW c \in Segments, c = cur[t],
         \A s \in Segments \ {c} :
           /\ prot'[s] = prot[s] /\ mem'[s] = mem[s] /\ storage'[s] = storage[s]
           /\ (s \in mapped') <=> (s \in mapped)
           /\ (s \in dirty') <=> (s \in dirty)
           /\ (s \in needRead') <=> (s \in needRead),
         \A u \in Threads \ {t} :
           pc'[u] = pc[u] /\ cur'[u] = cur[u] /\ buf'[u] = buf[u],
         PageAt(c)', LocalAt(t)'
  PROVE  PageInv' /\ LocalInv'
<1>1. ASSUME NEW s \in Segments PROVE PageAt(s)'
  <2>1. CASE s # c
    BY <2>1 DEF PageAt, IInv, PageInv
  <2>2. QED
    BY <2>1
<1>2. ASSUME NEW u \in Threads PROVE LocalAt(u)'
  <2>1. CASE u # t
    <3>1. LocalAt(u) /\ cur[u] \in Segments
      BY DEF IInv, LocalInv, TypeOK
    <3>2. Inside(u) => cur[u] # c
      BY <2>1, Exclusion DEF IInv
    <3>3. QED
      BY <2>1, <3>1, <3>2 DEF LocalAt, Inside
  <2>2. QED
    BY <2>1
<1>3. QED
  BY <1>1, <1>2 DEF PageInv, LocalInv

\* A step that leaves pages, status bits and storage alone and takes no
\* thread between two steps of an operation keeps the data invariants.
LEMMA NoData ==
  ASSUME IInv, NEW t \in Threads,
         UNCHANGED <<prot, mem, storage, mapped, dirty, needRead, buf>>,
         pc'[t] \in {"user", "lock", "seg"},
         \A u \in Threads \ {t} : pc'[u] = pc[u] /\ cur'[u] = cur[u]
  PROVE  PageInv' /\ LocalInv'
BY DEF IInv, PageInv, PageAt, LocalInv, LocalAt

\* Where a thread is once it is done with a segment of its range.
LEMMA AdvanceControl ==
  ASSUME TypeOK, NEW t \in Threads, Advance(t)
  PROVE  /\ pc'[t] \in {"user", "seg"}
         /\ \A u \in Threads \ {t} : pc'[u] = pc[u] /\ cur'[u] = cur[u]
BY DEF Advance, Done, TypeOK

\* Every step of a thread safe mapping keeps pages, status bits, memory and
\* storage consistent.
LEMMA DataStep == ThreadSafe /\ IInv /\ [Next]_vars => PageInv' /\ LocalInv'
<1> SUFFICES ASSUME ThreadSafe, IInv, [Next]_vars PROVE PageInv' /\ LocalInv'
  OBVIOUS
<1> USE MappingAssumption
<1>1. ASSUME NEW t \in Threads, Begin(t) PROVE PageInv' /\ LocalInv'
  <2>1. ASSUME NEW s \in Segments, IssueLoad(t, s) PROVE PageInv' /\ LocalInv'
    BY <2>1, NoData DEF IssueLoad, Call, IInv, TypeOK, page, status
  <2>2. ASSUME NEW s \in Segments, NEW v \in Values, IssueStore(t, s, v) PROVE PageInv' /\ LocalInv'
    BY <2>2, NoData DEF IssueStore, Call, IInv, TypeOK, page, status
  <2>3. ASSUME NEW o \in {"flush", "unmap"}, NEW lo \in Segments, NEW hi \in Segments, CallFlush(t, o, lo, hi)
        PROVE PageInv' /\ LocalInv'
    BY <2>3, NoData DEF CallFlush, Call, IInv, TypeOK, page, status
  <2>4. ASSUME NEW o \in {"drop", "dirty"}, CallOnAll(t, o) PROVE PageInv' /\ LocalInv'
    BY <2>4, NoData DEF CallOnAll, Call, IInv, TypeOK, page, status
  <2>5. QED
    BY <1>1, <2>1, <2>2, <2>3, <2>4 DEF Begin
<1>2. ASSUME NEW t \in Threads, Step(t) PROVE PageInv' /\ LocalInv'
  <2>c. PICK c \in Segments : c = cur[t]
    BY DEF IInv, TypeOK
  <2>0. c = cur[t] /\ PageAt(c) /\ LocalAt(t)
    BY <2>c DEF IInv, PageInv, LocalInv
  <2>1. CASE Load(t)
    BY <2>1, NoData, Zenon DEF Load, Done, IInv, TypeOK, page, status
  <2>2. CASE Store(t)
    <3>1. c \in dirty /\ c \in mapped
      BY <2>0, <2>2, SMTT(20) DEF Store, Permitted, PageAt
    <3>2. /\ UNCHANGED <<prot, mapped, dirty, needRead, storage, pc, buf>>
          /\ \A s \in Segments \ {c} : mem'[s] = mem[s]
          /\ \A u \in Threads \ {t} : cur'[u] = cur[u]
          /\ pc[t] = "user"
      BY <2>0, <2>2 DEF Store, Done, IInv, TypeOK, status
    <3>3. QED
      BY <3>1, <3>2, SMTT(20) DEF IInv, PageInv, PageAt, LocalInv, LocalAt
  <2>3. CASE Fault(t)
    BY <2>3, NoData DEF Fault, IInv, TypeOK, page, status, local
  <2>4. CASE Lock(t)
    <3>1. pc' = [pc EXCEPT ![t] = "seg"] \/ pc' = [pc EXCEPT ![t] = "lock"]
      BY <2>4, Zenon DEF Lock
    <3>2. UNCHANGED <<prot, mem, storage, mapped, dirty, needRead, cur, buf>>
      BY <2>4 DEF Lock, page, status, local
    <3>3. QED
      BY <3>1, <3>2, NoData DEF IInv, TypeOK
  <2>5. CASE FaultAlreadyDone(t)
    BY <2>5, NoData DEF FaultAlreadyDone, Return, IInv, TypeOK, page, status, local
  <2>6. CASE FaultRead(t)
    <3>1. Inside(t) /\ LocalAt(t)' /\ PageAt(c)'
      BY <2>0, <2>6 DEF FaultRead, Inside, LocalAt, PageAt, IInv, TypeOK, status, local
    <3>2. QED
      BY <2>0, <2>6, <3>1, OneSegment DEF FaultRead, IInv, TypeOK, status, local
  <2>7. CASE FaultSwap(t)
    <3>1. Inside(t) /\ LocalAt(t)' /\ PageAt(c)'
      BY <2>0, <2>7 DEF FaultSwap, Return, Inside, LocalAt, PageAt, IInv, TypeOK, local
    <3>2. QED
      BY <2>0, <2>7, <3>1, OneSegment DEF FaultSwap, Return, IInv, TypeOK, local
  <2>8. CASE FaultOpen(t)
    <3>1. Inside(t) /\ LocalAt(t)' /\ PageAt(c)'
      BY <2>0, <2>8 DEF FaultOpen, Return, AlreadyDone, IsWrite, Inside, LocalAt, PageAt, IInv, TypeOK, local
    <3>2. QED
      BY <2>0, <2>8, <3>1, OneSegment DEF FaultOpen, Return, IInv, TypeOK, local
  <2>9. CASE FlushProtect(t)
    <3>1. Inside(t) /\ LocalAt(t)' /\ PageAt(c)'
      BY <2>0, <2>9 DEF FlushProtect, MustWrite, Inside, LocalAt, PageAt, IInv, TypeOK, status, local
    <3>2. QED
      BY <2>0, <2>9, <3>1, OneSegment DEF FlushProtect, IInv, TypeOK, status, local
  <2>10. CASE FlushWrite(t)
    <3>1. Inside(t) /\ LocalAt(t)' /\ PageAt(c)'
      BY <2>0, <2>10, Zenon DEF FlushWrite, Inside, LocalAt, PageAt, IInv, TypeOK, page, local
    <3>2. QED
      BY <2>0, <2>10, <3>1, OneSegment DEF FlushWrite, IInv, TypeOK, page, local
  <2>11. CASE FlushRelease(t)
    <3>1. /\ Inside(t) /\ c \notin dirty \cap mapped
          /\ UNCHANGED <<dirty, needRead, storage, buf>>
          /\ Advance(t)
          /\ \/ UNCHANGED <<prot, mem, mapped>>
             \/ Drop(c) /\ c \in mapped
      BY <2>0, <2>11 DEF FlushRelease, MustWrite, Inside, LocalAt, page
    <3>2. pc'[t] \in {"user", "seg"}
      BY <3>1, AdvanceControl DEF IInv
    <3>3. PageAt(c)' /\ LocalAt(t)'
      BY <2>0, <3>1, <3>2, Zenon DEF Drop, LocalAt, PageAt, IInv, TypeOK
    <3>4. QED
      BY <2>0, <3>1, <3>3, AdvanceControl, OneSegment, ZenonT(40) DEF Drop, IInv, TypeOK
  <2>12. CASE DropClean(t)
    <3>1. /\ Inside(t)
          /\ UNCHANGED <<dirty, needRead, storage, buf>>
          /\ Advance(t)
          /\ \/ UNCHANGED <<prot, mem, mapped>>
             \/ Drop(c) /\ c \in mapped \ dirty
      BY <2>0, <2>12, Zenon DEF DropClean, Inside, page
    <3>2. pc'[t] \in {"user", "seg"}
      BY <3>1, AdvanceControl, Zenon DEF IInv
    <3>3. PageAt(c)' /\ LocalAt(t)'
      BY <2>0, <3>1, <3>2, Zenon DEF Drop, LocalAt, PageAt, IInv, TypeOK
    <3>4. QED
      BY <2>0, <3>1, <3>3, AdvanceControl, OneSegment, ZenonT(40) DEF Drop, IInv, TypeOK
  <2>13. CASE MarkCleanAsDirty(t)
    <3>1. /\ Inside(t)
          /\ UNCHANGED <<mem, mapped, needRead, storage, buf>>
          /\ Advance(t)
          /\ \/ UNCHANGED <<prot, dirty>>
             \/ /\ c \in mapped
                /\ prot' = [prot EXCEPT ![c] = "rw"]
                /\ dirty' = dirty \cup {c}
      BY <2>0, <2>13 DEF MarkCleanAsDirty, Inside
    <3>2. pc'[t] \in {"user", "seg"}
      BY <3>1, AdvanceControl, Zenon DEF IInv
    <3>3. PageAt(c)' /\ LocalAt(t)'
      BY <2>0, <3>1, <3>2, Zenon DEF LocalAt, PageAt, IInv, TypeOK
    <3>4. QED
      BY <2>0, <3>1, <3>3, AdvanceControl, OneSegment, Zenon DEF IInv, TypeOK
  <2>14. QED
    BY <1>2, <2>1, <2>2, <2>3, <2>4, <2>5, <2>6, <2>7, <2>8, <2>9, <2>10,
       <2>11, <2>12, <2>13 DEF Step
<1>3. CASE UNCHANGED vars
  BY <1>3 DEF vars, IInv, PageInv, PageAt, LocalInv, LocalAt
<1>4. QED
  BY <1>1, <1>2, <1>3 DEF Next
-----------------------------------------------------------------------------
(***************************************************************************)
(* The theorems.                                                           *)
(***************************************************************************)

\* The constructor establishes the invariant.
LEMMA InitInv == Init => IInv
<1> SUFFICES ASSUME Init PROVE IInv
  OBVIOUS
<1> USE MappingAssumption, EndSegments
<1>1. TypeOK
  BY DEF Init, TypeOK
<1>2. ControlInv
  BY DEF Init, ControlInv, Access
<1>3. MutexInv
  BY DEF Init, MutexInv, Inside
<1>4. PageInv
  BY DEF Init, PageInv, PageAt
<1>5. LocalInv
  BY DEF Init, LocalInv, LocalAt
<1>6. QED
  BY <1>1, <1>2, <1>3, <1>4, <1>5 DEF IInv

\* The variables of Mapping keep their types, whatever the threads do.
THEOREM TypeCorrect == Spec => []TypeOK
<1>1. Init => TypeOK /\ ControlInv
  BY InitInv DEF IInv
<1>2. TypeOK /\ ControlInv /\ [Next]_vars => (TypeOK /\ ControlInv)'
  BY TypeStep, ControlStep
<1>3. QED
  BY <1>1, <1>2, PTL DEF Spec

\* The inductive invariant of a thread safe mapping.
THEOREM Invariance == ASSUME ThreadSafe PROVE Spec => []IInv
<1>1. IInv /\ [Next]_vars => IInv'
  BY TypeStep, ControlStep, MutexStep, DataStep DEF IInv
<1>2. QED
  BY InitInv, <1>1, PTL DEF Spec

\* In a thread safe mapping a segment that is not dirty reads as the storage
\* does: flush(), evict() and dropClean() may take it away.
THEOREM NothingLost == ASSUME ThreadSafe PROVE Spec => []CleanIsStored
<1>1. IInv => CleanIsStored
  BY DEF IInv, PageInv, PageAt, CleanIsStored, Content
<1>2. QED
  BY <1>1, Invariance, PTL

\* In a thread safe mapping no page is open for writing behind the back of
\* the dirty bit that flush() looks at.
THEOREM NoUnseenStore == ASSUME ThreadSafe PROVE Spec => []WritableIsDirty
<1>1. IInv => WritableIsDirty
  BY DEF IInv, PageInv, PageAt, WritableIsDirty, TypeOK
<1>2. QED
  BY <1>1, Invariance, PTL

\* In a thread safe mapping a flush leaves in the storage what the user reads.
THEOREM FlushIsComplete == ASSUME ThreadSafe PROVE Spec => FlushReachesStorage
<1>1. ASSUME IInv, IInv', [Next]_vars, NEW t \in Threads, FlushRelease(t),
             NEW s \in {cur[t]} \cap needRead'
      PROVE  storage'[s] = Content'[s]
  <2>1. s \in Segments /\ s \notin dirty'
    <3>1. s = cur[t] /\ cur[t] \in Segments
      BY <1>1 DEF IInv, TypeOK
    <3>2. dirty' = dirty /\ (pc[t] = "written" \/ ~MustWrite(t))
      BY <1>1 DEF FlushRelease
    <3>3. LocalAt(t) /\ PageAt(cur[t])
      BY <1>1, <3>1 DEF IInv, LocalInv, PageInv
    <3>4. QED
      BY <3>1, <3>2, <3>3 DEF MustWrite, LocalAt, PageAt
  <2>2. PageAt(s)'
    BY <1>1, <2>1 DEF IInv, PageInv
  <2>3. QED
    BY <1>1, <2>1, <2>2, Zenon DEF PageAt, Content
<1>2. IInv /\ IInv' /\ [Next]_vars =>
        [\A t \in Threads : FlushRelease(t) =>
           \A s \in {cur[t]} \cap needRead' : storage'[s] = Content'[s]]_vars
  BY <1>1
<1>3. QED
  BY <1>2, Invariance, PTL DEF Spec, FlushReachesStorage
-----------------------------------------------------------------------------
(***************************************************************************)
(* Refinement of UserMemory.                                               *)
(***************************************************************************)

\* A step of t at segment c that preserves the content of c, and is not the
\* beginning or the end of an access, is invisible to the user.
LEMMA Invisible ==
  ASSUME IInv, NEW t \in Threads, NEW c \in Segments,
         \A s \in Segments \ {c} :
           /\ mem'[s] = mem[s] /\ storage'[s] = storage[s]
           /\ (s \in mapped') <=> (s \in mapped)
           /\ (s \in needRead') <=> (s \in needRead),
         Content'[c] = Content[c],
         UNCHANGED val,
         \A u \in Threads \ {t} : op'[u] = op[u] /\ cur'[u] = cur[u],
         \/ op'[t] = op[t] /\ cur'[t] = cur[t]
         \/ op[t] \notin Access /\ op'[t] \notin Access
  PROVE  UNCHANGED User!vars
<1>1. Content' = Content
  BY DEF Content
<1>2. [u \in Threads |-> IF op[u] \in Access THEN op[u] ELSE "none"]'
        = [u \in Threads |-> IF op[u] \in Access THEN op[u] ELSE "none"]
  BY DEF Access
<1>3. [u \in Threads |-> IF op[u] \in Access THEN cur[u] ELSE 0]'
        = [u \in Threads |-> IF op[u] \in Access THEN cur[u] ELSE 0]
  BY DEF Access
<1>4. QED
  BY <1>1, <1>2, <1>3 DEF User!vars

\* How a thread that visits a range goes on with its operation.
LEMMA AdvanceOp ==
  ASSUME TypeOK, NEW t \in Threads, Advance(t)
  PROVE  /\ op'[t] \in {op[t], "none"}
         /\ \A u \in Threads \ {t} : op'[u] = op[u] /\ cur'[u] = cur[u]
BY Zenon DEF Advance, Done, TypeOK

\* A call to load or store is the request of an access.
LEMMA IssueMaps ==
  ASSUME TypeOK, NEW t \in Threads, NEW o \in Access, NEW s \in Segments,
         NEW v \in Values, Call(t, o, s, s), val' = [val EXCEPT ![t] = v],
         Content' = Content
  PROVE  User!Issue(t)
<1> DEFINE request == [u \in Threads |-> IF op[u] \in Access THEN op[u] ELSE "none"]
           target == [u \in Threads |-> IF op[u] \in Access THEN cur[u] ELSE 0]
<1>1. request[t] = "none"
  BY DEF Call, Access
<1>2. request' = [request EXCEPT ![t] = o]
  BY Zenon DEF Call, TypeOK
<1>3. target' = [target EXCEPT ![t] = s]
  BY Zenon DEF Call, TypeOK
<1>4. o \in {"load", "store"}
  BY DEF Access
<1>5. QED
  BY <1>1, <1>2, <1>3, <1>4, Zenon DEF User!Issue

\* Every step of a thread safe mapping is a step of the memory the user sees,
\* or is invisible to the user.
LEMMA UserStep ==
  ThreadSafe /\ IInv /\ IInv' /\ [Next]_vars => [User!Next]_(User!vars)
<1> SUFFICES ASSUME ThreadSafe, IInv, IInv', [Next]_vars PROVE [User!Next]_(User!vars)
  OBVIOUS
<1> USE MappingAssumption
<1>1. ASSUME NEW t \in Threads, Begin(t) PROVE [User!Next]_(User!vars)
  <2>1. ASSUME NEW s \in Segments, IssueLoad(t, s) PROVE User!Issue(t)
    <3>1. Content' = Content
      BY <2>1 DEF IssueLoad, Content, page, status
    <3>2. Call(t, "load", s, s) /\ val' = [val EXCEPT ![t] = Zero] /\ "load" \in Access
      BY <2>1 DEF IssueLoad, Access
    <3>3. TypeOK
      BY DEF IInv
    <3>4. QED
      BY <3>1, <3>2, <3>3, IssueMaps, Zenon
  <2>2. ASSUME NEW s \in Segments, NEW v \in Values, IssueStore(t, s, v) PROVE User!Issue(t)
    <3>1. Content' = Content
      BY <2>2 DEF IssueStore, Content, page, status
    <3>2. Call(t, "store", s, s) /\ val' = [val EXCEPT ![t] = v] /\ "store" \in Access
      BY <2>2 DEF IssueStore, Access
    <3>3. TypeOK
      BY SMTT(20) DEF IInv
    <3>4. QED
      BY <3>1, <3>2, <3>3, IssueMaps, Zenon
  <2>3. ASSUME NEW o \in {"flush", "unmap"}, NEW lo \in Segments, NEW hi \in Segments, CallFlush(t, o, lo, hi)
        PROVE UNCHANGED User!vars
    <3>1. Content' = Content
      BY <2>3, Zenon DEF CallFlush, Content, page, status
    <3>2. QED
      BY <2>3, <3>1, EndSegments, Invisible DEF CallFlush, Call, page, status, IInv, TypeOK, Access
  <2>4. ASSUME NEW o \in {"drop", "dirty"}, CallOnAll(t, o) PROVE UNCHANGED User!vars
    <3>1. Content' = Content
      BY <2>4 DEF CallOnAll, Content, page, status
    <3>2. QED
      BY <2>4, <3>1, EndSegments, Invisible, ZenonT(40) DEF CallOnAll, Call, page, status, IInv, TypeOK, Access
  <2>5. QED
    BY <1>1, <2>1, <2>2, <2>3, <2>4 DEF Begin, User!Next
<1>2. ASSUME NEW t \in Threads, Step(t) PROVE [User!Next]_(User!vars)
  <2>c. PICK c \in Segments : c = cur[t]
    BY DEF IInv, TypeOK
  <2>0. c = cur[t] /\ PageAt(c) /\ LocalAt(t)
    BY <2>c DEF IInv, PageInv, LocalInv
  <2>1. CASE Load(t)
    <3>1. Content' = Content
      BY <2>1 DEF Load, Content, page, status
    <3>2. Content[c] = mem[c]
      BY <2>0, <2>1, Zenon DEF Load, Permitted, PageAt, Content
    <3>3. User!Load(t)
      BY <2>0, <2>1, <3>1, <3>2, ZenonT(40) DEF Load, Done, User!Load, IInv, TypeOK, Access
    <3>4. QED
      BY <3>3, ZenonT(40) DEF User!Next
  <2>2. CASE Store(t)
    <3>1. c \in mapped
      BY <2>0, <2>2 DEF Store, Permitted, PageAt
    <3>2. Content' = [Content EXCEPT ![c] = val[t]]
      BY <2>0, <2>2, <3>1, Zenon DEF Store, Content, status, IInv, TypeOK
    <3>3. User!Store(t)
      BY <2>0, <2>2, <3>2, ZenonT(40) DEF Store, Done, User!Store, IInv, TypeOK, Access
    <3>4. QED
      BY <3>3 DEF User!Next
  <2>3. CASE Fault(t)
    <3>1. Content' = Content
      BY <2>3 DEF Fault, Content, page, status
    <3>2. QED
      BY <2>3, <3>1, Invisible, Zenon DEF Fault, page, status, local
  <2>4. CASE Lock(t)
    <3>1. UNCHANGED <<prot, mem, storage, mapped, dirty, needRead, op, cur, val>>
      BY <2>4 DEF Lock, page, status, local
    <3>2. Content' = Content
      BY <3>1, Zenon DEF Content
    <3>3. QED
      BY <3>1, <3>2, Invisible
  <2>5. CASE FaultAlreadyDone(t)
    <3>1. Content' = Content
      BY <2>5 DEF FaultAlreadyDone, Content, page, status
    <3>2. QED
      BY <2>5, <3>1, Invisible DEF FaultAlreadyDone, Return, page, status, local
  <2>6. CASE FaultRead(t)
    <3>1. Content' = Content
      BY <2>6, Zenon DEF FaultRead, Content, status
    <3>2. QED
      BY <2>6, <3>1, Invisible, Zenon DEF FaultRead, status, local
  <2>7. CASE FaultSwap(t)
    <3>1. Content'[c] = Content[c]
      BY <2>0, <2>7, Z3 DEF FaultSwap, LocalAt, Content, IInv, TypeOK
    <3>2. QED
      BY <2>0, <2>7, <3>1, Invisible, Zenon DEF FaultSwap, Return, local, IInv, TypeOK
  <2>8. CASE FaultOpen(t)
    <3>1. Content'[c] = Content[c]
      BY <2>0, <2>8, Zenon DEF FaultOpen, PageAt, Content, IInv, TypeOK
    <3>2. QED
      BY <2>0, <2>8, <3>1, Invisible, Zenon DEF FaultOpen, Return, local, IInv, TypeOK
  <2>9. CASE FlushProtect(t)
    <3>1. Content' = Content
      BY <2>9, Zenon DEF FlushProtect, Content, status
    <3>2. QED
      BY <2>9, <3>1, Invisible, Zenon DEF FlushProtect, status, local
  <2>10. CASE FlushWrite(t)
    <3>1. Content'[c] = Content[c]
      BY <2>0, <2>10, Zenon DEF FlushWrite, LocalAt, PageAt, Content, page
    <3>2. QED
      BY <2>0, <2>10, <3>1, Invisible, Zenon DEF FlushWrite, page, local, IInv, TypeOK
  <2>11. CASE FlushRelease(t)
    <3>1. /\ op[t] \notin Access
          /\ c \notin dirty \cap mapped
          /\ UNCHANGED <<dirty, needRead, storage, val>>
          /\ Advance(t)
          /\ \/ UNCHANGED <<mem, mapped>>
             \/ Drop(c) /\ c \in mapped
      BY <2>0, <2>11, Zenon DEF FlushRelease, MustWrite, LocalAt, IInv, ControlInv, Access, page
    <3>2. Content'[c] = Content[c]
      BY <2>0, <3>1, Zenon DEF Drop, Content, PageAt, IInv, TypeOK
    <3>3. /\ op'[t] \notin Access
          /\ \A u \in Threads \ {t} : op'[u] = op[u] /\ cur'[u] = cur[u]
      BY <3>1, AdvanceOp, Zenon DEF IInv, Access
    <3>4. \A s \in Segments \ {c} :
            mem'[s] = mem[s] /\ (s \in mapped' <=> s \in mapped)
      BY <3>1, Z3 DEF Drop, IInv, TypeOK
    <3>5. QED
      BY <3>1, <3>2, <3>3, <3>4, Invisible, Zenon
  <2>12. CASE DropClean(t)
    <3>1. /\ op[t] \notin Access
          /\ UNCHANGED <<dirty, needRead, storage, val>>
          /\ Advance(t)
          /\ \/ UNCHANGED <<mem, mapped>>
             \/ Drop(c) /\ c \in mapped \ dirty
      BY <2>0, <2>12, Zenon DEF DropClean, Access, page
    <3>2. Content'[c] = Content[c]
      BY <2>0, <3>1, Zenon DEF Drop, Content, PageAt, IInv, TypeOK
    <3>3. /\ op'[t] \notin Access
          /\ \A u \in Threads \ {t} : op'[u] = op[u] /\ cur'[u] = cur[u]
      BY <3>1, AdvanceOp, Zenon DEF IInv, Access
    <3>4. \A s \in Segments \ {c} :
            mem'[s] = mem[s] /\ (s \in mapped' <=> s \in mapped)
      BY <3>1, Z3 DEF Drop, IInv, TypeOK
    <3>5. QED
      BY <3>1, <3>2, <3>3, <3>4, Invisible, Zenon
  <2>13. CASE MarkCleanAsDirty(t)
    <3>1. /\ op[t] \notin Access
          /\ UNCHANGED <<mem, mapped, needRead, storage, val>>
          /\ Advance(t)
      BY <2>13 DEF MarkCleanAsDirty, Access
    <3>2. Content' = Content
      BY <3>1, Zenon DEF Content
    <3>3. /\ op'[t] \notin Access
          /\ \A u \in Threads \ {t} : op'[u] = op[u] /\ cur'[u] = cur[u]
      BY <3>1, AdvanceOp DEF IInv, Access
    <3>4. QED
      BY <3>1, <3>2, <3>3, Invisible, ZenonT(40)
  <2>14. QED
    BY <1>2, <2>1, <2>2, <2>3, <2>4, <2>5, <2>6, <2>7, <2>8, <2>9, <2>10,
       <2>11, <2>12, <2>13 DEF Step
<1>3. CASE UNCHANGED vars
  BY <1>3 DEF vars, User!vars, Content
<1>4. QED
  BY <1>1, <1>2, <1>3 DEF Next

\* A thread safe mapping implements one memory: no load ever returns anything
\* but the last store, whatever is evicted, flushed or dropped meanwhile.
THEOREM Refinement == ASSUME ThreadSafe PROVE Spec => ImplementsUserMemory
<1>1. Init => User!Init
  <2> SUFFICES ASSUME Init PROVE User!Init
    OBVIOUS
  <2>1. Content \in [Segments -> Values]
    BY MappingAssumption DEF Init, Content
  <2>2. QED
    BY <2>1, MappingAssumption DEF Init, User!Init, Access
<1>2. QED
  BY <1>1, UserStep, Invariance, PTL DEF Spec, ImplementsUserMemory, User!Spec
=============================================================================
