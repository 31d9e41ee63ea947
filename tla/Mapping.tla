------------------------------- MODULE Mapping -------------------------------
(***************************************************************************)
(* One memory mapping (src/src/core/Mapping.cpp): its segments, their      *)
(* status bits, the page protection the kernel enforces, the memory and    *)
(* the storage behind it, and the threads that access it.                  *)
(*                                                                         *)
(* A thread runs user code; a load or store the protection forbids raises  *)
(* SIGSEGV and enters onSegmentationFault(), after which the instruction   *)
(* is executed again.  Threads also call flush() (umflush, umsync, and     *)
(* evict() when a policy asks for it), dropClean() and markCleanAsDirty(). *)
(*                                                                         *)
(* Which segments a policy evicts, and when, is left open here: any        *)
(* thread may evict any segment at any time.                               *)
(*                                                                         *)
(* The content of a segment is one value.  The status bits of a segment    *)
(* are read and written only by the holder of its mutex, so the mprotect   *)
(* and the status update that follows it are one step.                     *)
(***************************************************************************)
EXTENDS Naturals, FiniteSets

CONSTANTS
  Threads,       (* threads of the process                                 *)
  NoThread,      (* owner of a free mutex                                  *)
  SegmentCount,  (* number of segments of the mapping                      *)
  MutexCnt,      (* segmentMutexesCnt: the mutexes the segments share      *)
  Values,        (* contents of a segment                                  *)
  Zero,          (* content of a segment the kernel filled with zeroes     *)
  ThreadSafe,    (* FALSE under UMMAP_THREAD_UNSAFE                        *)
  Writable,      (* the mapping has PROT_WRITE                             *)
  Work           (* the operations each thread calls                       *)

Access == {"load", "store"}
Operations == Access \cup {"flush", "unmap", "drop", "dirty"}
Segments == 0..(SegmentCount - 1)
Mutexes == 0..(MutexCnt - 1)

ASSUME MappingAssumption ==
  /\ SegmentCount \in Nat \ {0}
  /\ MutexCnt \in 1..SegmentCount
  /\ Zero \in Values
  /\ NoThread \notin Threads
  /\ ThreadSafe \in BOOLEAN
  /\ Writable \in BOOLEAN
  /\ Work \in [Threads -> SUBSET Operations]

VARIABLES
  prot,      (* protection of the pages of each segment                    *)
  mem,       (* content of the pages of each segment                       *)
  storage,   (* content of the storage behind each segment                 *)
  mapped,    (* segments with status.mapped                                *)
  dirty,     (* segments with status.dirty                                 *)
  needRead,  (* segments with status.needRead                              *)
  mutex,     (* owner of each of segmentMutexes                            *)
  pc,        (* where each thread is                                       *)
  op,        (* the operation each thread executes                         *)
  cur,       (* the segment it is at                                       *)
  last,      (* the last segment of its range                              *)
  val,       (* its register: value to store, or value loaded              *)
  buf        (* the private segment loadAndSwapSegment() reads into        *)

page == <<prot, mem>>
status == <<mapped, dirty, needRead>>
local == <<op, cur, last, val>>
vars == <<prot, mem, storage, mapped, dirty, needRead, mutex, pc, op, cur,
          last, val, buf>>

\* Segment s is protected by mutex s % segmentMutexesCnt.
MutexOf(s) == s % MutexCnt

Init ==
  /\ prot = [s \in Segments |-> "none"]
  /\ mem = [s \in Segments |-> Zero]
  /\ storage \in [Segments -> Values]
  /\ mapped = {}
  /\ dirty = {}
  /\ needRead \in {Segments, {}}        \* {} under UMMAP_NO_FIRST_READ
  /\ mutex = [m \in Mutexes |-> NoThread]
  /\ pc = [t \in Threads |-> "user"]
  /\ op = [t \in Threads |-> "none"]
  /\ cur = [t \in Threads |-> 0]
  /\ last = [t \in Threads |-> 0]
  /\ val = [t \in Threads |-> Zero]
  /\ buf = [t \in Threads |-> Zero]

-----------------------------------------------------------------------------
(***************************************************************************)
(* User code.                                                              *)
(***************************************************************************)

\* Thread t starts operation o on the segments lo..hi.
Call(t, o, lo, hi) ==
  /\ pc[t] = "user" /\ op[t] = "none"
  /\ o \in Work[t]
  /\ op' = [op EXCEPT ![t] = o]
  /\ cur' = [cur EXCEPT ![t] = lo]
  /\ last' = [last EXCEPT ![t] = hi]

\* The operation of t is over: its locals are dead.
Done(t) ==
  /\ op' = [op EXCEPT ![t] = "none"]
  /\ cur' = [cur EXCEPT ![t] = 0]
  /\ last' = [last EXCEPT ![t] = 0]

IssueLoad(t, s) ==
  /\ Call(t, "load", s, s)
  /\ val' = [val EXCEPT ![t] = Zero]
  /\ UNCHANGED <<page, status, storage, mutex, pc, buf>>

\* A store to a mapping without PROT_WRITE ends the process (UMMAP_FATAL).
IssueStore(t, s, v) ==
  /\ Writable
  /\ Call(t, "store", s, s)
  /\ val' = [val EXCEPT ![t] = v]
  /\ UNCHANGED <<page, status, storage, mutex, pc, buf>>

Permitted(t) ==
  \/ op[t] = "load" /\ prot[cur[t]] # "none"
  \/ op[t] = "store" /\ prot[cur[t]] = "rw"

Load(t) ==
  /\ pc[t] = "user" /\ op[t] = "load" /\ Permitted(t)
  /\ val' = [val EXCEPT ![t] = mem[cur[t]]]
  /\ Done(t)
  /\ UNCHANGED <<page, status, storage, mutex, pc, buf>>

Store(t) ==
  /\ pc[t] = "user" /\ op[t] = "store" /\ Permitted(t)
  /\ mem' = [mem EXCEPT ![cur[t]] = val[t]]
  /\ Done(t)
  /\ UNCHANGED <<prot, status, storage, mutex, pc, val, buf>>

\* The instruction is refused: SIGSEGV enters onSegmentationFault().
Fault(t) ==
  /\ pc[t] = "user" /\ op[t] \in Access /\ ~Permitted(t)
  /\ pc' = [pc EXCEPT ![t] = "lock"]
  /\ UNCHANGED <<page, status, storage, mutex, local, buf>>
-----------------------------------------------------------------------------
(***************************************************************************)
(* Mutexes.                                                                *)
(***************************************************************************)

\* The mutexes of the range, taken one by one in ascending order.
Needed(t) == {MutexOf(s) : s \in cur[t]..last[t]}

\* Mutant of Lock: the mutexes of the range are taken in any order.
LockInAnyOrder(t) ==
  /\ pc[t] = "lock"
  /\ \E m \in Needed(t) :
       /\ mutex[m] = NoThread
       /\ mutex' = [mutex EXCEPT ![m] = t]
       /\ pc' = [pc EXCEPT ![t] =
                   IF \A k \in Needed(t) : k = m \/ mutex[k] = t
                   THEN "seg" ELSE "lock"]
  /\ UNCHANGED <<page, status, storage, local, buf>>

Lock(t) ==
  /\ pc[t] = "lock"
  /\ \E m \in Needed(t) :
       /\ mutex[m] = NoThread
       /\ \A k \in Needed(t) : k < m => mutex[k] = t
       /\ mutex' = [mutex EXCEPT ![m] = t]
       /\ pc' = [pc EXCEPT ![t] =
                   IF \A k \in Needed(t) : k = m \/ mutex[k] = t
                   THEN "seg" ELSE "lock"]
  /\ UNCHANGED <<page, status, storage, local, buf>>

\* Releasing a mutex never waits, so releasing all of them is one step.
Unlock(t) ==
  mutex' = [m \in Mutexes |-> IF mutex[m] = t THEN NoThread ELSE mutex[m]]
-----------------------------------------------------------------------------
(***************************************************************************)
(* onSegmentationFault().  Leaving the handler, the thread executes its    *)
(* instruction again.                                                      *)
(***************************************************************************)

Return(t) ==
  /\ Unlock(t)
  /\ pc' = [pc EXCEPT ![t] = "user"]
  /\ UNCHANGED local

IsWrite(t) == op[t] = "store"

\* "isWrite == status.dirty && status.mapped": another thread did the work.
AlreadyDone(t) == cur[t] \in mapped /\ (IsWrite(t) <=> cur[t] \in dirty)

FaultAlreadyDone(t) ==
  /\ pc[t] = "seg" /\ op[t] \in Access
  /\ AlreadyDone(t)
  /\ Return(t)
  /\ UNCHANGED <<page, status, storage, buf>>

\* Read the storage into a private segment; UMMAP_THREAD_UNSAFE opens the
\* pages of the mapping instead, to read into them.
FaultRead(t) ==
  /\ pc[t] = "seg" /\ op[t] \in Access
  /\ cur[t] \notin mapped /\ cur[t] \in needRead
  /\ IF ThreadSafe
     THEN /\ buf' = [buf EXCEPT ![t] = storage[cur[t]]]
          /\ UNCHANGED prot
     ELSE /\ prot' = [prot EXCEPT ![cur[t]] = "rw"]
          /\ UNCHANGED buf
  /\ pc' = [pc EXCEPT ![t] = "load"]
  /\ UNCHANGED <<mem, status, storage, mutex, local>>

\* Mutant of FaultSwap: a store that had to read first is not noted.
FaultSwapNotDirty(t) ==
  /\ pc[t] = "load"
  /\ mem' = [mem EXCEPT ![cur[t]] = IF ThreadSafe THEN buf[t]
                                                  ELSE storage[cur[t]]]
  /\ prot' = [prot EXCEPT ![cur[t]] = IF IsWrite(t) THEN "rw" ELSE "ro"]
  /\ mapped' = mapped \cup {cur[t]}
  /\ buf' = [buf EXCEPT ![t] = Zero]
  /\ Return(t)
  /\ UNCHANGED <<storage, dirty, needRead>>

\* Move the private segment over the one of the mapping (mremap).
FaultSwap(t) ==
  /\ pc[t] = "load"
  /\ mem' = [mem EXCEPT ![cur[t]] = IF ThreadSafe THEN buf[t]
                                                  ELSE storage[cur[t]]]
  /\ prot' = [prot EXCEPT ![cur[t]] = IF IsWrite(t) THEN "rw" ELSE "ro"]
  /\ dirty' = IF IsWrite(t) THEN dirty \cup {cur[t]} ELSE dirty
  /\ mapped' = mapped \cup {cur[t]}
  /\ buf' = [buf EXCEPT ![t] = Zero]
  /\ Return(t)
  /\ UNCHANGED <<storage, needRead>>

\* Nothing to read: a first touch without needRead, or a mapped segment.
FaultOpen(t) ==
  /\ pc[t] = "seg" /\ op[t] \in Access
  /\ ~AlreadyDone(t)
  /\ cur[t] \in mapped \/ cur[t] \notin needRead
  /\ prot' = [prot EXCEPT ![cur[t]] = IF IsWrite(t) THEN "rw" ELSE "ro"]
  /\ dirty' = IF IsWrite(t) THEN dirty \cup {cur[t]} ELSE dirty
  /\ mapped' = mapped \cup {cur[t]}
  /\ Return(t)
  /\ UNCHANGED <<mem, storage, needRead, buf>>
-----------------------------------------------------------------------------
(***************************************************************************)
(* flush(), dropClean() and markCleanAsDirty(): lock the range, visit its  *)
(* segments in order, unlock.                                              *)
(***************************************************************************)

\* flush(offset, size, flags): "unmap" is UMMAP_FLUSH_UNMAP, which evict()
\* asks for on one segment.
CallFlush(t, o, lo, hi) ==
  /\ o \in {"flush", "unmap"} /\ lo <= hi
  /\ Call(t, o, lo, hi)
  /\ pc' = [pc EXCEPT ![t] = "lock"]
  /\ UNCHANGED <<page, status, storage, mutex, val, buf>>

CallOnAll(t, o) ==
  /\ o \in {"drop", "dirty"}
  /\ Call(t, o, 0, SegmentCount - 1)
  /\ pc' = [pc EXCEPT ![t] = "lock"]
  /\ UNCHANGED <<page, status, storage, mutex, val, buf>>

\* Mutant of Advance: one segment too many.
AdvanceTooFar(t) ==
  IF cur[t] > last[t]
  THEN /\ Unlock(t)
       /\ pc' = [pc EXCEPT ![t] = "user"]
       /\ Done(t)
  ELSE /\ cur' = [cur EXCEPT ![t] = @ + 1]
       /\ pc' = [pc EXCEPT ![t] = "seg"]
       /\ UNCHANGED <<mutex, op, last>>

\* Go to the next segment of the range, or unlock and return.
Advance(t) ==
  IF cur[t] = last[t]
  THEN /\ Unlock(t)
       /\ pc' = [pc EXCEPT ![t] = "user"]
       /\ Done(t)
  ELSE /\ cur' = [cur EXCEPT ![t] = @ + 1]
       /\ pc' = [pc EXCEPT ![t] = "seg"]
       /\ UNCHANGED <<mutex, op, last>>

MustWrite(t) == cur[t] \in dirty \cap mapped

\* Mutant of FlushProtect: the pages stay writable while they are written.
FlushProtectNothing(t) ==
  /\ pc[t] = "seg" /\ op[t] \in {"flush", "unmap"}
  /\ MustWrite(t)
  /\ pc' = [pc EXCEPT ![t] = "write"]
  /\ UNCHANGED <<page, status, storage, mutex, local, buf>>

\* Forbid the writes before the data is taken, so that no store is missed.
FlushProtect(t) ==
  /\ pc[t] = "seg" /\ op[t] \in {"flush", "unmap"}
  /\ MustWrite(t)
  /\ prot' = IF ThreadSafe THEN [prot EXCEPT ![cur[t]] = "ro"] ELSE prot
  /\ pc' = [pc EXCEPT ![t] = "write"]
  /\ UNCHANGED <<mem, status, storage, mutex, local, buf>>

\* Mutant of FlushWrite: needRead is left as it was.
FlushWriteNoRead(t) ==
  /\ pc[t] = "write"
  /\ storage' = [storage EXCEPT ![cur[t]] = mem[cur[t]]]
  /\ dirty' = dirty \ {cur[t]}
  /\ pc' = [pc EXCEPT ![t] = "written"]
  /\ UNCHANGED <<page, mapped, needRead, mutex, local, buf>>

FlushWrite(t) ==
  /\ pc[t] = "write"
  /\ storage' = [storage EXCEPT ![cur[t]] = mem[cur[t]]]
  /\ dirty' = dirty \ {cur[t]}
  /\ needRead' = needRead \cup {cur[t]}
  /\ pc' = [pc EXCEPT ![t] = "written"]
  /\ UNCHANGED <<page, mapped, mutex, local, buf>>

\* Take segment s away: PROT_NONE, then MADV_DONTNEED.
Drop(s) ==
  /\ prot' = [prot EXCEPT ![s] = "none"]
  /\ mem' = [mem EXCEPT ![s] = Zero]
  /\ mapped' = mapped \ {s}

FlushRelease(t) ==
  /\ \/ pc[t] = "written"
     \/ pc[t] = "seg" /\ op[t] \in {"flush", "unmap"} /\ ~MustWrite(t)
  /\ \/ /\ op[t] = "unmap" /\ cur[t] \in mapped
        /\ Drop(cur[t])
     \/ /\ op[t] = "flush" /\ cur[t] \in mapped /\ ~ThreadSafe
        /\ prot' = [prot EXCEPT ![cur[t]] = "ro"]
        /\ UNCHANGED <<mem, mapped>>
     \/ /\ cur[t] \notin mapped \/ (op[t] = "flush" /\ ThreadSafe)
        /\ UNCHANGED <<page, mapped>>
  /\ Advance(t)
  /\ UNCHANGED <<dirty, needRead, storage, val, buf>>

\* Mutant of DropClean: dirty segments are dropped too.
DropAll(t) ==
  /\ pc[t] = "seg" /\ op[t] = "drop"
  /\ IF cur[t] \in mapped
     THEN Drop(cur[t])
     ELSE UNCHANGED <<page, mapped>>
  /\ Advance(t)
  /\ UNCHANGED <<dirty, needRead, storage, val, buf>>

DropClean(t) ==
  /\ pc[t] = "seg" /\ op[t] = "drop"
  /\ IF cur[t] \in mapped \ dirty
     THEN Drop(cur[t])
     ELSE UNCHANGED <<page, mapped>>
  /\ Advance(t)
  /\ UNCHANGED <<dirty, needRead, storage, val, buf>>

MarkCleanAsDirty(t) ==
  /\ pc[t] = "seg" /\ op[t] = "dirty"
  /\ IF cur[t] \in mapped \ dirty /\ Writable
     THEN /\ prot' = [prot EXCEPT ![cur[t]] = "rw"]
          /\ dirty' = dirty \cup {cur[t]}
     ELSE UNCHANGED <<prot, dirty>>
  /\ Advance(t)
  /\ UNCHANGED <<mem, mapped, needRead, storage, val, buf>>
-----------------------------------------------------------------------------
\* A thread starts an operation.
Begin(t) ==
  \/ \E s \in Segments : IssueLoad(t, s)
  \/ \E s \in Segments, v \in Values : IssueStore(t, s, v)
  \/ \E o \in {"flush", "unmap"}, lo, hi \in Segments : CallFlush(t, o, lo, hi)
  \/ \E o \in {"drop", "dirty"} : CallOnAll(t, o)

\* A thread goes on with the operation it is in.
Step(t) ==
  \/ Load(t) \/ Store(t) \/ Fault(t)
  \/ Lock(t)
  \/ FaultAlreadyDone(t) \/ FaultRead(t) \/ FaultSwap(t) \/ FaultOpen(t)
  \/ FlushProtect(t) \/ FlushWrite(t) \/ FlushRelease(t)
  \/ DropClean(t) \/ MarkCleanAsDirty(t)

Next == \E t \in Threads : Begin(t) \/ Step(t)

Spec == Init /\ [][Next]_vars
-----------------------------------------------------------------------------
(***************************************************************************)
(* Properties.                                                             *)
(***************************************************************************)

\* The content of the mapping: the pages of a mapped segment, else what
\* onSegmentationFault() will put in them.
Content == [s \in Segments |->
  IF s \in mapped THEN mem[s]
  ELSE IF s \in needRead THEN storage[s] ELSE Zero]

\* Every variable has its type.
TypeOK ==
  /\ prot \in [Segments -> {"none", "ro", "rw"}]
  /\ mem \in [Segments -> Values]
  /\ storage \in [Segments -> Values]
  /\ mapped \in SUBSET Segments
  /\ dirty \in SUBSET Segments
  /\ needRead \in SUBSET Segments
  /\ mutex \in [Mutexes -> Threads \cup {NoThread}]
  /\ pc \in [Threads -> {"user", "lock", "seg", "load", "write", "written"}]
  /\ op \in [Threads -> Operations \cup {"none"}]
  /\ cur \in [Threads -> Segments]
  /\ last \in [Threads -> Segments]
  /\ val \in [Threads -> Values]
  /\ buf \in [Threads -> Values]

\* No store is ever forgotten: whatever the interleaving of faults, flushes
\* and evictions, a segment that is not marked dirty reads as the storage
\* does, or as zeroes when it was never written and never read
\* (needRead = FALSE); so dropping it from memory loses nothing.
CleanIsStored ==
  \A s \in Segments \ dirty :
    Content[s] = IF s \in needRead THEN storage[s] ELSE Zero

\* A store can never go unnoticed by flush(): pages the kernel lets the user
\* write belong to a segment whose dirty bit is set, and the pages are open
\* exactly when the status says mapped.
WritableIsDirty ==
  /\ \A s \in Segments : prot[s] = "rw" => s \in dirty
  /\ \A s \in Segments : prot[s] # "none" <=> s \in mapped
  /\ dirty \subseteq mapped

\* When flush() leaves a segment, the storage holds what the user reads there
\* (nothing was ever written to a segment that is still without needRead):
\* no store slips in between the pwrite and the end of the visit.
FlushReachesStorage ==
  [][\A t \in Threads : FlushRelease(t) =>
       \A s \in {cur[t]} \cap needRead' : storage'[s] = Content'[s]]_vars

\* The user sees one memory: paging in, flushing, evicting, dropping clean
\* segments and marking them dirty are invisible, a store changes the segment
\* it is about at one instant and a load returns what the last store left.
User == INSTANCE UserMemory WITH
  memory   <- Content,
  request  <- [t \in Threads |-> IF op[t] \in Access THEN op[t] ELSE "none"],
  target   <- [t \in Threads |-> IF op[t] \in Access THEN cur[t] ELSE 0],
  register <- val

\* The mapping implements the memory of module UserMemory.
ImplementsUserMemory == User!Spec
=============================================================================
