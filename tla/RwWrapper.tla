------------------------------ MODULE RwWrapper ------------------------------
(***************************************************************************)
(* The library that overrides write(), read(), fread() and fwrite()        *)
(* (src/src/rw-wrapper/rw-wrapper.cpp) on top of a mapping.                *)
(*                                                                         *)
(* The kernel does not raise SIGSEGV when a system call meets a protected  *)
(* page: it stops there, and fails with EFAULT when it moved nothing.  The *)
(* wrapper then calls onSegmentationFault() on the pages of the buffer, as *)
(* many as the policies keep in memory, and calls the C library again.     *)
(* Each of these touches may make a policy evict other segments.           *)
(*                                                                         *)
(* There is one thread, as UMMAP_THREAD_UNSAFE asks for.  A segment is one *)
(* page and the unit of every transfer; size * nmemb and count are numbers *)
(* of segments.  The input of read() and fread() is one stream.            *)
(***************************************************************************)
EXTENDS Mapping, Integers, Sequences, FiniteSetsExt

CONSTANTS
  Programs,     (* the programs and their settings, see ProgramOK          *)
  Stored        (* what the storage may hold when it is mapped             *)

Functions == {"write", "read", "fread", "fwrite"}
Input == {"read", "fread"}

\* calls: the functions the thread calls.  work: what else it does.
\* sizes: the sizes of the elements of fread() and fwrite().
\* used: the segments of the mapping it uses.
\* policyMax: getPolicyMaxMemory(), in segments.
\* stream: the input.
ProgramOK(r) ==
  /\ r.calls \subseteq Functions /\ r.work \subseteq Operations
  /\ r.sizes \subseteq Nat \ {0}
  /\ r.used \in 1..SegmentCount
  /\ r.policyMax \in Nat \ {0}
  /\ r.stream \in Seq(Values)

ASSUME RwWrapperAssumption ==
  /\ Cardinality(Threads) = 1
  /\ \A r \in Programs : ProgramOK(r)
  /\ Stored \subseteq [Segments -> Values]

VARIABLES
  program,  (* the program that runs                                       *)
  notify,   (* the policies work on a touch (notifyTouch)                  *)
  pos,      (* how much of it was consumed                                 *)
  sys       (* the call in progress, see NoCall                            *)

wrapper == <<program, pos, sys>>
allVars == <<vars, notify, wrapper>>

\* phase: what the call is doing.       call: the function.
\* first, total: the buffer, and its    size: the size of an element.
\*   part that is not filled yet.       ours: the buffer is in the mapping.
\* ask: what the C library was asked    moved: what it moved.
\*   for.                               tried: the pages were touched.
\* next: the page to touch, -1 for the  base, from: where the buffer and the
\*   first one once more.                 input were when the call began.
\* lost: history, the places of the input that the call has consumed and
\*   does not keep.
NoCall == [phase |-> "none", call |-> "none", first |-> 0, total |-> 0,
           size |-> 1, ours |-> TRUE, ask |-> 0, moved |-> 0, tried |-> FALSE,
           next |-> 0, base |-> 0, from |-> 0, lost |-> {}]

InitWrapper ==
  /\ Init
  /\ storage \in Stored
  /\ program \in Programs
  /\ notify = FALSE
  /\ pos = 0
  /\ sys = NoCall
-----------------------------------------------------------------------------
(***************************************************************************)
(* The handler, and the policies it notifies.                              *)
(***************************************************************************)

\* The early return of onSegmentationFault() notifies nobody.
Handle(t) ==
  /\ \/ (Lock(t) \/ FaultRead(t) \/ FaultAlreadyDone(t)) /\ UNCHANGED notify
     \/ (FaultSwap(t) \/ FaultOpen(t)) /\ notify' = TRUE
  /\ UNCHANGED wrapper

\* Mutant of Evict: what skipped its first read is not read back.
EvictNoRead(t, s) ==
  /\ notify /\ s \in mapped \ {cur[t]}
  /\ storage' = IF s \in dirty THEN [storage EXCEPT ![s] = mem[s]] ELSE storage
  /\ dirty' = dirty \ {s}
  /\ Drop(s)
  /\ UNCHANGED <<needRead, mutex, pc, local, buf, notify, wrapper>>

\* evict() of a segment other than the one just touched, which no policy
\* chooses; with one thread it is one step.
Evict(t, s) ==
  /\ notify /\ s \in mapped \ {cur[t]}
  /\ storage' = IF s \in dirty THEN [storage EXCEPT ![s] = mem[s]] ELSE storage
  /\ needRead' = IF s \in dirty THEN needRead \cup {s} ELSE needRead
  /\ dirty' = dirty \ {s}
  /\ Drop(s)
  /\ UNCHANGED <<mutex, pc, local, buf, notify, wrapper>>

\* The policies are done when what is in memory fits.
Notified ==
  /\ notify /\ Cardinality(mapped) <= program.policyMax
  /\ notify' = FALSE
  /\ UNCHANGED <<vars, wrapper>>
-----------------------------------------------------------------------------
(***************************************************************************)
(* The C library and the kernel under it.                                  *)
(***************************************************************************)

Here == sys.first + sys.moved

\* The next page of the buffer lets the kernel read or write it.
Reachable ==
  /\ sys.ours
  /\ IF sys.call \in Input THEN prot[Here] = "rw" ELSE prot[Here] # "none"

AtEnd == sys.call \in Input /\ pos = Len(program.stream)

CanMove == sys.moved < sys.ask /\ Reachable /\ ~AtEnd

\* One segment is moved: the kernel starts on it ...
KernelBegin(t) ==
  /\ sys.phase = "libc" /\ op[t] = "none" /\ CanMove
  /\ IF sys.call \in Input THEN IssueStore(t, Here, program.stream[pos + 1])
                           ELSE IssueLoad(t, Here)
  /\ UNCHANGED <<notify, wrapper>>

\* ... and has moved it.
KernelMove(t) ==
  /\ sys.phase = "libc"
  /\ Load(t) \/ Store(t)
  /\ sys' = [sys EXCEPT !.moved = @ + 1]
  /\ pos' = IF sys.call \in Input THEN pos + 1 ELSE pos
  /\ UNCHANGED <<notify, program>>

\* The C library has returned: nothing more can be moved.
LibcReturned(t) == sys.phase = "libc" /\ op[t] = "none" /\ ~CanMove

\* The outcome of the C library: -1 with errno EFAULT, or what was moved.
Efault == sys.moved = 0 /\ sys.ask > 0 /\ ~AtEnd

\* Complete elements, the result of fread() and fwrite().
Elements == sys.moved \div sys.size
-----------------------------------------------------------------------------
(***************************************************************************)
(* The wrapper.                                                            *)
(***************************************************************************)

\* The caller's buffer is the n segments from lo on.  A buffer that is not
\* ours has no segment; the kernel cannot reach it and getMapping() does not
\* know it.
Start(t, c, lo, n, k, ours) ==
  /\ sys.phase = "none" /\ pc[t] = "user" /\ op[t] = "none" /\ ~notify
  /\ c \in program.calls /\ lo + n <= program.used
  /\ ours \/ (lo = 0 /\ n = k)
  /\ IF c \in {"fread", "fwrite"} THEN n % k = 0 ELSE k = 1
  /\ sys' = [NoCall EXCEPT !.phase = "libc", !.call = c, !.first = lo,
               !.total = n, !.size = k, !.ours = ours, !.ask = n,
               !.base = lo, !.from = pos]
  /\ UNCHANGED <<vars, notify, program, pos>>

\* fwrite() waits for -1, which the C library never returns from it: the
\* rest of the function is not reached.
FwriteFetches == FALSE

\* The wrapper looks at what the first call returned: fread() takes no
\* element at all for a fault.
MustFetch ==
  /\ ~sys.tried
  /\ CASE sys.call \in {"write", "read"} -> Efault
       [] sys.call = "fread"             -> Elements = 0
       [] sys.call = "fwrite"            -> FwriteFetches

FetchMax == Min({sys.total, program.policyMax})
FetchSize == FetchMax - (FetchMax % sys.size)

\* "assumeArg(fetch > size, ...)" of fread().
FetchFails == sys.call = "fread" /\ ~(FetchSize > sys.size)

\* The last n places of the input that were consumed.
Latest(n) == (pos - n + 1)..pos

\* ummap_touch() starts at the last page of what is to be fetched.  An element
\* that the first call has begun is consumed and begun again.
Fetch(t) ==
  /\ LibcReturned(t) /\ MustFetch /\ sys.ours
  /\ sys' = IF FetchFails
            THEN [sys EXCEPT !.phase = "aborted"]
            ELSE [sys EXCEPT !.phase = "touch", !.tried = TRUE, !.moved = 0,
                    !.next = FetchSize - 1,
                    !.lost = IF sys.call = "fread" THEN @ \cup Latest(sys.moved)
                             ELSE @,
                    !.ask = IF sys.call = "fread" THEN FetchSize ELSE @]
  /\ UNCHANGED <<vars, notify, program, pos>>

\* Mutant of TouchedSegment: upwards, and not the first one again.
TouchedUpwards ==
  sys.first + FetchSize - 1 - (IF sys.next = -1 THEN 0 ELSE sys.next)

\* The page to touch: downwards, then the first one again.
TouchedSegment == sys.first + (IF sys.next = -1 THEN 0 ELSE sys.next)

\* onSegmentationFault() is called, and enters the critical section.
Touch(t) ==
  /\ sys.phase = "touch"
  /\ op' = [op EXCEPT ![t] = IF sys.call \in Input THEN "store" ELSE "load"]
  /\ cur' = [cur EXCEPT ![t] = TouchedSegment]
  /\ last' = [last EXCEPT ![t] = TouchedSegment]
  /\ pc' = [pc EXCEPT ![t] = "lock"]
  /\ sys' = [sys EXCEPT !.phase = "touching"]
  /\ UNCHANGED <<page, status, storage, mutex, val, buf, notify, program, pos>>

\* It returns: the next page, or the second call of the C library.
Touched(t) ==
  /\ sys.phase = "touching" /\ pc[t] = "user" /\ ~notify
  /\ Done(t)
  /\ sys' = [sys EXCEPT !.next = @ - 1,
                        !.phase = IF sys.next = -1 THEN "libc" ELSE "touch"]
  /\ UNCHANGED <<page, status, storage, mutex, pc, val, buf, notify, program, pos>>

Recalls == sys.call = "fread" /\ sys.tried /\ Elements > 0 /\ sys.moved < sys.total

\* Mutant of Recall: the buffer is not advanced.
RecallInPlace(t) ==
  /\ LibcReturned(t) /\ Recalls
  /\ LET n == Elements * sys.size
     IN  sys' = [sys EXCEPT !.phase = "libc", !.total = @ - n,
                   !.ask = sys.total - n, !.moved = 0, !.tried = FALSE]
  /\ UNCHANGED <<vars, notify, program, pos>>

\* Mutant of Recall: as many elements are asked for once more.
RecallAll(t) ==
  /\ LibcReturned(t) /\ Recalls
  /\ sys' = [sys EXCEPT !.phase = "libc", !.first = @ + Elements * sys.size,
                !.ask = sys.total, !.moved = 0, !.tried = FALSE]
  /\ UNCHANGED <<vars, notify, program, pos>>

\* fread() calls itself for the elements that are missing, the one that the
\* second call has begun included.
Recall(t) ==
  /\ LibcReturned(t) /\ Recalls
  /\ LET n == Elements * sys.size
     IN  sys' = [sys EXCEPT !.phase = "libc", !.first = @ + n,
                   !.total = @ - n, !.ask = sys.total - n, !.moved = 0,
                   !.lost = @ \cup Latest(sys.moved - n), !.tried = FALSE]
  /\ UNCHANGED <<vars, notify, program, pos>>

\* The call returns.
Finishes(t) == LibcReturned(t) /\ ~Recalls /\ ~(MustFetch /\ sys.ours)

Finish(t) ==
  /\ Finishes(t)
  /\ sys' = NoCall
  /\ UNCHANGED <<vars, notify, program, pos>>
-----------------------------------------------------------------------------
\* User code, and the flushes and evictions it asks for.
UserCode(t) ==
  /\ sys.phase = "none" /\ ~notify
  /\ \/ Begin(t) /\ op'[t] \in program.work /\ last'[t] < program.used
     \/ Load(t) \/ Store(t) \/ Fault(t)
     \/ FlushProtect(t) \/ FlushWrite(t) \/ FlushRelease(t)
  /\ UNCHANGED <<notify, wrapper>>

\* The steps of a call in progress.
Proceed(t) ==
  \/ Handle(t) \/ (\E s \in Segments : Evict(t, s)) \/ Notified
  \/ KernelBegin(t) \/ KernelMove(t)
  \/ Fetch(t) \/ Touch(t) \/ Touched(t) \/ Recall(t) \/ Finish(t)

NextWrapper ==
  \E t \in Threads :
    \/ UserCode(t) \/ Proceed(t)
    \/ \E c \in program.calls, lo \in 0..(program.used - 1), n \in 1..program.used,
          k \in program.sizes \cup {1}, ours \in BOOLEAN : Start(t, c, lo, n, k, ours)

SpecWrapper == InitWrapper /\ [][NextWrapper]_allVars

\* The scheduler runs the thread.
FairWrapper ==
  /\ SpecWrapper
  /\ \A t \in Threads :
       WF_allVars(Proceed(t) \/ (op[t] # "none" /\ UserCode(t)))
-----------------------------------------------------------------------------
(***************************************************************************)
(* Properties.                                                             *)
(***************************************************************************)

\* The variables of the wrapper have their types.
TypeOKWrapper ==
  /\ TypeOK
  /\ notify \in BOOLEAN
  /\ program \in Programs
  /\ pos \in 0..Len(program.stream)
  /\ sys.phase \in {"none", "libc", "touch", "touching", "aborted"}
  /\ sys.call \in Functions \cup {"none"}
  /\ sys.first + sys.total <= SegmentCount
  /\ sys.moved \in 0..sys.ask
  /\ sys.ask \in 0..sys.total
  /\ sys.next \in -2..(SegmentCount - 1)
  /\ sys.lost \subseteq (sys.from + 1)..pos

\* Dirty pages that a touch for reading has made read-only.
Closed(s) == s \in dirty /\ prot[s] = "ro"

\* "touch first to be sure to succes": whatever the policies evict while the
\* pages of the buffer are touched, the second call of the C library moves
\* something.  The exception is a buffer that begins on dirty pages which a
\* write() has made read-only: no touch opens them.
RetryMoves ==
  \A t \in Threads : LibcReturned(t) /\ sys.tried
    => ~Efault \/ Closed(sys.first)

\* What read() and fread() have returned so far, in segments.
Result == sys.first - sys.base + Elements * sys.size

\* The buffer of read() and fread() holds, from its beginning, what followed
\* in the input when the call began, as much of it as the result says: the
\* retries and the recursion neither repeat nor misplace anything.  They skip
\* what the C library had consumed of an element when it met a closed page
\* (sys.lost), which it cannot have when an element is one page.
BufferIsInput ==
  \A t \in Threads : Finishes(t) /\ sys.call \in Input
    => /\ sys.size = 1 => sys.lost = {}
       /\ \A x \in ((sys.from + 1)..pos) \ sys.lost :
            LET i == Cardinality(((sys.from + 1)..(x - 1)) \ sys.lost)
            IN  i < Result => Content[sys.base + i] = program.stream[x]

\* Below the calls there is still one memory: the touches, and the evictions
\* they cause, change nothing, and the kernel reads and writes what a load or
\* a store of the user would.
Memory == INSTANCE UserMemory WITH
  memory   <- Content,
  request  <- [t \in Threads |->
    IF op[t] \in Access /\ sys.phase # "touching" THEN op[t] ELSE "none"],
  target   <- [t \in Threads |->
    IF op[t] \in Access /\ sys.phase # "touching" THEN cur[t] ELSE 0],
  register <- val

\* The mapping under the wrapper implements the memory of UserMemory.
WrapperImplementsUserMemory == Memory!Spec

\* A store of the user ends: the wrapper leaves no page in a state in which
\* the handler refuses to open it.
StoresEnd ==
  \A t \in Threads : sys.phase = "none" /\ op[t] = "store" ~> op[t] = "none"

\* fread() returns less than it was asked for only at the end of the input.
FreadIsFull ==
  \A t \in Threads : Finishes(t) /\ sys.call = "fread" /\ sys.ours
    => AtEnd \/ Elements * sys.size = sys.total
=============================================================================
