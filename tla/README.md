# ummap-io-v2 in TLA+

ummap-io-v2 maps files and objects into memory in user space: the pages of a
mapping are protected, an access raises SIGSEGV, the handler reads the segment
from a driver and opens the pages, and policies evict segments when too much
memory is in use. This directory models that machinery, checks it with TLC and
proves the core of it with TLAPS. Paths below are relative to the root of the
repository, `src/core/Mapping.cpp` for instance.

## The system

| Part | State | Operations | Module |
|---|---|---|---|
| Mapping (`src/core/Mapping.cpp`) | page protection, content, storage, status bits `mapped`, `dirty`, `needRead` per segment, striped mutexes | fault, flush, evict, dropClean, markCleanAsDirty, skipFirstRead, copyToDriver | `Mapping`, `MappingLive`, `Transfer` (skipFirstRead, ranges), `Backing` (copyToDriver) |
| Policies (`src/policies`, `src/core/Policy.cpp`) | lists of segments, memory counters, limits | notifyTouch, notifyEvict, shrinkMemory, freeElementStorage | `Eviction` |
| Local quota (`src/core/PolicyQuota*.cpp`) | registered policies, their limits, a mutex | update, register, unregister | `QuotaLocal` |
| Inter-process quota (`src/core/PolicyQuotaInterProc.cpp`) | shared segment: spinlock, count, pids; signals | constructor, destructor, signalAll, update, signal handler | `QuotaInterProc` |
| Global handler (`src/core/GlobalHandler.cpp`) | registries | fault entry, ummap, uunmap, flush, copy on write, switch | `Library`, `Backing`, `Transfer` (flush), entry points of the above |
| Registries (`src/core/*Registry.cpp`) | lists under a spinlock | register, unregister, lookup, delete all | `Library` |
| Drivers (`src/drivers`) | a descriptor, a direct mapping, a buffer, an object | pread, pwrite, sync; setFd, cloneRange, directMmap | `Transfer`; `Backing` |
| Read/write wrapper (`src/rw-wrapper/rw-wrapper.cpp`) | the call in progress | write, read, fread, fwrite | `RwWrapper` |
| Listings (`src/uri/Listings.cpp`) | names and identifiers in memory and in files | constructor, getObjectId, destructor | `Listings` |
| Public API (`src/public-api/ummap.cpp`) | count of initialisations | init, finalize, create, destroy, copy on write, switch | `Library`, `Backing` |
| URI, portability, units, debug, htopml | | | text, system calls, display |

They meet in these places. A fault goes from the global handler to the mapping,
and from there, after the mutex of the segment is released, to the local and
then the global policy. A policy over its limit takes segments out of its list
under its mutex, releases it, and calls `evict()` of the mapping of each, which
tells the other policy and flushes. A policy that has grown calls `update()` of
its quota, which makes other policies shrink, in the thread that faulted. The
quota of one process is recomputed by a signal when another process joins. A
system call on a mapping raises no SIGSEGV: the wrapper calls the fault entry of
the mapping itself, page by page, and each of these calls may evict pages of the
same buffer.

What is hard there: two threads faulting on one segment; stores during a flush;
segments chosen inside a critical section and evicted after it; counters that
are unsigned; mappings deleted while another thread is about to evict from them;
memory read without a lock by the quota; signals that interrupt the code whose
data they change; processes that crash with a slot or with the spinlock; files
replaced under a mapping that is in use; objects whose deletion is shared between
the caller, the mapping and the registries; a retry on pages that its own
preparation may evict; ranges and last segments that are not whole; identifiers
that have to survive restarts and crashes.

## Modules

**`UserMemory`** is the promise: one memory of segments, in which a load or a
store takes effect at one instant and nothing else changes anything.

**`Mapping`** is the core. A segment is a number and its content one value.
`prot` and `mem` are what the kernel enforces and holds, `storage` what the
driver holds, and the sets `mapped`, `dirty`, `needRead` are the status bits.
A thread issues an access (`IssueLoad`, `IssueStore`), executes it when the
protection allows it (`Load`, `Store`), or faults: `Fault`, `Lock`, then one of
`FaultAlreadyDone` (early return), `FaultRead` followed by `FaultSwap`
(loadAndSwapSegment, where the mutex is held across the read), or `FaultOpen`.
`flush()` is `CallFlush`, `Lock` once per mutex in ascending order, then per
segment `FlushProtect`, `FlushWrite`, `FlushRelease`. `evict()` is a flush of
one segment with `UMMAP_FLUSH_UNMAP`; which segments a policy evicts is left
open, so every choice of every policy is covered. The protection and the status
bit that follows it are set in one step, because only the holder of the mutex
reads the bits. `ThreadSafe` is FALSE under `UMMAP_THREAD_UNSAFE`. A store to a
mapping without `PROT_WRITE` ends the process, so it is not issued. `sync()` of
the driver changes nothing that is modelled.

**`MappingLive`** gives each thread a bounded number of operations and weak
fairness. `Refused` is the one way in which an access may never end: a store on
a dirty page that the handler of a load has closed.

**`Eviction`** models the three policies as functions on their state (lists as
sequences, counters modulo `Word`) and the threads around them. Each critical
section is one step; the evictions after it are one step each. `fate` records
what would end or hang the process: a failed `assert`, the `assume` on 128
evictions, a loop on an empty list, a call on a deleted mapping. Segments are
mapped or not; their content is the subject of `Mapping`. `umflush` with
eviction and `dropClean` take segments away without telling the policies
(`Unmap`). `setup`, chosen in the initial state, says which threads, mappings and
policies there are and of which classes, so that one run covers the three classes
and their pairs. `crossed` is history: the segments that two threads evict for the
two policies of a mapping at a time, or that one evicts while the other is
touching them; for these the lists may differ, and an assert of `notifyEvict` may
end the process (fate `crossed`).

**`QuotaLocal`** keeps of a policy only its memory and its limit, and models
`update()` step by step, since it reads the memory of policies that other
threads change. The sum it computes over the policies is one step. LIFO policies
are left out: they never call `update()` after a fault (see below).

**`QuotaInterProc`** models processes with one thread, the shared table, a
pending signal per process (SIGUSR1 is not queued) and crashes. A process lives
once. The handler runs on top of anything the process does, also inside
`update()` and the destructor. A fault runs with all signals blocked (`sigfillset`
in `setupSegfaultHandler`), so the interrupted `update()` is the one of the
constructor or of a registration. `undone` is history: the processes whose handler
ran between the read and the write of their last `update()`.

**`Backing`** replaces the file behind a mapping. A file is a sequence of segment
contents, at most as long as the mapping. A call goes step by step
(`CowFopen`, `CloneRange`, per segment `CopyTest` and `CopyMemory` or `CopyRead`
and `CopyWrite`, then `CloseOld`, `DupNew`, and after a switch `CleanAction`;
`DirectCopy` and `DirectRemap` for a direct mapping), since the code takes no
mutex there. `Touch`, `Flush` and stores are one step each, and other threads take
them at any time. `stale` holds the segments that `UMMAP_NO_ACTION` keeps in memory
from the old file, as its caller asked. `raced` holds those that a flush or a first
write changed when the copy had taken them, or was about to (`Overtakes`), until
they are written or evicted (`Mended`). Both are history.
`fate` records the ends of the process: a descriptor that is closed, pages that
are gone, a file that is too short to copy.

**`Library`** is the life of the objects: who creates, registers, hands over and
deletes mappings, drivers, policies, groups and quotas, with addresses and heap
places used again. A critical section of a registry or a stage of a destructor is
one step. Its guards contain the part of the caller: objects are handed over
once, nothing in use is deleted, an unmapped mapping is not used again, and init
and finalize run while no other call does. The properties say nothing about
callers that break this. The check that a policy has enough memory for one
segment is left out.

**`RwWrapper`** extends `Mapping` with one thread, as `UMMAP_THREAD_UNSAFE` asks
for, and with the library that overrides `write()`, `read()`, `fread()` and
`fwrite()`. The kernel moves one segment at a time (`KernelBegin`, `KernelMove`)
and stops at a page it cannot reach. When it moved nothing, `Fetch` computes what
to prepare, `Touch` and `Touched` call the fault entry from the last page down
and once more on the first, `Evict` is what the policies do meanwhile (any
segment but the one just touched, until `policyMax` remain), and the C library is
called again. `Recall` is the recursion of `fread()`. `program`, chosen in the
initial state, says which calls and accesses there are, on how many segments, with
which elements, limit and input. `sys.lost` is history: what a call has consumed of
an element that it begins again. The C library is external:
`fread()` counts complete elements and never returns -1, and neither does
`fwrite()`, so that the rest of the wrapper of `fwrite()` is not reached.

**`Transfer`** is what moves between a mapping and its storage. Segments have
`SegmentSize` pages, the mapping begins at `StorageOffset` and may end inside a
segment, and the storage goes on around it. `Umflush` aligns and checks the range
as `GlobalHandler::flush` and `Mapping::flush` do, `FlushSegment` is one turn of
the loop, `FlushReturn` the `sync()` of the driver. The drivers differ in what
they accept (`Accepts`), where a page is in the buffer (`BufferPage`, the
operations of Mero), what they move (`Shorter`, `Available`) and what `sync()`
does (`CSync`, `SyncFails`). `expected` is what the program should find in each
page; it is history, and nothing else depends on it. A page is `Lost` there when a
file moved less than it was asked to, when `ummap_skip_first_read()` after the
accesses hides it, and when the `sync()` of a C driver writes there, until the
program stores in it again. `Shuffled` segments are those that Mero moves by
operations of several lengths. There is one thread: accesses are one step with their
fault.

**`Listings`** models processes that start, look names up, save, and crash
anywhere, several of them on one file if they like. `getObjectId()` is one step
under its mutex; saving a listing is two, `SaveOpen` (`fopen` empties the file) and
`SaveClose` (`fclose` writes the buffer of stdio). When two processes close one
file at the same time with different contents, the last one wins, where the bytes
of the two could mix; the listing is harmed then. `settled` is history: what was
saved, with the identifier it was first saved with. So is `harmed`: the listings
that a process left or read between `fopen` and `fclose`, and those to which one of
two processes that use them added names (`Harms`). An identifier is written down as
its seed and number, so that two starts in one second draw the same ones; no
property says that two identifiers differ.

`MC*` modules give the constants their values. Operators whose comment says
*mutant* are deliberately wrong variants of the definition that follows them;
nothing uses them, and putting one in place of its original makes the property
listed with it in `PROJECT.json` fail.

## Runs

| Run | Instance | Shows |
|---|---|---|
| `Mapping_safe` | 2 threads, 2 segments, 2 mutexes, 2 values, every operation | the status bits, the protection and the storage agree; a flush reaches the storage; the mapping implements `UserMemory` |
| `MappingLive_split` | 3 segments on 2 mutexes, 2 threads with 2 operations each, which access, flush and evict; one of them also drops and marks | no deadlock on the striped mutexes, no endless fault but that of a refused store |
| `Eviction_policies` | 2 threads, 2 mappings with segments of sizes 1 and 2, one shared policy of each class with a limit of 3, a quota that sets it to 2 or 3; or 1 thread, a local and a global policy of every two classes, unmap and map again, with 3 segments per mapping and limits of 2 and 2, or 2 segments and limits of 1 and 3; or 2 threads, a local and a global policy of one class with limits of 1 | segments in memory are tracked, counters equal their lists, memory at rest fits the limit, no assert and no loop ends the process, the two lists agree between faults, save for segments that both policies take at a time |
| `QuotaLocal_fifo` | 2 threads, 2 FIFO policies with segments of sizes 1 and 2, a quota of 5 (odd, so that neither the average nor the larger segments divide it), one policy that comes and goes | the quota holds at rest, each limit is at least the average, `update()` ends |
| `QuotaInterProc_crashes` | 3 processes, crashes outside the spinlock, signals anywhere | one slot per process, the count covers the slots, the shares fit but for a process whose signal came inside `update()` |
| `Backing_switch` | 2 files of any length up to the mapping, 2 segments, 2 values, no clone; accesses, flushes and evictions at any time, also during a replacement | stores survive copies on write and switches, a copy has what the old file has, files left behind are not written, save for the segments in `raced` |
| `Backing_clone` (violated) | the same on a file system with FICLONERANGE | the clone copies nothing and the new file lacks the content |
| `Library_lifecycle` | 2 threads, mappings, drivers, policies and addresses, 1 group, 1 quota, `InitMax` = 2 | an address finds its mapping, nothing deleted is followed, nothing is left over |
| `RwWrapper_calls` | 4 segments; three programs: the four calls beside accesses and flushes on 2 segments of which the policies keep 1, the four calls on 3 segments of which they keep 2 with an input of 4 pages, `fread()` with elements of 2 pages on 4 segments with an input of 6; `ThreadSafe` FALSE | the retry moves something whatever was evicted, the buffer holds the input in order save what is in `sys.lost`, the touches change no content; the branches of `Mapping` without a private segment are correct for one thread |
| `RwWrapper_store` (violated) | 2 segments, `write()` and stores | a `write()` leaves dirty pages read-only, and a store there faults for ever |
| `Transfer_ranges` | 2 segments of 2 pages, 3 pages mapped from page 1 of a storage of 5, files of every length, which move any part of what they are asked to, every range, every driver, late skips | what was stored comes back unless it was `Lost`, an accepted flush covers its range, the storage around the mapping is left alone |
| `Listings_restarts` | 2 processes that share 1 listing, 3 names of which one has a blank, 2 seconds, both generators, identifiers of both signs, crashes anywhere | saved names keep their identifiers and files forget nothing, in listings that are not harmed |

**Bounds.** Two threads are enough for the races of the code, which are between
a thread in a critical section and one that acts after it; the proofs cover any
number. Two segments distinguish a range from a segment, three on two mutexes
make a range wrap around the mutexes. Two values tell old content from new.
In `Eviction` two sizes and a limit that is no multiple of the larger one make
one touch evict two segments; `Word` = 16 is far over the memory that exists, so
a counter that wraps is seen as one; `MaxIds` is the 128 of the code. Three
processes are needed for one to take over the slot of a second while a third
counts. `Budget` bounds the operations of a thread in `MappingLive`, and
`Free(t, p, n)` the segments an unmapping frees to `Word`. `CHECK_DEADLOCK FALSE`
is used for `QuotaInterProc`, where all processes may have exited, and for
`Backing` and `Eviction`, where `fate` may end the process. Two threads under two
policies have policies of one class in the run; all nine pairs, with limits of 1
and 2 beside 1 and 1, were checked once. In `Library` two of each kind let a
freed place be used again while another thread still works; the symmetry is over
objects no property names. In `RwWrapper` a limit below the length of the buffer
makes the touches evict its other end, four pages of input on three segments make
`fread()` call itself, and elements of two pages make a fault stop inside one;
`CHECK_DEADLOCK FALSE` is there because a failed `assumeArg` ends the process (phase
`aborted`). The same holds for `Transfer`, where three pages in segments of two give a whole and a
partial segment, and one cell on each side of the mapping shows a write outside
it; the storage is full of the value that a fresh page does not have (`Stored`),
since stores and flushes make every other content of the mapped part. In `Listings`
`MaxTime` and `MaxIds` bound the clock and the identifiers. Processes start again
and again, so that two of them give a restart after a crash beside a process that
uses the same file; one listing is enough, since listings share nothing but the
generator.

**Fairness.** `MappingLive` assumes that a thread that can take a step does
(weak fairness of each thread), which is what a preemptive scheduler gives.
Mutexes need not be fair because operations are bounded; only a thread whose store
is refused for ever takes a mutex again and again, and may starve another, which is
why the exception of `EveryOperationEnds` is for all threads. `QuotaLocal` assumes
that a thread inside `update()`, which waits for nothing there, keeps running;
the other threads may do anything, including faulting for ever. `FairWrapper`
assumes that the one thread goes on with a call or an access it has begun.

## Disagreements the runs show

Two runs are expected to end with a counterexample; `PROJECT.json` quotes the
line of the repository that each contradicts.

Where the code falls short of what a property would say, and more runs would only
repeat it, the model still does what the code does and the property names the
exception, which a history variable records. What each exception stands for:

- `EveryOperationEnds`, `Refused`: a load and a store that fault on one segment at
  the same time leave dirty pages read-only, the same defect as in
  `RwWrapper_store` with two threads.
- `Survives` and `PoliciesAgree`, `crossed`: both policies of a mapping take the
  same segment, and `assert(cur.isInList())` at `src/policies/FifoPolicy.cpp:170`
  fails or the lists differ.
- `SharesFit`, `undone`: a signal between the read of the number of processes and
  the write of the share (lines 185 and 188) is undone by the write.
- `OnlyStoresShow`, `CopyIsTheFile` and `CleanIsBacked`, `raced`: a dirty segment
  that is flushed to the old file after the copy has read it there is lost, and so
  is a direct store between `memcpy` and `mremap`; a write fault between the test of
  the status and the copy puts memory that is now dirty in the new file. A shared
  policy may flush at any time, so the caller cannot exclude the first.
- `BufferIsInput`, `sys.lost`: with elements of two pages, what a fault left of an
  element was consumed and is lost. `RetryMoves` has an exception for buffers that
  begin on pages closed as in `RwWrapper_store`.
- `ContentKept` and `FlushCovers`, `Lost` and `Shuffled`: `Mapping.cpp:239` and `583`
  accept any count but an error; `ummap_skip_first_read()` after a flush hides what
  was flushed; `CDriver.cpp:73` calls `pread` with size and offset exchanged and
  overwrites the mapping; `ClovisDriver.cpp:133` and `240` compute the place in the
  buffer with the length of the last, smaller operation (with `SegmentSize = 3` and
  `MaxUnits = 2`, for example; no segment of the run is shuffled).
- `NameKeepsId` and `NothingIsForgotten`, `harmed` and `Kept`: a crash between
  `fopen` and `fclose` leaves an empty file; of two processes that add names to one
  file, the second to save wins, and one that reads it while the other writes finds
  it empty; an identifier written with `%lu` is read back with `%ld` as the largest
  number.

These stand in the modules without an exception, and fail. No configuration keeps
them; each replaces the properties of the run named with it:

- `NotifyEvictFindsIt` (`Eviction_policies`): no eviction finds the segment gone.
- `NoEvictOfDeleted` (`Eviction_policies` with `Setups <- TwoThreadsUnmap`, no
  symmetry): `evict()` is called on a mapping that was deleted.
- `HandlerEnds` (`QuotaInterProc_crashes`): the handler waits for the mutex its own
  thread holds, or divides by a number of processes that is zero.
- `FreadIsFull` (`RwWrapper_calls`): `fread()` returns less than it was asked for
  before the end of the input, when a first call that moved some elements met a page
  that is not mapped.
- `SyncKeepsMemory` (`Transfer_ranges`): see `CDriver.cpp:73` above, while
  `ummap.h:82` says "Apply a sync operation on the given interval."
- `EveryRangeIsTaken` (`Transfer_ranges`): an address or a size inside a segment
  ends the process.
- `UpdateEnds` (`QuotaLocal_fifo` with `Threads = {t1}`, `Kind <- AllWindow`,
  `SegmentSize <- Ones`, `MaxMemory <- Threes`, `QuotaMemory = 4`, `Churn = {}`): a
  window policy does not shrink to the limit it is given, and `update()` never ends.

The runs also reach ends of the process that no property forbids: `fread()` of one
element on pages that are not mapped fails `assumeArg(fetch > size)` (phase
`aborted`); a fault or a flush between the `close` and the `dup` of a replacement
(fate `closed`), an eviction under the copy (`gone`), a file that is too short to
copy (`short`); a name with a blank makes its listing unreadable at the next start
(`Refuse`).

Reading the code for the models showed others that no run covers:

- `LifoPolicy::notifyTouch` declares `isFirstAccess` twice (lines 82 and 101),
  and tests the one that is never set: a LIFO policy never calls `update()`.
- `PolicyQuotaLocal::update` (line 81) subtracts the average from the memory of
  the largest policy, read after the test of the loop; an unmapping in between
  makes the unsigned subtraction wrap, and the limit is huge until the next one.
- `updateNotifyLimit` gives every policy the whole quota, also over its own
  maximum, while `Policy.hpp:122` says "be max to staticMaxMemory".
- The fixed window of `FifoWindowPolicy` takes a segment while it is under its
  maximum, so it may exceed it by less than one segment (`WithinLimit` says so).
- A shrink that evicts 128 segments aborts, also with segments of one size.
- The constructor of `PolicyQuotaInterProc` takes over the slot of a dead process
  without counting the dead one out; `CountCovers` is therefore an inequality.
- The destructor signals nobody, so that shares do not grow, while `ummap.h:384`
  says "It increases when one exit."
- `segmentStatus`, allocated at `Mapping.cpp:91`, is freed by nothing. `NoLeak` is
  about the objects of the library, not about such arrays.
- Two starts in one second seed `rand()` alike and draw the same identifiers.
- `skipFirstRead` writes the byte of status bits without the mutex.
- `ummap_policy_destroy` deletes a policy through `Driver *`, and
  `ummap_quota_destroy` any quota through `PolicyQuotaInterProc *`. `Library`
  models the destructor that is meant.
- `ClovisDriver` keeps the offset in an `int` (lines 106 and 223).
- The constructor of `MemoryDriver` that shares a buffer (line 43) does not set
  `size`, against which `pread` and `pwrite` check.
- The `sync()` of a C driver runs with the mutexes of the range held: a driver
  that faults on one of them there would wait for itself.
- `ummap_switch_dax` ignores its clean action.
- `copyToDriver` does not free its buffer.
- `MmapDriver::directMmap` (line 122) tests `write` for `PROT_EXEC`.
- Drivers are built from `mmapanon:`, while copy on write and switch know
  `mapanon:`.

## Proofs

`MappingProofs` proves, for any threads, segments, mutexes and values that
satisfy `MappingAssumption`:

- `TypeCorrect`: `TypeOK` always holds, with and without thread safety;
- `Invariance`: the inductive invariant `IInv` always holds;
- `NothingLost`, `NoUnseenStore`: `CleanIsStored` and `WritableIsDirty`;
- `FlushIsComplete`: the action property `FlushReachesStorage`;
- `Refinement`: `Mapping` implements `UserMemory`.

All but the first assume `ThreadSafe`, since without mutexes they are true for
one thread only. None of the properties is inductive alone: that a flush may
mark a segment clean depends on nobody having opened its pages since it was
protected, hence on the mutex. `IInv` therefore has four parts beside the types:
`ControlInv` (what a thread executes agrees with where it is), `MutexInv` (a
thread that works on a range holds the mutex of each of its segments, the
wrap-around of the stripes included), `LocalInv` (between two steps of an
operation the segment is as the thread left it) and `PageInv` (protection,
status bits, memory and storage of each segment agree). The central lemmas are
`Exclusion` and `OneSegment`: two threads inside critical sections are on
different segments, so a step of one changes nothing `LocalInv` says of the
other. `DataStep` goes through the actions with them. The refinement maps the
content of a segment to `mem` where it is mapped and to what a fault would read
elsewhere; every step but `Load` and `Store` leaves it unchanged (`Invisible`).

`TransferProofs` proves, for every size of segment, mapping and storage, every
offset and every driver that satisfy `TransferAssumption`:

- `NeighboursAreKept`: the action property `NeighboursKept`;
- `ContentIsKept` and `FlushesCover`: `ContentKept` and `FlushCovers`, with short
  transfers, late skips and any `sync()` among the steps. `NothingIsShuffled` says
  when the exception for Mero is empty: a segment fits in one operation, or an
  operation is one unit.

`ContentKept` alone is not inductive: whether a page that is dropped comes back
depends on the storage, on `needRead` and on the end of the file. `IInv` has
`PageInv` (a mapped page that is not lost is as expected; one without unsaved stores
is in the storage or, if it is not to be read, zero), `TailInv` (a file has zeroes after its
end), `TouchedInv` (only an access maps a segment) and `FlushInv` (an accepted
range is the one of the caller and made of whole segments, and those the loop has
passed are saved). Below it are lemmas on the arithmetic of pages, segments and
cells, on the place of a page in the buffer of a Mero operation (`BufferIsPage`)
and on what a read of any number of pages finds (`PreadFinds`). `FlushableRange` shows what makes
`FlushCovers` true of the alignment: the checks let only aligned ranges through.

`ListingsProofs` proves, for any processes, listings, names and number of
restarts, with crashes anywhere and processes that share files, from
`ListingsAssumption` alone:

- `NamesKeepTheirIds`: `NameKeepsId`;
- `FilesForgetNothing`: `NothingIsForgotten`.

`IInv` has `Types`, `OpenInv` (a process has a file open only while it saves a
listing of its own) and, for each listing that is not harmed, `Sound`: what a process
has of it agrees with what was saved (`MemoryInv`); a process that is to write it has
every name that was saved (`CoverInv`), and no other name if a second process is to
write it too (`ShareInv`) or once it is written (`WrittenInv`); a file that nobody
has open has all that was saved (`FileInv`). `CoverInv` is what makes `FileInv`
inductive: between `fopen` and `fclose` the file has nothing, and the memory of the
writer has all. The types of the variables are part of `IInv`, so that the run has no
type invariant.

Only model-checked: `EveryOperationEnds`, `UpdateEnds` and `StoresEnd`, as the
prover handles no liveness under fairness and no `ENABLED`; the eviction policies,
whose properties fold over sequences and need induction over data; the quotas; the
replacement of files; the life of the objects; the read/write wrapper.

## Not modelled, and next

1. Proofs for the quotas: `AverageGuaranteed` and `OneSlotEach` are inductive
   with little strengthening.
2. Proofs for `Library` (`NoDangling`) and `Backing` (`CleanIsBacked`).
3. A policy that is half destroyed while `update()` of its quota runs.
4. The pointers of the intrusive list as a refinement of the sequences, and the
   search of `Policy::getStorageInfo`.
5. `skipFirstRead` beside other threads, with the status bits as one byte.
6. The wrapper with several threads, and with segments of several pages.
7. The sharing counter of the memory driver.

Left out for good: URI parsing, units, messages, the htopml view (text and
display), the Motr branch of the Clovis driver, the IOC driver and the
connections to both (whole requests to external services), and the code of other
projects under `extern-deps`.
