------------------------------ MODULE Transfer ------------------------------
(***************************************************************************)
(* What moves between a mapping and its storage: the ranges that umflush() *)
(* and umsync() write (src/src/core/GlobalHandler.cpp), the part of the    *)
(* last segment that is inside the mapping (src/src/core/Mapping.cpp), and *)
(* the drivers that move it (src/src/drivers).                             *)
(*                                                                         *)
(* Mapping has one page per segment and a storage of that shape.  Here a   *)
(* segment has SegmentSize pages, the mapping begins at StorageOffset and  *)
(* need not end with a segment, and the storage goes on on both sides.     *)
(* There is one thread; what threads may do to each other is in Mapping.   *)
(***************************************************************************)
EXTENDS Integers, FiniteSets, FiniteSetsExt

CONSTANTS
  SegmentSize,    (* segmentSize, in pages                                 *)
  Size,           (* size, in pages                                        *)
  StorageOffset,  (* storageOffset, in pages                               *)
  StorageSize,    (* the pages of storage in the model                     *)
  Values,         (* contents of a page                                    *)
  Zero,           (* the content of a fresh page                           *)
  Stored,         (* what a long storage may hold at first                 *)
  Fill,           (* the value of a DummyDriver                            *)
  Lost,           (* what is expected of a page whose content was lost     *)
  Kinds,          (* the drivers the mapping may have                      *)
  UnitSize,       (* the data unit of a Mero object, in pages              *)
  MaxUnits        (* CLOVIS_MAX_DATA_UNIT_PER_OPS                          *)

AlignedSize ==
  IF Size % SegmentSize = 0 THEN Size
  ELSE Size + SegmentSize - (Size % SegmentSize)

Pages == 0..(AlignedSize - 1)
Segments == 0..(AlignedSize \div SegmentSize - 1)
Cells == 0..(StorageSize - 1)

\* The cells that hold the mapping.
Mapped == StorageOffset..(StorageOffset + Size - 1)

ASSUME TransferAssumption ==
  /\ {SegmentSize, Size, UnitSize, MaxUnits} \subseteq Nat \ {0}
  /\ {StorageOffset, StorageSize} \subseteq Nat
  /\ Mapped \subseteq Cells
  /\ {Zero, Fill} \subseteq Values /\ Lost \notin Values
  /\ Stored \subseteq [Cells -> Values]
  /\ Kinds \subseteq {"fd", "memory", "dummy", "c", "mero"}

VARIABLES
  kind,      (* the driver of the mapping                                  *)
  length,    (* the length of the file, the buffer or the object           *)
  storage,   (* what the storage holds                                     *)
  memory,    (* what the pages of the mapping hold                         *)
  status,    (* segmentStatus                                              *)
  touched,   (* the segments the program accessed                          *)
  expected,  (* history: what the program should find in each page, Lost   *)
             (* when a transfer or a call has lost or overwritten it       *)
  call       (* the umflush() or umsync() in progress, see NoCall          *)

vars == <<kind, length, storage, memory, status, touched, expected, call>>

\* phase: none, flush, or aborted once a check ended the process.
\* ptr, asked: the range the caller gave, asked without the default 0.
\* offset, size: the range after the alignment.   cur: curOffset.
\* evict, sync: what else the caller asked for.
NoCall == [phase |-> "none", ptr |-> 0, asked |-> 0, offset |-> 0, size |-> 0,
           cur |-> 0, evict |-> FALSE, sync |-> FALSE]

SegmentOf(p) == p \div SegmentSize
Base(s) == s * SegmentSize

\* Mutant of ReadWriteSize: the whole segment.
ReadWriteAll(offset) == SegmentSize

\* What is read or written of the segment at offset.
ReadWriteSize(offset) ==
  IF Size - offset >= SegmentSize THEN SegmentSize ELSE Size - offset
-----------------------------------------------------------------------------
(***************************************************************************)
(* The drivers.                                                            *)
(***************************************************************************)

\* The checks of a driver on n pages at cell.  A failure ends the process.
Accepts(cell, n) ==
  /\ kind = "memory" => cell < length /\ cell + n <= length
  /\ kind = "mero" /\ UnitSize <= n => n % UnitSize = 0

\* The page of the buffer that goes with the k-th page of the storage.
\* Mero takes MaxUnits units in one operation: unit i of operation j is
\* looked for i + j * block_size units after the beginning of the buffer.
BufferPage(k, n) ==
  LET unit == IF UnitSize > n THEN n ELSE UnitSize
      i == (k \div unit) % MaxUnits
      j == (k \div unit) \div MaxUnits
      blockSize == Min({MaxUnits, n \div unit - j * MaxUnits})
  IN  IF kind = "mero" THEN (i + j * blockSize) * unit + (k % unit) ELSE k

\* How many of n pages a read or a write may move: a file may move less than
\* it is asked to.
Shorter(n) == IF kind = "fd" THEN 0..n ELSE {n}

Available(cell, n) ==
  IF kind # "fd" THEN n ELSE Max({0, Min({n, length - cell})})

\* Page b of a fresh segment after memset() of n pages.
DummyPread(b, n) == IF b < n THEN Fill ELSE Zero

\* A fresh segment after a pread of n pages at cell that moved k.
Pread(cell, n, k) ==
  [b \in 0..(SegmentSize - 1) |->
     LET from == {i \in 0..(k - 1) : BufferPage(i, n) = b}
     IN  IF kind = "dummy" THEN DummyPread(b, n)
         ELSE IF from = {} THEN Zero ELSE storage[cell + Max(from)]]

\* A pwrite of n pages of segment s at cell that moves k.
Pwrite(s, cell, n, k) ==
  /\ storage' = [c \in Cells |->
       IF kind # "dummy" /\ c - cell \in 0..(k - 1)
       THEN memory[Base(s) + BufferPage(c - cell, n)] ELSE storage[c]]
  /\ length' = IF kind = "fd" /\ k > 0 THEN Max({length, cell + k}) ELSE length
-----------------------------------------------------------------------------
(***************************************************************************)
(* Accesses.                                                               *)
(***************************************************************************)

\* Where segment s is in the storage, and how much of it.
Cell(s) == StorageOffset + Base(s)
Amount(s) == ReadWriteSize(Base(s))

\* The pages of segment s are moved in another order than the storage has.
Shuffled(s) == \E k \in 0..(Amount(s) - 1) : BufferPage(k, Amount(s)) # k

\* Mutant of Found: every first access reads.
FoundRead(s, k) ==
  [b \in 0..(SegmentSize - 1) |->
     IF status[s].mapped THEN memory[Base(s) + b]
     ELSE Pread(Cell(s), Amount(s), k)[b]]

\* What an access to segment s would find, with k pages read.
Found(s, k) ==
  [b \in 0..(SegmentSize - 1) |->
     IF status[s].mapped THEN memory[Base(s) + b]
     ELSE IF status[s].needRead THEN Pread(Cell(s), Amount(s), k)[b]
     ELSE Zero]

Content(p) ==
  LET s == SegmentOf(p)
  IN  Found(s, Available(Cell(s), Amount(s)))[p - Base(s)]

\* The program can access segment s.
Loads(s) ==
  status[s].needRead /\ ~status[s].mapped => Accepts(Cell(s), Amount(s))

Init ==
  /\ kind \in Kinds
  /\ length \in 0..StorageSize
  /\ kind = "memory" => length > 0
  /\ kind \notin {"fd", "memory"} => length = StorageSize
  /\ \E f \in Stored :
       storage = [c \in Cells |-> IF c < length THEN f[c] ELSE Zero]
  /\ memory = [p \in Pages |-> Zero]
  /\ status = [s \in Segments |->
                 [mapped |-> FALSE, dirty |-> FALSE, needRead |-> TRUE]]
  /\ touched = {}
  /\ expected = [p \in Pages |->
       IF kind = "dummy" THEN Fill
       ELSE IF p < Size THEN storage[StorageOffset + p] ELSE Zero]
  /\ call = NoCall

Abort ==
  /\ call' = [call EXCEPT !.phase = "aborted"]
  /\ UNCHANGED <<kind, length, storage, memory, status, touched, expected>>

\* onSegmentationFault(): the program reaches segment s.  A load, or a store
\* of v in page p, is one step with the fault it causes.
Open(s, isWrite) ==
  /\ status' = [status EXCEPT ![s].mapped = TRUE,
                              ![s].dirty = @ \/ isWrite]
  /\ touched' = touched \union {s}
  /\ UNCHANGED <<kind, length, storage, call>>

\* What is expected when segment s is reached: loadAndSwapSegment() accepts a
\* read that gets k pages, less than the file has.
Remains(s, k) ==
  [p \in Pages |->
     IF /\ SegmentOf(p) = s /\ ~status[s].mapped /\ status[s].needRead
        /\ p - Base(s) \in k..(Available(Cell(s), Amount(s)) - 1)
     THEN Lost ELSE expected[p]]

Load(s) ==
  /\ call.phase = "none"
  /\ Loads(s)
  /\ \E k \in Shorter(Available(Cell(s), Amount(s))) :
       /\ memory' = [p \in Pages |->
            IF SegmentOf(p) = s THEN Found(s, k)[p - Base(s)] ELSE memory[p]]
       /\ expected' = Remains(s, k)
       /\ Open(s, FALSE)

Store(p, v) ==
  LET s == SegmentOf(p)
  IN  /\ call.phase = "none"
      /\ Loads(s)
      /\ \E k \in Shorter(Available(Cell(s), Amount(s))) :
           /\ memory' = [q \in Pages |->
                IF q = p THEN v
                ELSE IF SegmentOf(q) = s THEN Found(s, k)[q - Base(s)]
                ELSE memory[q]]
           /\ expected' = [Remains(s, k) EXCEPT ![p] = v]
           /\ Open(s, TRUE)

AccessFails(s) ==
  /\ call.phase = "none"
  /\ ~Loads(s)
  /\ Abort

\* ummap_skip_first_read(), or the flag UMMAP_NO_FIRST_READ of ummap().  After
\* accesses it hides the storage of segments that are clean or evicted.
SkipFirstRead ==
  /\ call.phase = "none"
  /\ status' = [s \in Segments |-> [status[s] EXCEPT !.needRead = FALSE]]
  /\ expected' = [p \in Pages |->
       LET s == SegmentOf(p)
       IN  IF s \notin touched THEN Zero
           ELSE IF status[s].needRead /\ ~(status[s].mapped /\ status[s].dirty)
           THEN Lost ELSE expected[p]]
  /\ UNCHANGED <<kind, length, storage, memory, touched, call>>
-----------------------------------------------------------------------------
(***************************************************************************)
(* umflush() and umsync().                                                 *)
(***************************************************************************)

\* Mutant of Align: a part of a segment is left out.
AlignDown(ptr, size) ==
  LET given == IF size = 0 THEN AlignedSize - ptr ELSE size
  IN  [offset |-> ptr - (ptr % SegmentSize),
       size |-> given - (given % SegmentSize)]

\* The range that GlobalHandler::flush() makes of the caller's.
Align(ptr, size) ==
  LET given == IF size = 0 THEN AlignedSize - ptr ELSE size
      delta == IF ptr % SegmentSize # 0 THEN ptr - (ptr % SegmentSize) ELSE 0
      offset == ptr - delta
      larger == given + delta
  IN  [offset |-> offset,
       size |-> IF larger % SegmentSize = 0 THEN larger
                ELSE larger + SegmentSize - (offset % SegmentSize)]

\* Mutant of Flushable: the alignment is not checked.
FlushableUnaligned(ptr, r) ==
  /\ ptr + r.size <= AlignedSize
  /\ r.offset < Size
  /\ r.offset + r.size <= AlignedSize

\* The checks of GlobalHandler::flush() and Mapping::flush().
Flushable(ptr, r) ==
  /\ ptr + r.size <= AlignedSize
  /\ r.offset < Size
  /\ r.offset + r.size <= AlignedSize
  /\ r.offset % SegmentSize = 0
  /\ r.size % SegmentSize = 0

Umflush(ptr, size, evict, sync) ==
  LET r == Align(ptr, size)
  IN  /\ call.phase = "none"
      /\ IF ~Flushable(ptr, r) THEN Abort
         ELSE /\ call' = [phase |-> "flush", ptr |-> ptr,
                          asked |-> IF size = 0 THEN AlignedSize - ptr ELSE size,
                          offset |-> r.offset, size |-> r.size,
                          cur |-> r.offset, evict |-> evict, sync |-> sync]
              /\ UNCHANGED <<kind, length, storage, memory, status, touched,
                             expected>>

FlushEnd == call.cur >= call.offset + call.size

\* One turn of the loop of Mapping::flush().  A write that moved less than it
\* was given is accepted.
FlushSegment ==
  LET s == SegmentOf(call.cur)
      writes == status[s].dirty /\ status[s].mapped
      drops == status[s].mapped /\ call.evict
  IN  /\ call.phase = "flush"
      /\ ~FlushEnd
      /\ writes => Accepts(Cell(s), Amount(s))
      /\ IF writes
         THEN \E k \in Shorter(Amount(s)) :
                /\ Pwrite(s, Cell(s), Amount(s), k)
                /\ expected' = [p \in Pages |->
                     IF SegmentOf(p) = s /\ p - Base(s) \in k..(Amount(s) - 1)
                     THEN Lost ELSE expected[p]]
         ELSE UNCHANGED <<storage, length, expected>>
      /\ status' = [status EXCEPT ![s] =
           [mapped |-> @.mapped /\ ~drops, dirty |-> @.dirty /\ ~writes,
            needRead |-> @.needRead \/ writes]]
      /\ memory' = [p \in Pages |->
           IF SegmentOf(p) = s /\ drops THEN Zero ELSE memory[p]]
      /\ call' = [call EXCEPT !.cur = @ + SegmentSize]
      /\ UNCHANGED <<kind, touched>>

\* CDriver::sync() calls pread() with the offset as the size, the size as
\* the offset, and the base of the mapping as the buffer.  The driver writes
\* the pages there as the program would.
CSync ==
  LET moved == Max({0, Min({call.offset, StorageSize - call.size})})
      reached == {s \in Segments : Base(s) < moved}
  IN  /\ memory' = [p \in Pages |->
           IF p < moved THEN storage[call.size + p]
           ELSE IF SegmentOf(p) \in reached THEN Content(p) ELSE memory[p]]
      /\ status' = [s \in Segments |->
           IF s \in reached THEN [status[s] EXCEPT !.mapped = TRUE, !.dirty = TRUE]
           ELSE status[s]]
      /\ touched' = touched \union reached
      /\ expected' = [p \in Pages |-> IF p < moved THEN Lost ELSE expected[p]]

\* MemoryDriver::sync() compares the offset in the mapping with its size.
SyncFails == call.sync /\ kind = "memory" /\ call.offset >= length

\* The end of Mapping::flush().  The sync() of the other drivers changes
\* nothing that the program or another reader of the storage can see.
FlushReturn ==
  /\ call.phase = "flush"
  /\ FlushEnd
  /\ ~SyncFails
  /\ call' = NoCall
  /\ IF call.sync /\ kind = "c" THEN CSync
     ELSE UNCHANGED <<memory, status, touched, expected>>
  /\ UNCHANGED <<kind, length, storage>>

FlushFails ==
  LET s == SegmentOf(call.cur)
  IN  /\ call.phase = "flush"
      /\ IF FlushEnd THEN SyncFails
         ELSE /\ status[s].dirty /\ status[s].mapped
              /\ ~Accepts(Cell(s), Amount(s))
      /\ Abort

Next ==
  \/ \E s \in Segments : Load(s) \/ AccessFails(s)
  \/ \E p \in Pages, v \in Values : Store(p, v)
  \/ SkipFirstRead
  \/ \E ptr \in Pages, size \in 0..AlignedSize, evict, sync \in BOOLEAN :
       Umflush(ptr, size, evict, sync)
  \/ FlushSegment
  \/ FlushFails
  \/ FlushReturn

Spec == Init /\ [][Next]_vars
-----------------------------------------------------------------------------
(***************************************************************************)
(* Properties.                                                             *)
(***************************************************************************)

\* Every variable keeps its type, and a range that is flushed is made of
\* whole segments of the mapping.
TypeOK ==
  /\ kind \in Kinds
  /\ length \in 0..StorageSize
  /\ storage \in [Cells -> Values]
  /\ memory \in [Pages -> Values]
  /\ status \in [Segments ->
                   [mapped : BOOLEAN, dirty : BOOLEAN, needRead : BOOLEAN]]
  /\ touched \subseteq Segments
  /\ expected \in [Pages -> Values \union {Lost}]
  /\ call.phase \in {"none", "flush", "aborted"}
  /\ call.phase = "flush" =>
       /\ call.offset \in {Base(s) : s \in Segments}
       /\ call.cur \in {Base(s) : s \in Segments} \union {AlignedSize}

\* The program finds in the mapping what it stored last, or what the storage
\* held at first, zeroes beyond the end of a file: a load reads at the place
\* a flush writes, for each length of the storage and of the last segment
\* (Mapping::readWriteSize, pread and pwrite of the drivers).  A page is Lost in
\* three ways only, and until the next store to it: a file moved less than it
\* was asked to, ummap_skip_first_read() came after the accesses, or the sync()
\* of a C driver wrote there.  Segments that Mero moves by operations of several
\* lengths are the fourth exception (Shuffled), and a DummyDriver keeps nothing.
ContentKept ==
  call.phase # "aborted" /\ kind # "dummy" =>
    \A p \in 0..(Size - 1) :
      /\ expected[p] # Lost
      /\ ~Shuffled(SegmentOf(p)) /\ Loads(SegmentOf(p))
      => Content(p) = expected[p]

\* When umflush() or umsync() has been through its segments, none of the range
\* the caller gave is dirty, and every page is in the storage, unless the
\* program never used its segment, with the exceptions of ContentKept
\* (GlobalHandler::flush, Mapping::flush).
FlushCovers ==
  call.phase = "flush" /\ FlushEnd =>
    \A p \in call.ptr..(call.ptr + call.asked - 1) :
      LET s == SegmentOf(p)
      IN  /\ ~(status[s].dirty /\ status[s].mapped)
          /\ /\ p < Size /\ kind # "dummy" /\ status[s].needRead
             /\ expected[p] # Lost /\ ~Shuffled(s)
             => storage[StorageOffset + p] = expected[p]

\* umsync() leaves the mapping as its flush left it: "Apply a sync operation
\* on the given interval" (ummap.h, CDriver::sync).
SyncKeepsMemory == [][FlushReturn => memory' = memory]_vars

\* umflush() and umsync() take any address and any size in the mapping:
\* "Base address of the mapping or an address inside the mapping" (ummap.h).
EveryRangeIsTaken ==
  [][\A ptr \in 0..(Size - 1), evict, sync \in BOOLEAN :
       \A size \in 0..(Size - ptr) :
         Umflush(ptr, size, evict, sync) => call'.phase = "flush"]_vars

\* No step writes the storage before or after the part that is mapped, even
\* when the program stores in the pages that fill the last segment: "For
\* read/write operations it will ignore this extra sub-segment" (ummap.h).
NeighboursKept ==
  [][\A c \in Cells \ Mapped : storage'[c] = storage[c]]_vars
=============================================================================
