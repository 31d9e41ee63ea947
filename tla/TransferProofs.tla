--------------------------- MODULE TransferProofs ---------------------------
(***************************************************************************)
(* Proofs about module Transfer, for every size of a segment, of a mapping *)
(* and of a storage, and for every offset in it.                           *)
(***************************************************************************)
EXTENDS Transfer, TLAPS

-----------------------------------------------------------------------------
(***************************************************************************)
(* The inductive invariant.                                                *)
(***************************************************************************)

CallStates ==
  [phase : {"none", "flush", "aborted"}, ptr : Nat, asked : Nat, offset : Nat,
   size : Int, cur : Nat, evict : BOOLEAN, sync : BOOLEAN]

Bits == [mapped : BOOLEAN, dirty : BOOLEAN, needRead : BOOLEAN]

Types ==
  /\ length \in Int
  /\ status \in [Segments -> Bits]
  /\ expected \in [Pages -> Values \union {Lost}]
  /\ call \in CallStates

\* Only an access maps a segment.
TouchedInv == \A s \in Segments : status[s].mapped => s \in touched

\* A file has zeroes after its end.
TailInv == kind = "fd" => \A c \in Cells : c >= length => storage[c] = Zero

Unsaved(s) == status[s].mapped /\ status[s].dirty

\* Something is known of page p.
Sure(p) == expected[p] # Lost /\ ~Shuffled(SegmentOf(p))

\* A mapped page has what the program expects, and so has the storage when
\* the page was not written since; a page that is not to be read is zero.
PageInv ==
  kind # "dummy" =>
    \A p \in 0..(Size - 1) : Sure(p) =>
      /\ status[SegmentOf(p)].mapped => memory[p] = expected[p]
      /\ ~Unsaved(SegmentOf(p)) =>
           expected[p] = IF status[SegmentOf(p)].needRead
                         THEN storage[StorageOffset + p] ELSE Zero

\* The range that is flushed is the caller's, it is made of segments, and
\* those that the loop went through are saved.
FlushInv ==
  call.phase = "flush" =>
    /\ call.offset = call.ptr /\ call.size = call.asked
    /\ call.offset % SegmentSize = 0 /\ call.size % SegmentSize = 0
    /\ call.cur % SegmentSize = 0
    /\ call.offset <= call.cur
    /\ call.offset + call.size <= AlignedSize
    /\ \A s \in Segments :
         call.offset <= Base(s) /\ Base(s) < call.cur => ~Unsaved(s)

IInv == Types /\ TouchedInv /\ TailInv /\ PageInv /\ FlushInv

-----------------------------------------------------------------------------
(***************************************************************************)
(* Arithmetic of pages and segments.                                       *)
(***************************************************************************)

\* The constants of the sizes.
LEMMA Sizes ==
  /\ SegmentSize \in Nat \ {0} /\ Size \in Nat \ {0}
  /\ UnitSize \in Nat \ {0} /\ MaxUnits \in Nat \ {0}
  /\ StorageOffset \in Nat /\ StorageSize \in Nat
BY TransferAssumption

\* A page is in its segment.
LEMMA InSegment ==
  ASSUME NEW p \in Nat
  PROVE  /\ SegmentOf(p) \in Nat /\ Base(SegmentOf(p)) \in Nat
         /\ Base(SegmentOf(p)) <= p /\ p < Base(SegmentOf(p)) + SegmentSize
BY Sizes, Z3 DEF SegmentOf, Base

\* The segment of a page is the one it was counted from.
LEMMA SegmentOfBase ==
  ASSUME NEW s \in Nat, NEW b \in 0..(SegmentSize - 1)
  PROVE  SegmentOf(Base(s) + b) = s
BY Sizes, Z3 DEF SegmentOf, Base

\* A page at the beginning of a segment.
LEMMA AlignedPage ==
  ASSUME NEW p \in Nat, p % SegmentSize = 0
  PROVE  Base(SegmentOf(p)) = p
BY Sizes, Z3 DEF SegmentOf, Base

\* Segments do not overlap.
LEMMA Apart ==
  ASSUME NEW s \in Nat, NEW t \in Nat, s < t
  PROVE  Base(s) \in Nat /\ Base(t) \in Nat /\ Base(s) + SegmentSize <= Base(t)
BY Sizes, Z3 DEF Base

\* Remainders.
LEMMA Remainder ==
  ASSUME NEW q \in Nat, NEW r \in 0..(SegmentSize - 1)
  PROVE  (q * SegmentSize + r) % SegmentSize = r
BY Sizes, Z3

\* A page is a number of segments and a remainder.
LEMMA Split ==
  ASSUME NEW p \in Nat
  PROVE  \E q \in Nat : \E r \in 0..(SegmentSize - 1) :
           p = q * SegmentSize + r /\ p % SegmentSize = r
<1>1. /\ p \div SegmentSize \in Nat /\ p % SegmentSize \in 0..(SegmentSize - 1)
      /\ p = (p \div SegmentSize) * SegmentSize + (p % SegmentSize)
  BY Sizes, Z3
<1> QED
  BY <1>1

\* The pages of a mapping are whole segments, the last of which begins in it.
LEMMA AlignedSizeFacts ==
  /\ AlignedSize \in Nat /\ AlignedSize % SegmentSize = 0
  /\ Size <= AlignedSize /\ AlignedSize < Size + SegmentSize
<1>1. PICK q \in Nat, r \in 0..(SegmentSize - 1) :
        Size = q * SegmentSize + r /\ Size % SegmentSize = r
  BY Sizes, Split
<1>2. CASE r = 0
  BY <1>1, <1>2, Sizes DEF AlignedSize
<1>3. CASE r # 0
  <2>1. AlignedSize = Size + SegmentSize - r
    BY <1>1, <1>3 DEF AlignedSize
  <2>2. AlignedSize = (q + 1) * SegmentSize + 0
    BY <1>1, <2>1, Sizes, Z3
  <2>3. AlignedSize % SegmentSize = 0
    BY <2>2, Sizes, Remainder
  <2> QED
    BY <1>1, <1>3, <2>1, <2>3, Sizes
<1> QED
  BY <1>2, <1>3

\* Segments and their pages.
LEMMA SegmentFacts ==
  ASSUME NEW s \in Segments
  PROVE  /\ s \in Nat /\ Base(s) \in Nat
         /\ Base(s) + SegmentSize <= AlignedSize /\ Base(s) < Size
<1> DEFINE n == AlignedSize \div SegmentSize
<1>1. n \in Nat /\ n * SegmentSize = AlignedSize
  BY Sizes, AlignedSizeFacts, Z3
<1>2. s \in Nat /\ s < n
  BY <1>1 DEF Segments
<1>3. Base(s) \in Nat /\ Base(s) + SegmentSize <= Base(n)
  BY <1>1, <1>2, Apart
<1> QED
  BY <1>1, <1>2, <1>3, Sizes, AlignedSizeFacts DEF Base

\* A page of the mapping and its segment.
LEMMA PageFacts ==
  ASSUME NEW p \in Pages
  PROVE  p \in Nat /\ SegmentOf(p) \in Segments
<1> DEFINE n == AlignedSize \div SegmentSize
<1>1. n \in Nat /\ n * SegmentSize = AlignedSize
  BY Sizes, AlignedSizeFacts, Z3
<1> HIDE DEF n
<1>2. p \in Nat /\ p < AlignedSize
  BY AlignedSizeFacts DEF Pages
<1>3. SegmentOf(p) < n
  <2>1. Base(SegmentOf(p)) <= p /\ Base(n) = AlignedSize /\ SegmentOf(p) \in Nat
    BY <1>1, <1>2, InSegment DEF Base
  <2>2. CASE n < SegmentOf(p)
    BY <1>1, <1>2, <2>1, <2>2, Sizes, Apart
  <2>3. CASE n = SegmentOf(p)
    BY <1>2, <2>1, <2>3, AlignedSizeFacts
  <2>4. n \in Nat /\ SegmentOf(p) \in Nat
    BY <1>1, <2>1
  <2> QED
    BY <2>2, <2>3, <2>4
<1> QED
  BY <1>1, <1>2, <1>3, InSegment DEF Segments, n

\* The pages of the mapping are pages of its segments.
LEMMA MappedPages ==
  ASSUME NEW p \in 0..(Size - 1)
  PROVE  p \in Pages /\ p \in Nat /\ SegmentOf(p) \in Segments
BY Sizes, AlignedSizeFacts, PageFacts DEF Pages

\* What is moved of a segment is inside the mapping ...
LEMMA AmountFacts ==
  ASSUME NEW s \in Segments
  PROVE  /\ Amount(s) \in 1..SegmentSize
         /\ Base(s) + Amount(s) <= Size
         /\ Cell(s) \in Nat /\ Cell(s) + Amount(s) <= StorageOffset + Size
         /\ Cell(s) = StorageOffset + Base(s)
BY Sizes, SegmentFacts DEF Amount, ReadWriteSize, Cell

\* ... and is all of the segment that is.
LEMMA InAmount ==
  ASSUME NEW p \in 0..(Size - 1)
  PROVE  /\ p - Base(SegmentOf(p)) \in 0..(Amount(SegmentOf(p)) - 1)
         /\ Cell(SegmentOf(p)) + (p - Base(SegmentOf(p))) = StorageOffset + p
BY Sizes, MappedPages, InSegment DEF Amount, ReadWriteSize, Cell

\* The storage holds the mapping.
LEMMA MappedCells ==
  ASSUME NEW p \in 0..(Size - 1)
  PROVE  StorageOffset + p \in Cells
BY Sizes, TransferAssumption DEF Mapped

\* A range that passes the checks is the one that the caller gave.
LEMMA FlushableRange ==
  ASSUME NEW ptr \in Pages, NEW size \in 0..AlignedSize,
         Flushable(ptr, Align(ptr, size))
  PROVE  LET given == IF size = 0 THEN AlignedSize - ptr ELSE size
             r == Align(ptr, size)
         IN  /\ r.offset = ptr /\ r.size = given /\ given \in Nat
             /\ ptr % SegmentSize = 0 /\ given % SegmentSize = 0
             /\ ptr + given <= AlignedSize
<1> DEFINE given == IF size = 0 THEN AlignedSize - ptr ELSE size
           S == SegmentSize
<1>1. ptr \in Nat /\ given \in Nat /\ S \in Nat \ {0}
  BY Sizes, AlignedSizeFacts DEF Pages
<1>2. CASE ptr % S # 0
  <2>1. Align(ptr, size).offset = ptr % S
    BY <1>1, <1>2, Z3 DEF Align
  <2>2. (ptr % S) % S = ptr % S
    BY <1>1, Z3
  <2> QED
    BY <1>2, <2>1, <2>2 DEF Flushable
<1>3. CASE ptr % S = 0
  <2>1. Align(ptr, size).offset = ptr
    BY <1>1, <1>3 DEF Align
  <2>2. Align(ptr, size).size = IF given % S = 0 THEN given ELSE given + S
    BY <1>1, <1>3 DEF Align
  <2>3. given % S # 0 => (given + S) % S # 0
    <3>1. PICK q \in Nat, r \in 0..(S - 1) : given = q * S + r /\ given % S = r
      BY <1>1, Split, Zenon
    <3>2. given + S = (q + 1) * S + r
      BY <1>1, <3>1, Z3
    <3> QED
      BY <1>1, <3>1, <3>2, Remainder
  <2> QED
    BY <1>1, <1>3, <2>1, <2>2, <2>3 DEF Flushable
<1> QED
  BY <1>2, <1>3

-----------------------------------------------------------------------------
(***************************************************************************)
(* What the drivers move.                                                  *)
(***************************************************************************)

\* A Mero buffer is in the order of the storage when a segment fits in one
\* operation, or an operation is one unit.
LEMMA BufferIsPage ==
  ASSUME MaxUnits = 1 \/ SegmentSize <= UnitSize * MaxUnits, NEW n \in 1..SegmentSize, NEW k \in 0..(n - 1),
         kind = "mero" /\ UnitSize <= n => n % UnitSize = 0
  PROVE  BufferPage(k, n) = k
<1>1. n \in Nat \ {0} /\ k \in Nat /\ k < n /\ n <= SegmentSize
  BY Sizes
<1>2. CASE kind # "mero"
  BY <1>2 DEF BufferPage
<1>3. CASE kind = "mero" /\ UnitSize > n
  <2>1. k \div n = 0 /\ k % n = k /\ n \div n = 1
    BY <1>1, Z3
  <2>2. 0 % MaxUnits = 0 /\ 0 \div MaxUnits = 0
    BY Sizes, Z3
  <2>3. Min({MaxUnits, 1 - 0 * MaxUnits}) \in Int
    BY Sizes DEF Min
  <2>4. BufferPage(k, n) = (0 + 0 * Min({MaxUnits, 1 - 0 * MaxUnits})) * n + k
    BY <1>3, <2>1, <2>2, Zenon DEF BufferPage
  <2> QED
    BY <1>1, <2>3, <2>4
<1>4. CASE kind = "mero" /\ ~(UnitSize > n)
  <2> DEFINE a == k \div UnitSize
             m == n \div UnitSize
             j == a \div MaxUnits
             bs == Min({MaxUnits, m - j * MaxUnits})
  <2>1. a \in Nat /\ k % UnitSize \in Nat /\ a * UnitSize + (k % UnitSize) = k
    BY <1>1, Sizes, Z3
  <2>2. m \in Nat /\ m * UnitSize = n
    BY <1>1, <1>4, Sizes, Z3
  <2>3. BufferPage(k, n)
          = ((a % MaxUnits) + j * bs) * UnitSize + (k % UnitSize)
    BY <1>4 DEF BufferPage
  <2>4. a < m
    BY <1>1, <2>1, <2>2, Sizes, Z3
  <2>5. CASE MaxUnits = 1
    <3>1. a % MaxUnits = 0 /\ j = a
      BY <2>1, <2>5, Z3
    <3>2. bs = 1
      <4>1. m - j * MaxUnits \in Int /\ m - j * MaxUnits >= 1
        BY <2>1, <2>2, <2>4, <2>5, <3>1
      <4> QED
        BY <2>5, <4>1 DEF Min
    <3> QED
      BY <2>1, <2>3, <3>1, <3>2, Sizes
  <2>6. CASE SegmentSize <= UnitSize * MaxUnits
    <3>1. a < MaxUnits
      BY <1>1, <2>1, <2>6, Sizes, Z3
    <3>2. a % MaxUnits = a /\ j = 0
      BY <2>1, <3>1, Sizes, Z3
    <3>3. bs \in Int
      <4>1. m - j * MaxUnits \in Int
        BY <2>2, <3>2, Sizes
      <4>2. PICK x \in Int : x = m - j * MaxUnits
        BY <4>1
      <4>3. Min({MaxUnits, x}) \in Int
        BY Sizes DEF Min
      <4> QED
        BY <4>2, <4>3
    <3> HIDE DEF a, j, bs
    <3>4. (a % MaxUnits) + j * bs = a
      BY <2>1, <3>2, <3>3
    <3>5. BufferPage(k, n) = a * UnitSize + (k % UnitSize)
      BY <2>3, <3>4
    <3> QED
      BY <2>1, <3>5
  <2> QED
    BY <2>5, <2>6
<1> QED
  BY <1>1, <1>2, <1>3, <1>4, Sizes

\* So no segment that a driver accepts is shuffled then.
LEMMA NothingIsShuffled ==
  ASSUME MaxUnits = 1 \/ SegmentSize <= UnitSize * MaxUnits, NEW s \in Segments,
         Accepts(Cell(s), Amount(s))
  PROVE  ~Shuffled(s)
BY AmountFacts, BufferIsPage DEF Shuffled, Accepts

\* Nor does any other driver shuffle.
LEMMA OnlyMeroShuffles ==
  ASSUME kind # "mero", NEW s \in Segments
  PROVE  ~Shuffled(s)
BY DEF Shuffled, BufferPage

\* The driver of a mapping does not change.
LEMMA ShuffledStays ==
  ASSUME UNCHANGED kind, NEW s
  PROVE  Shuffled(s)' <=> Shuffled(s)
BY DEF Shuffled, BufferPage

\* A file gives what it has, the other drivers all that is asked.
LEMMA AvailableFacts ==
  ASSUME length \in Int, NEW s \in Segments
  PROVE  LET k == Available(Cell(s), Amount(s))
         IN  /\ k \in 0..Amount(s)
             /\ kind # "fd" => k = Amount(s)
             /\ k < Amount(s) => Cell(s) + k >= length
<1>1. Cell(s) \in Nat /\ Amount(s) \in Nat
  BY AmountFacts
<1>2. CASE kind # "fd"
  BY <1>1, <1>2 DEF Available
<1>3. CASE kind = "fd"
  <2> DEFINE m == Min({Amount(s), length - Cell(s)})
  <2>1. m \in Int /\ m = IF Amount(s) <= length - Cell(s) THEN Amount(s)
                         ELSE length - Cell(s)
    BY <1>1 DEF Min
  <2> HIDE DEF m
  <2>2. Max({0, m}) = IF 0 >= m THEN 0 ELSE m
    BY <2>1 DEF Max
  <2>3. Available(Cell(s), Amount(s)) = Max({0, m})
    BY <1>3 DEF Available, m
  <2> QED
    BY <1>1, <1>3, <2>1, <2>2, <2>3
<1> QED
  BY <1>2, <1>3

\* What a segment is read with is what the storage holds for it, also where
\* a file is too short, save what the read left out.
LEMMA PreadFinds ==
  ASSUME length \in Int, TailInv, kind # "dummy",
         NEW p \in 0..(Size - 1), ~Shuffled(SegmentOf(p)),
         NEW k \in 0..Available(Cell(SegmentOf(p)), Amount(SegmentOf(p))),
         p - Base(SegmentOf(p))
           \notin k..(Available(Cell(SegmentOf(p)), Amount(SegmentOf(p))) - 1)
  PROVE  LET s == SegmentOf(p)
         IN  Pread(Cell(s), Amount(s), k)[p - Base(s)] = storage[StorageOffset + p]
<1> DEFINE s == SegmentOf(p)
           n == Amount(s)
           m == Available(Cell(s), n)
           b == p - Base(s)
           from == {i \in 0..(k - 1) : BufferPage(i, n) = b}
<1>1. s \in Segments
  BY MappedPages
<1>2. /\ n \in 1..SegmentSize /\ m \in 0..n /\ k \in 0..m
      /\ b \in 0..(n - 1) /\ b \in 0..(SegmentSize - 1) /\ b \notin k..(m - 1)
  BY <1>1, AmountFacts, AvailableFacts, InAmount, Sizes
<1>3. \A i \in 0..(n - 1) : BufferPage(i, n) = i
  BY DEF Shuffled
<1>4. Cell(s) + b = StorageOffset + p /\ Cell(s) \in Nat
  BY <1>1, InAmount, AmountFacts
<1>5. Pread(Cell(s), n, k)[b] =
        IF from = {} THEN Zero ELSE storage[Cell(s) + Max(from)]
  BY <1>2 DEF Pread
<1>6. StorageOffset + p \in Cells
  BY MappedCells
<1>7. /\ kind # "fd" => m = n
      /\ m < n => Cell(s) + m >= length
  BY <1>1, AvailableFacts
<1> HIDE DEF m, n, s, b
<1>8. CASE b < k
  <2>1. from = {b}
    BY <1>2, <1>3, <1>8
  <2>2. Max({b}) = b
    BY <1>2 DEF Max
  <2> QED
    BY <1>4, <1>5, <2>1, <2>2, Zenon DEF s, n, b
<1>9. CASE ~(b < k)
  <2>1. from = {}
    BY <1>2, <1>3, <1>9
  <2>2. kind = "fd" /\ m < n /\ b >= m
    BY <1>2, <1>7, <1>9
  <2>3. StorageOffset + p >= length
    BY <1>2, <1>4, <1>7, <1>9, <2>2
  <2>4. storage[StorageOffset + p] = Zero
    BY <1>6, <2>2, <2>3 DEF TailInv
  <2> QED
    BY <1>5, <2>1, <2>4 DEF s, n, b
<1> QED
  BY <1>8, <1>9

-----------------------------------------------------------------------------
(***************************************************************************)
(* The storage around the mapping.  No use of the library is left out.     *)
(***************************************************************************)

\* The call in progress keeps its type.
LEMMA CallStep ==
  ASSUME call \in CallStates, [Next]_vars
  PROVE  call' \in CallStates
<1>1. CASE UNCHANGED call
  BY <1>1
<1>2. CASE Abort
  BY <1>2 DEF Abort, CallStates
<1>3. ASSUME NEW ptr \in Pages, NEW size \in 0..AlignedSize,
             NEW evict \in BOOLEAN, NEW sync \in BOOLEAN,
             Umflush(ptr, size, evict, sync)
      PROVE  call' \in CallStates
  <2> DEFINE given == IF size = 0 THEN AlignedSize - ptr ELSE size
             r == Align(ptr, size)
  <2>1. ptr \in Nat /\ given \in Nat
    BY AlignedSizeFacts DEF Pages
  <2>2. CASE Flushable(ptr, r)
    <3>1. r.offset = ptr /\ r.size = given
      BY <2>2, FlushableRange
    <3>2. call' = [phase |-> "flush", ptr |-> ptr, asked |-> given,
                   offset |-> r.offset, size |-> r.size,
                   cur |-> r.offset, evict |-> evict, sync |-> sync]
      BY <1>3, <2>2 DEF Umflush
    <3> HIDE DEF r, given
    <3> QED
      BY <2>1, <3>1, <3>2 DEF CallStates
  <2>3. CASE ~Flushable(ptr, r)
    BY <1>2, <1>3, <2>3 DEF Umflush
  <2> QED
    BY <2>2, <2>3
<1>4. CASE FlushSegment
  <2>1. call' = [call EXCEPT !.cur = @ + SegmentSize]
    BY <1>4 DEF FlushSegment
  <2> QED
    BY <2>1, Sizes DEF CallStates
<1>5. CASE FlushReturn
  BY <1>5 DEF FlushReturn, NoCall, CallStates
<1> QED
  BY <1>1, <1>2, <1>3, <1>4, <1>5, Zenon
  DEF Next, Load, Store, Open, AccessFails, SkipFirstRead, FlushFails, vars

\* No step writes outside the cells of the mapping.
LEMMA NeighboursStep ==
  ASSUME call \in CallStates, [Next]_vars, NEW c \in Cells \ Mapped
  PROVE  storage'[c] = storage[c]
<1>1. CASE UNCHANGED storage
  BY <1>1
<1>2. CASE FlushSegment
  <2> DEFINE s == SegmentOf(call.cur)
  <2>1. CASE UNCHANGED storage
    BY <2>1
  <2>2. CASE \E k \in Shorter(Amount(s)) : Pwrite(s, Cell(s), Amount(s), k)
    <3>1. PICK k \in Shorter(Amount(s)) : Pwrite(s, Cell(s), Amount(s), k)
      BY <2>2
    <3>2. Base(s) \in Nat
      BY InSegment DEF CallStates
    <3>3. /\ Amount(s) \in Int /\ Base(s) + Amount(s) <= Size
          /\ Cell(s) = StorageOffset + Base(s)
      BY <3>2, Sizes DEF Amount, ReadWriteSize, Cell
    <3>4. k \in Int /\ k <= Amount(s)
      BY <3>3 DEF Shorter
    <3>5. c \in Int /\ ~(StorageOffset <= c /\ c <= StorageOffset + Size - 1)
      BY Sizes DEF Cells, Mapped
    <3>6. c - Cell(s) \notin 0..(k - 1)
      BY <3>2, <3>3, <3>4, <3>5, Sizes
    <3> QED
      BY <3>1, <3>6 DEF Pwrite
  <2> QED
    BY <1>2, <2>1, <2>2 DEF FlushSegment
<1> QED
  BY <1>1, <1>2, Zenon DEF Next, Load, Store, Open, AccessFails, SkipFirstRead, Umflush,
                    FlushFails, FlushReturn, Abort, vars

\* Whatever the sizes, the driver and the order of the calls, the storage
\* before and after the mapped part is never written (Mapping::readWriteSize,
\* Mapping::flush).
THEOREM NeighboursAreKept == Spec => NeighboursKept
<1>1. Init => call \in CallStates
  BY DEF Init, NoCall, CallStates
<1>2. call \in CallStates /\ [Next]_vars => (call \in CallStates)'
  BY CallStep
<1>3. call \in CallStates /\ [Next]_vars
        => [\A c \in Cells \ Mapped : storage'[c] = storage[c]]_vars
  BY NeighboursStep
<1> QED
  BY <1>1, <1>2, <1>3, PTL DEF Spec, NeighboursKept

-----------------------------------------------------------------------------
(***************************************************************************)
(* The contents.                                                           *)
(***************************************************************************)

\* What an access finds, with k pages read, is what the program expects.
LEMMA FoundIsExpected ==
  ASSUME IInv, kind # "dummy", NEW p \in 0..(Size - 1), Sure(p),
         NEW k \in 0..Available(Cell(SegmentOf(p)), Amount(SegmentOf(p))),
         status[SegmentOf(p)].needRead /\ ~status[SegmentOf(p)].mapped =>
           p - Base(SegmentOf(p))
             \notin k..(Available(Cell(SegmentOf(p)), Amount(SegmentOf(p))) - 1)
  PROVE  Found(SegmentOf(p), k)[p - Base(SegmentOf(p))] = expected[p]
<1> DEFINE s == SegmentOf(p)
           b == p - Base(s)
<1>1. s \in Segments /\ p \in Nat /\ status[s] \in Bits
  BY MappedPages DEF IInv, Types
<1>2. Base(s) \in Nat /\ b \in 0..(SegmentSize - 1) /\ Base(s) + b = p
  BY <1>1, InSegment, Sizes
<1>3. Found(s, k)[b] = IF status[s].mapped THEN memory[Base(s) + b]
                       ELSE IF status[s].needRead
                       THEN Pread(Cell(s), Amount(s), k)[b]
                       ELSE Zero
  BY <1>2 DEF Found
<1>4. CASE status[s].mapped
  BY <1>2, <1>3, <1>4 DEF IInv, PageInv
<1>5. CASE ~status[s].mapped
  <2>1. expected[p] = IF status[s].needRead
                      THEN storage[StorageOffset + p] ELSE Zero
    BY <1>5 DEF IInv, PageInv, Unsaved
  <2>2. CASE status[s].needRead
    <3>1. Pread(Cell(s), Amount(s), k)[b] = storage[StorageOffset + p]
      BY <1>5, <2>2, PreadFinds DEF IInv, Types, Sure
    <3> QED
      BY <1>3, <1>5, <2>1, <2>2, <3>1
  <2> QED
    BY <1>3, <1>5, <2>1, <2>2
<1> QED
  BY <1>4, <1>5

\* onSegmentationFault(), for a load or a store.
LEMMA AccessStep ==
  ASSUME IInv, NEW s \in Segments, NEW w \in BOOLEAN,
         call.phase = "none", Open(s, w),
         kind # "dummy" => \A q \in 0..(Size - 1) : Sure(q)' =>
           /\ SegmentOf(q) = s => memory'[q] = expected'[q]
           /\ SegmentOf(q) # s => memory'[q] = memory[q]
           /\ SegmentOf(q) # s \/ ~w => expected'[q] = expected[q],
         expected' \in [Pages -> Values \union {Lost}]
  PROVE  IInv'
<1>1. /\ status' = [status EXCEPT ![s].mapped = TRUE, ![s].dirty = @ \/ w]
      /\ touched' = touched \union {s}
      /\ UNCHANGED <<kind, length, storage, call>>
  BY DEF Open
<1>2. /\ status \in [Segments -> Bits]
  BY DEF IInv, Types
<1>3. /\ status' \in [Segments -> Bits]
      /\ status'[s].mapped /\ status'[s].needRead = status[s].needRead
      /\ status'[s].dirty = (status[s].dirty \/ w)
      /\ \A t \in Segments : t # s => status'[t] = status[t]
  BY <1>1, <1>2, Zenon DEF Bits
<1>4. Types'
  BY <1>1, <1>3 DEF IInv, Types
<1>5. TouchedInv' /\ TailInv' /\ FlushInv'
  BY <1>1, <1>3 DEF IInv, TouchedInv, TailInv, FlushInv
<1>6. PageInv'
  <2> SUFFICES ASSUME kind # "dummy", NEW p \in 0..(Size - 1), Sure(p)'
               PROVE  /\ status'[SegmentOf(p)].mapped => memory'[p] = expected'[p]
                      /\ ~(status'[SegmentOf(p)].mapped
                           /\ status'[SegmentOf(p)].dirty) =>
                           expected'[p] = IF status'[SegmentOf(p)].needRead
                                          THEN storage[StorageOffset + p] ELSE Zero
    BY <1>1, Zenon DEF PageInv, Unsaved
  <2>1. SegmentOf(p) \in Segments
    BY MappedPages
  <2>2. expected'[p] = expected[p] => Sure(p)
    BY <1>1, ShuffledStays DEF Sure
  <2>3. CASE SegmentOf(p) = s
    <3>1. CASE ~(status[s].dirty \/ w)
      BY <1>3, <2>2, <2>3, <3>1 DEF IInv, PageInv, Unsaved
    <3> QED
      BY <1>3, <2>3, <3>1, Zenon
  <2>4. CASE SegmentOf(p) # s
    BY <1>3, <2>1, <2>2, <2>4 DEF IInv, PageInv, Unsaved
  <2> QED
    BY <2>3, <2>4
<1> QED
  BY <1>4, <1>5, <1>6 DEF IInv

\* What an access finds is what remains expected.
LEMMA FoundRemains ==
  ASSUME IInv, kind # "dummy", NEW q \in 0..(Size - 1),
         NEW k \in Shorter(Available(Cell(SegmentOf(q)), Amount(SegmentOf(q)))),
         Remains(SegmentOf(q), k)[q] # Lost, ~Shuffled(SegmentOf(q))
  PROVE  /\ Found(SegmentOf(q), k)[q - Base(SegmentOf(q))] = expected[q]
         /\ Remains(SegmentOf(q), k)[q] = expected[q]
<1> DEFINE s == SegmentOf(q)
           m == Available(Cell(s), Amount(s))
<1>1. q \in Pages /\ s \in Segments
  BY MappedPages
<1>2. m \in Nat /\ k \in 0..m
  BY <1>1, AvailableFacts DEF Shorter, IInv, Types
<1>3. /\ Remains(s, k)[q] = expected[q]
      /\ ~status[s].mapped /\ status[s].needRead => q - Base(s) \notin k..(m - 1)
  BY <1>1, Zenon DEF Remains
<1>4. Sure(q)
  BY <1>3 DEF Sure
<1> QED
  BY <1>2, <1>3, <1>4, FoundIsExpected

\* An access to a segment changes nothing that is expected of another one.
LEMMA RemainsFacts ==
  ASSUME IInv, NEW s, NEW k
  PROVE  /\ Remains(s, k) \in [Pages -> Values \union {Lost}]
         /\ \A q \in Pages : SegmentOf(q) # s => Remains(s, k)[q] = expected[q]
BY Zenon DEF Remains, IInv, Types

\* A load keeps the invariant.
LEMMA LoadStep ==
  ASSUME IInv, NEW s \in Segments, Load(s)
  PROVE  IInv'
<1>1. PICK k \in Shorter(Available(Cell(s), Amount(s))) :
        /\ memory' = [p \in Pages |->
             IF SegmentOf(p) = s THEN Found(s, k)[p - Base(s)] ELSE memory[p]]
        /\ expected' = Remains(s, k)
        /\ Open(s, FALSE)
  BY Zenon DEF Load
<1>2. call.phase = "none" /\ UNCHANGED kind
  BY <1>1 DEF Load, Open
<1>3. ASSUME kind # "dummy", NEW q \in 0..(Size - 1), Sure(q)'
      PROVE  /\ SegmentOf(q) = s => memory'[q] = expected'[q]
             /\ SegmentOf(q) # s => memory'[q] = memory[q]
             /\ expected'[q] = expected[q]
  <2>1. q \in Pages
    BY MappedPages
  <2>2. expected'[q] # Lost /\ ~Shuffled(SegmentOf(q))
    BY <1>2, <1>3, ShuffledStays DEF Sure
  <2>3. CASE SegmentOf(q) = s
    <3>1. Found(s, k)[q - Base(s)] = expected[q] /\ expected'[q] = expected[q]
      BY <1>1, <1>3, <2>2, <2>3, FoundRemains
    <3> QED
      BY <1>1, <2>1, <2>3, <3>1
  <2>4. CASE SegmentOf(q) # s
    BY <1>1, <2>1, <2>4, RemainsFacts
  <2> QED
    BY <2>3, <2>4
<1>4. expected' \in [Pages -> Values \union {Lost}]
  BY <1>1, RemainsFacts
<1> QED
  BY <1>1, <1>2, <1>3, <1>4, AccessStep, Zenon

\* A store keeps the invariant.
LEMMA StoreStep ==
  ASSUME IInv, NEW x \in Pages, NEW v \in Values, Store(x, v)
  PROVE  IInv'
<1> DEFINE s == SegmentOf(x)
<1>1. PICK k \in Shorter(Available(Cell(s), Amount(s))) :
        /\ memory' = [p \in Pages |->
             IF p = x THEN v
             ELSE IF SegmentOf(p) = s THEN Found(s, k)[p - Base(s)] ELSE memory[p]]
        /\ expected' = [Remains(s, k) EXCEPT ![x] = v]
        /\ Open(s, TRUE)
  BY Zenon DEF Store
<1>2. call.phase = "none" /\ UNCHANGED kind
  BY <1>1 DEF Store, Open
<1>3. s \in Segments
  BY PageFacts
<1>4. /\ expected' \in [Pages -> Values \union {Lost}] /\ expected'[x] = v
      /\ \A q \in Pages : q # x => expected'[q] = Remains(s, k)[q]
  BY <1>1, RemainsFacts
<1> HIDE DEF s
<1>5. ASSUME kind # "dummy", NEW q \in 0..(Size - 1), Sure(q)'
      PROVE  /\ SegmentOf(q) = s => memory'[q] = expected'[q]
             /\ SegmentOf(q) # s => memory'[q] = memory[q]
             /\ SegmentOf(q) # s => expected'[q] = expected[q]
  <2>1. q \in Pages
    BY MappedPages
  <2>2. expected'[q] # Lost /\ ~Shuffled(SegmentOf(q))
    BY <1>2, <1>5, ShuffledStays DEF Sure
  <2>3. CASE q = x
    BY <1>1, <1>4, <2>1, <2>3 DEF s
  <2>4. CASE SegmentOf(q) = s /\ q # x
    <3>1. Found(s, k)[q - Base(s)] = expected[q] /\ expected'[q] = expected[q]
      BY <1>1, <1>4, <1>5, <2>1, <2>2, <2>4, FoundRemains
    <3> QED
      BY <1>1, <2>1, <2>4, <3>1
  <2>5. CASE SegmentOf(q) # s
    BY <1>1, <1>4, <2>1, <2>5, RemainsFacts DEF s
  <2> QED
    BY <2>3, <2>4, <2>5
<1> QED
  BY <1>1, <1>2, <1>3, <1>4, <1>5, AccessStep, Zenon

\* ummap_skip_first_read() keeps the invariant.
LEMMA SkipStep ==
  ASSUME IInv, SkipFirstRead
  PROVE  IInv'
<1>1. /\ call.phase = "none"
      /\ status' = [s \in Segments |-> [status[s] EXCEPT !.needRead = FALSE]]
      /\ UNCHANGED <<kind, length, storage, memory, touched, call>>
  BY DEF SkipFirstRead
<1>2. \A p \in Pages :
        expected'[p] = IF SegmentOf(p) \notin touched THEN Zero
                       ELSE IF status[SegmentOf(p)].needRead /\ ~Unsaved(SegmentOf(p))
                       THEN Lost ELSE expected[p]
  BY DEF SkipFirstRead, Unsaved
<1>3. status \in [Segments -> Bits] /\ expected \in [Pages -> Values \union {Lost}]
  BY DEF IInv, Types
<1>4. /\ status' \in [Segments -> Bits]
      /\ \A s \in Segments : /\ status'[s].mapped = status[s].mapped
                             /\ status'[s].dirty = status[s].dirty
                             /\ ~status'[s].needRead
  BY <1>1, <1>3, Zenon DEF Bits
<1>5. expected' \in [Pages -> Values \union {Lost}]
  BY <1>3, TransferAssumption DEF SkipFirstRead
<1>6. Types'
  BY <1>1, <1>4, <1>5 DEF IInv, Types
<1>7. TouchedInv' /\ TailInv' /\ FlushInv'
  BY <1>1, <1>4 DEF IInv, TouchedInv, TailInv, FlushInv
<1>8. PageInv'
  <2> SUFFICES ASSUME kind # "dummy", NEW p \in 0..(Size - 1), Sure(p)'
               PROVE  /\ status'[SegmentOf(p)].mapped => memory[p] = expected'[p]
                      /\ ~(status'[SegmentOf(p)].mapped
                           /\ status'[SegmentOf(p)].dirty) =>
                           expected'[p] = IF status'[SegmentOf(p)].needRead
                                          THEN storage[StorageOffset + p] ELSE Zero
    BY <1>1, Zenon DEF PageInv, Unsaved
  <2> DEFINE s == SegmentOf(p)
  <2>1. p \in Pages /\ s \in Segments
    BY MappedPages
  <2>2. expected'[p] # Lost /\ ~Shuffled(s)
    BY <1>1, ShuffledStays DEF Sure
  <2>3. CASE s \notin touched
    BY <1>2, <1>4, <2>1, <2>3 DEF IInv, TouchedInv
  <2>4. CASE s \in touched
    <3>1. expected'[p] = expected[p] /\ (~status[s].needRead \/ Unsaved(s))
      BY <1>2, <2>1, <2>2, <2>4, Zenon
    <3>2. Sure(p)
      BY <2>2, <3>1 DEF Sure
    <3> QED
      BY <1>4, <2>1, <3>1, <3>2 DEF IInv, PageInv, Unsaved
  <2> QED
    BY <2>3, <2>4
<1> QED
  BY <1>6, <1>7, <1>8 DEF IInv

\* A umflush() or umsync() that begins keeps the invariant.
LEMMA UmflushStep ==
  ASSUME IInv, NEW ptr \in Pages, NEW size \in 0..AlignedSize,
         NEW evict \in BOOLEAN, NEW sync \in BOOLEAN,
         Umflush(ptr, size, evict, sync), call' \in CallStates
  PROVE  IInv'
<1> DEFINE given == IF size = 0 THEN AlignedSize - ptr ELSE size
           r == Align(ptr, size)
<1>1. UNCHANGED <<kind, length, storage, memory, status, touched, expected>>
  BY DEF Umflush, Abort
<1>2. Types' /\ TouchedInv' /\ TailInv' /\ PageInv'
  BY <1>1, ShuffledStays DEF IInv, Types, TouchedInv, TailInv, PageInv, Unsaved, Sure
<1>3. CASE ~Flushable(ptr, r)
  <2>1. call'.phase = "aborted"
    BY <1>3 DEF Umflush, Abort, IInv, Types, CallStates
  <2> QED
    BY <1>2, <2>1 DEF IInv, FlushInv
<1>4. CASE Flushable(ptr, r)
  <2>1. /\ r.offset = ptr /\ r.size = given /\ given \in Nat
        /\ ptr % SegmentSize = 0 /\ given % SegmentSize = 0
        /\ ptr + given <= AlignedSize
    BY <1>4, FlushableRange
  <2>2. call' = [phase |-> "flush", ptr |-> ptr, asked |-> given,
                 offset |-> r.offset, size |-> r.size,
                 cur |-> r.offset, evict |-> evict, sync |-> sync]
    BY <1>4 DEF Umflush
  <2> HIDE DEF r, given
  <2>3. FlushInv'
    BY <1>1, <2>1, <2>2, PageFacts, SegmentFacts DEF FlushInv
  <2> QED
    BY <1>2, <2>3 DEF IInv
<1> QED
  BY <1>3, <1>4

\* A pwrite of k pages of a segment saves these k pages ...
LEMMA PwriteMoves ==
  ASSUME kind # "dummy", NEW s \in Segments, ~Shuffled(s),
         NEW k \in 0..Amount(s), Pwrite(s, Cell(s), Amount(s), k),
         NEW p \in 0..(Size - 1), SegmentOf(p) = s, p - Base(s) < k
  PROVE  storage'[StorageOffset + p] = memory[p]
<1> DEFINE n == Amount(s)
           c == StorageOffset + p
<1>1. c \in Cells /\ p \in Nat
  BY MappedCells, MappedPages
<1>2. n \in 1..SegmentSize /\ Base(s) \in Nat /\ Cell(s) = StorageOffset + Base(s)
  BY AmountFacts, SegmentFacts
<1>3. p - Base(s) \in 0..(n - 1) /\ p - Base(s) \in 0..(k - 1)
  BY <1>2, InAmount
<1>4. c - Cell(s) = p - Base(s)
  BY <1>1, <1>2, Sizes
<1>5. BufferPage(p - Base(s), n) = p - Base(s)
  BY <1>3 DEF Shuffled
<1>6. Base(s) + (p - Base(s)) = p
  BY <1>1, <1>2
<1> QED
  BY <1>1, <1>3, <1>4, <1>5, <1>6 DEF Pwrite

\* ... and nothing of another segment.
LEMMA PwriteElsewhere ==
  ASSUME NEW s \in Segments, NEW k \in 0..Amount(s),
         Pwrite(s, Cell(s), Amount(s), k),
         NEW p \in 0..(Size - 1), SegmentOf(p) # s
  PROVE  storage'[StorageOffset + p] = storage[StorageOffset + p]
<1> DEFINE c == StorageOffset + p
<1>1. c \in Cells /\ p \in Nat
  BY MappedCells, MappedPages
<1>2. /\ Amount(s) \in 1..SegmentSize /\ Base(s) \in Nat /\ s \in Nat
      /\ Cell(s) = StorageOffset + Base(s)
  BY AmountFacts, SegmentFacts
<1>3. p - Base(s) \notin 0..(SegmentSize - 1)
  <2> SUFFICES ASSUME p - Base(s) \in 0..(SegmentSize - 1)
               PROVE  FALSE
    OBVIOUS
  <2>1. SegmentOf(Base(s) + (p - Base(s))) = s
    BY <1>2, SegmentOfBase
  <2>2. Base(s) + (p - Base(s)) = p
    BY <1>1, <1>2
  <2> QED
    BY <2>1, <2>2
<1>4. c - Cell(s) \notin 0..(k - 1)
  BY <1>1, <1>2, <1>3, Sizes
<1> QED
  BY <1>1, <1>4 DEF Pwrite

\* One turn of the loop of Mapping::flush().
LEMMA FlushSegmentStep ==
  ASSUME IInv, FlushSegment, call' \in CallStates
  PROVE  IInv'
<1> DEFINE s == SegmentOf(call.cur)
           writes == status[s].dirty /\ status[s].mapped
           drops == status[s].mapped /\ call.evict
<1>1. /\ call \in CallStates /\ call.phase = "flush" /\ ~FlushEnd
      /\ writes => Accepts(Cell(s), Amount(s))
      /\ status' = [status EXCEPT ![s] =
            [mapped |-> @.mapped /\ ~drops, dirty |-> @.dirty /\ ~writes,
             needRead |-> @.needRead \/ writes]]
      /\ memory' = [p \in Pages |->
            IF SegmentOf(p) = s /\ drops THEN Zero ELSE memory[p]]
      /\ call' = [call EXCEPT !.cur = @ + SegmentSize]
      /\ UNCHANGED <<kind, touched>>
  BY DEF FlushSegment, IInv, Types
<1>2. /\ ~writes => UNCHANGED <<storage, length, expected>>
      /\ writes => \E k \in Shorter(Amount(s)) :
           /\ Pwrite(s, Cell(s), Amount(s), k)
           /\ expected' = [p \in Pages |->
                IF SegmentOf(p) = s /\ p - Base(s) \in k..(Amount(s) - 1)
                THEN Lost ELSE expected[p]]
  BY Zenon DEF FlushSegment
<1>3. /\ call.cur \in Nat /\ call.offset \in Nat /\ call.size \in Int
      /\ call.cur < call.offset + call.size
  BY <1>1 DEF CallStates, FlushEnd
<1>4. s \in Segments /\ Base(s) = call.cur
  <2>1. call.cur \in Pages
    BY <1>1, <1>3, AlignedSizeFacts DEF IInv, FlushInv, Pages
  <2> QED
    BY <1>1, <1>3, <2>1, PageFacts, AlignedPage DEF IInv, FlushInv
<1>5. /\ status \in [Segments -> Bits] /\ length \in Int
      /\ expected \in [Pages -> Values \union {Lost}]
  BY DEF IInv, Types
<1> HIDE DEF s
<1>6. /\ status' \in [Segments -> Bits]
      /\ status'[s].mapped = (status[s].mapped /\ ~drops)
      /\ status'[s].dirty = (status[s].dirty /\ ~writes)
      /\ status'[s].needRead = (status[s].needRead \/ writes)
      /\ \A t \in Segments : t # s => status'[t] = status[t]
  BY <1>1, <1>4, <1>5 DEF Bits
<1>write. writes => \E k \in 0..Amount(s) :
        /\ Pwrite(s, Cell(s), Amount(s), k)
        /\ expected' = [p \in Pages |->
             IF SegmentOf(p) = s /\ p - Base(s) \in k..(Amount(s) - 1)
             THEN Lost ELSE expected[p]]
        /\ length' = IF kind = "fd" /\ k > 0
                     THEN IF length >= Cell(s) + k THEN length ELSE Cell(s) + k
                     ELSE length
  <2> SUFFICES ASSUME writes
               PROVE  \E k \in 0..Amount(s) :
                 /\ Pwrite(s, Cell(s), Amount(s), k)
                 /\ expected' = [p \in Pages |->
                      IF SegmentOf(p) = s /\ p - Base(s) \in k..(Amount(s) - 1)
                      THEN Lost ELSE expected[p]]
                 /\ length' = IF kind = "fd" /\ k > 0
                      THEN IF length >= Cell(s) + k THEN length ELSE Cell(s) + k
                      ELSE length
    OBVIOUS
  <2>1. PICK k \in Shorter(Amount(s)) :
          /\ Pwrite(s, Cell(s), Amount(s), k)
          /\ expected' = [p \in Pages |->
               IF SegmentOf(p) = s /\ p - Base(s) \in k..(Amount(s) - 1)
               THEN Lost ELSE expected[p]]
    BY <1>2, Zenon
  <2>2. Amount(s) \in Nat /\ Cell(s) \in Nat
    BY <1>4, AmountFacts
  <2>3. k \in 0..Amount(s)
    BY <2>2 DEF Shorter
  <2>4. PICK e \in Int : e = Cell(s) + k
    BY <2>2, <2>3
  <2>5. Max({length, e}) = IF length >= e THEN length ELSE e
    BY <1>5 DEF Max
  <2>6. length' = IF kind = "fd" /\ k > 0 THEN Max({length, e}) ELSE length
    BY <2>1, <2>4 DEF Pwrite
  <2> QED
    BY <2>1, <2>3, <2>4, <2>5, <2>6, Zenon
<1>7. Types'
  <2>1. length' \in Int
    BY <1>2, <1>4, <1>5, <1>write, AmountFacts
  <2>2. expected' \in [Pages -> Values \union {Lost}]
    BY <1>2, <1>5, <1>write
  <2> QED
    BY <1>1, <1>6, <2>1, <2>2 DEF IInv, Types
<1>8. TouchedInv'
  BY <1>1, <1>6, Zenon DEF IInv, TouchedInv
<1>9. TailInv'
  <2> SUFFICES ASSUME kind = "fd", NEW c \in Cells, c >= length'
               PROVE  storage'[c] = Zero
    BY <1>1 DEF TailInv
  <2>1. CASE ~writes
    BY <1>2, <2>1 DEF IInv, TailInv
  <2>2. CASE writes
    <3>1. PICK k \in 0..Amount(s) :
            /\ Pwrite(s, Cell(s), Amount(s), k)
            /\ length' = IF k > 0
                 THEN IF length >= Cell(s) + k THEN length ELSE Cell(s) + k
                 ELSE length
      BY <1>write, <2>2
    <3>2. Cell(s) \in Nat /\ Amount(s) \in Nat /\ c \in Int
      BY <1>4, AmountFacts, Sizes DEF Cells
    <3>3. c >= length /\ c - Cell(s) \notin 0..(k - 1)
      BY <1>5, <3>1, <3>2
    <3>4. storage'[c] = storage[c]
      BY <3>1, <3>3 DEF Pwrite
    <3> QED
      BY <3>3, <3>4 DEF IInv, TailInv
  <2> QED
    BY <2>1, <2>2
<1>10. PageInv'
  <2> SUFFICES ASSUME kind # "dummy", NEW p \in 0..(Size - 1), Sure(p)'
               PROVE  /\ status'[SegmentOf(p)].mapped => memory'[p] = expected'[p]
                      /\ ~(status'[SegmentOf(p)].mapped
                           /\ status'[SegmentOf(p)].dirty) =>
                           expected'[p] = IF status'[SegmentOf(p)].needRead
                                          THEN storage'[StorageOffset + p] ELSE Zero
    BY <1>1, Zenon DEF PageInv, Unsaved
  <2>1. p \in Pages /\ SegmentOf(p) \in Segments
    BY MappedPages
  <2>2. expected'[p] # Lost /\ ~Shuffled(SegmentOf(p))
    BY <1>1, ShuffledStays DEF Sure
  <2>3. /\ expected'[p] = expected[p]
        /\ writes /\ SegmentOf(p) = s => storage'[StorageOffset + p] = memory[p]
        /\ ~writes \/ SegmentOf(p) # s =>
             storage'[StorageOffset + p] = storage[StorageOffset + p]
    <3>1. CASE writes
      <4>1. PICK k \in 0..Amount(s) :
              /\ Pwrite(s, Cell(s), Amount(s), k)
              /\ expected' = [q \in Pages |->
                   IF SegmentOf(q) = s /\ q - Base(s) \in k..(Amount(s) - 1)
                   THEN Lost ELSE expected[q]]
        BY <1>write, <3>1
      <4>2. expected'[p] = expected[p]
        BY <2>1, <2>2, <4>1
      <4>3. CASE SegmentOf(p) = s
        <5>1. p - Base(s) \in 0..(Amount(s) - 1)
          BY <4>3, InAmount
        <5>2. p - Base(s) \notin k..(Amount(s) - 1)
          BY <2>1, <2>2, <4>1, <4>3
        <5>3. p - Base(s) < k
          BY <1>4, <5>1, <5>2, AmountFacts
        <5> QED
          BY <1>4, <2>2, <3>1, <4>1, <4>2, <4>3, <5>3, PwriteMoves
      <4>4. CASE SegmentOf(p) # s
        BY <1>4, <4>1, <4>2, <4>4, PwriteElsewhere
      <4> QED
        BY <4>3, <4>4
    <3>2. CASE ~writes
      BY <1>2, <3>2
    <3> QED
      BY <3>1, <3>2
  <2>4. memory'[p] = IF SegmentOf(p) = s /\ drops THEN Zero ELSE memory[p]
    BY <1>1, <2>1
  <2>5. /\ status[SegmentOf(p)].mapped => memory[p] = expected[p]
        /\ ~Unsaved(SegmentOf(p)) =>
             expected[p] = IF status[SegmentOf(p)].needRead
                           THEN storage[StorageOffset + p] ELSE Zero
    BY <2>2, <2>3 DEF IInv, PageInv, Sure
  <2>6. CASE SegmentOf(p) = s
    <3>1. CASE writes
      BY <1>6, <2>3, <2>4, <2>5, <2>6, <3>1, Zenon
    <3>2. CASE ~writes
      BY <1>6, <2>3, <2>4, <2>5, <2>6, <3>2, Zenon DEF Unsaved
    <3> QED
      BY <3>1, <3>2
  <2>7. CASE SegmentOf(p) # s
    BY <1>6, <2>1, <2>3, <2>4, <2>5, <2>7 DEF Unsaved
  <2> QED
    BY <2>6, <2>7
<1>11. FlushInv'
  <2>1. /\ call'.cur = call.cur + SegmentSize /\ call'.offset = call.offset
        /\ call'.size = call.size /\ call'.ptr = call.ptr
        /\ call'.asked = call.asked /\ call'.sync = call.sync
    BY <1>1 DEF CallStates
  <2>2. (call.cur + SegmentSize) % SegmentSize = 0
    <3>1. call.cur % SegmentSize = 0
      BY <1>1 DEF IInv, FlushInv
    <3>2. PICK q \in Nat, r \in 0..(SegmentSize - 1) :
            call.cur = q * SegmentSize + r /\ call.cur % SegmentSize = r
      BY <1>3, Split, Zenon
    <3>3. call.cur + SegmentSize = (q + 1) * SegmentSize + r
      BY <1>3, <3>2, Sizes, Z3
    <3> QED
      BY <3>1, <3>2, <3>3, Sizes, Remainder
  <2>3. ASSUME NEW t \in Segments, call.offset <= Base(t),
               Base(t) < call.cur + SegmentSize
        PROVE  ~(status'[t].mapped /\ status'[t].dirty)
    <3>1. CASE t = s
      BY <1>6, <3>1, Zenon
    <3>2. CASE t # s
      <4>1. s \in Nat /\ t \in Nat /\ Base(s) \in Nat /\ Base(t) \in Nat
        BY <1>4, SegmentFacts
      <4>2. CASE s < t
        <5>1. Base(s) + SegmentSize <= Base(t)
          BY <4>1, <4>2, Apart
        <5> QED
          BY <1>4, <2>3, <4>1, <5>1, Sizes
      <4>3. CASE t < s
        <5>1. Base(t) + SegmentSize <= Base(s)
          BY <4>1, <4>3, Apart
        <5>2. Base(t) < call.cur
          BY <1>4, <4>1, <5>1, Sizes
        <5> QED
          BY <1>1, <1>6, <2>3, <3>2, <5>2 DEF IInv, FlushInv, Unsaved
      <4> QED
        BY <3>2, <4>1, <4>2, <4>3
    <3> QED
      BY <3>1, <3>2
  <2>4. call.offset <= call.cur + SegmentSize
    BY <1>1, <1>3, Sizes DEF IInv, FlushInv
  <2> QED
    BY <1>1, <2>1, <2>2, <2>3, <2>4 DEF IInv, FlushInv, Unsaved
<1> QED
  BY <1>7, <1>8, <1>9, <1>10, <1>11 DEF IInv

\* The sync() of a C driver: what it writes is lost, and the pages around are
\* loaded first.
LEMMA CSyncStep ==
  ASSUME IInv, kind = "c", CSync, UNCHANGED <<kind, length, storage>>
  PROVE  /\ status' \in [Segments -> Bits]
         /\ expected' \in [Pages -> Values \union {Lost}]
         /\ TouchedInv' /\ PageInv'
<1> DEFINE moved == Max({0, Min({call.offset, StorageSize - call.size})})
           reached == {s \in Segments : Base(s) < moved}
<1>1. /\ memory' = [p \in Pages |->
           IF p < moved THEN storage[call.size + p]
           ELSE IF SegmentOf(p) \in reached THEN Content(p) ELSE memory[p]]
      /\ status' = [s \in Segments |->
           IF s \in reached THEN [status[s] EXCEPT !.mapped = TRUE, !.dirty = TRUE]
           ELSE status[s]]
      /\ touched' = touched \union reached
      /\ expected' = [p \in Pages |-> IF p < moved THEN Lost ELSE expected[p]]
  BY Zenon DEF CSync
<1>2. /\ status \in [Segments -> Bits] /\ length \in Int
      /\ expected \in [Pages -> Values \union {Lost}]
  BY DEF IInv, Types
<1>3. \A p \in Pages : p < moved => SegmentOf(p) \in reached
  <2> SUFFICES ASSUME NEW p \in Pages, p < moved
               PROVE  SegmentOf(p) \in reached
    OBVIOUS
  <2>1. SegmentOf(p) \in Segments /\ p \in Nat /\ Base(SegmentOf(p)) \in Nat
        /\ Base(SegmentOf(p)) <= p
    BY PageFacts, InSegment
  <2>2. moved \in Int
    <3>1. PICK x \in Int : x = StorageSize - call.size
      BY Sizes DEF IInv, Types, CallStates
    <3>2. call.offset \in Int
      BY DEF IInv, Types, CallStates
    <3>3. PICK m \in Int : m = Min({call.offset, x})
      BY <3>2 DEF Min
    <3>4. Max({0, m}) = IF 0 >= m THEN 0 ELSE m
      BY DEF Max
    <3> QED
      BY <3>1, <3>3, <3>4
  <2> HIDE DEF moved
  <2>3. Base(SegmentOf(p)) < moved
    BY <2>1, <2>2
  <2> QED
    BY <2>1, <2>3
<1> HIDE DEF moved, reached
<1>4. /\ status' \in [Segments -> Bits]
      /\ \A s \in Segments : s \in reached => status'[s].mapped /\ status'[s].dirty
      /\ \A s \in Segments : s \notin reached => status'[s] = status[s]
  BY <1>1, <1>2, Zenon DEF Bits
<1>5. expected' \in [Pages -> Values \union {Lost}]
  BY <1>1, <1>2
<1>6. TouchedInv'
  BY <1>1, <1>4, Zenon DEF IInv, TouchedInv
<1>7. PageInv'
  <2> SUFFICES ASSUME NEW p \in 0..(Size - 1), Sure(p)'
               PROVE  /\ status'[SegmentOf(p)].mapped => memory'[p] = expected'[p]
                      /\ ~(status'[SegmentOf(p)].mapped
                           /\ status'[SegmentOf(p)].dirty) =>
                           expected'[p] = IF status'[SegmentOf(p)].needRead
                                          THEN storage[StorageOffset + p] ELSE Zero
    BY Zenon DEF PageInv, Unsaved
  <2> DEFINE s == SegmentOf(p)
  <2>1. p \in Pages /\ s \in Segments
    BY MappedPages
  <2>2. /\ expected'[p] # Lost
        /\ ~(p < moved) /\ expected'[p] = expected[p]
    BY <1>1, <2>1 DEF Sure
  <2>3. Sure(p)
    BY <2>1, <2>2, OnlyMeroShuffles DEF Sure
  <2>4. CASE s \in reached
    <3>1. Available(Cell(s), Amount(s)) \in Nat
      BY <1>2, <2>1, AvailableFacts
    <3>2. Content(p) = expected[p]
      BY <2>3, <3>1, FoundIsExpected DEF Content
    <3> QED
      BY <1>1, <1>4, <2>1, <2>2, <2>4, <3>2
  <2>5. CASE s \notin reached
    <3>1. memory'[p] = memory[p] /\ status'[s] = status[s]
      BY <1>1, <1>4, <2>1, <2>2, <2>5
    <3> QED
      BY <2>2, <2>3, <3>1 DEF IInv, PageInv, Unsaved
  <2> QED
    BY <2>4, <2>5
<1> QED
  BY <1>4, <1>5, <1>6, <1>7

\* The end of Mapping::flush().
LEMMA FlushReturnStep ==
  ASSUME IInv, FlushReturn, call' \in CallStates
  PROVE  IInv'
<1>1. call' = NoCall /\ UNCHANGED <<kind, length, storage>>
  BY DEF FlushReturn
<1>2. TailInv' /\ FlushInv'
  BY <1>1 DEF IInv, TailInv, FlushInv, NoCall
<1>3. CASE ~(call.sync /\ kind = "c")
  <2>1. UNCHANGED <<memory, status, touched, expected>>
    BY <1>3 DEF FlushReturn
  <2> QED
    BY <1>1, <1>2, <2>1, ShuffledStays
    DEF IInv, Types, TouchedInv, PageInv, Unsaved, Sure
<1>4. CASE call.sync /\ kind = "c"
  <2>1. CSync
    BY <1>4 DEF FlushReturn
  <2> QED
    BY <1>1, <1>2, <1>4, <2>1, CSyncStep DEF IInv, Types
<1> QED
  BY <1>3, <1>4

\* The end of the process keeps the invariant.
LEMMA AbortStep ==
  ASSUME IInv, Abort
  PROVE  IInv'
<1>1. call' \in CallStates /\ call'.phase = "aborted"
  BY DEF Abort, IInv, Types, CallStates
<1>2. UNCHANGED <<kind, length, storage, memory, status, touched, expected>>
  BY DEF Abort
<1> QED
  BY <1>1, <1>2, ShuffledStays
  DEF IInv, Types, TouchedInv, TailInv, PageInv, FlushInv, Unsaved, Sure

\* Every step keeps the invariant.
LEMMA Step ==
  ASSUME IInv, [Next]_vars
  PROVE  IInv'
<1>1. call' \in CallStates
  BY CallStep, SMTT(20) DEF IInv, Types
<1>2. CASE UNCHANGED vars
  BY <1>2, ShuffledStays
  DEF vars, IInv, Types, TouchedInv, TailInv, PageInv, FlushInv, Unsaved, Sure
<1> QED
  BY <1>1, <1>2, LoadStep, StoreStep, SkipStep, UmflushStep, FlushSegmentStep,
     FlushReturnStep, AbortStep
  DEF Next, AccessFails, FlushFails

\* A new mapping satisfies the invariant.
LEMMA InitInv == Init => IInv
<1> SUFFICES ASSUME Init
             PROVE  IInv
  OBVIOUS
<1>1. /\ length \in Int /\ storage \in [Cells -> Values]
      /\ \A c \in Cells : c >= length => storage[c] = Zero
      /\ status = [s \in Segments |->
            [mapped |-> FALSE, dirty |-> FALSE, needRead |-> TRUE]]
      /\ expected = [p \in Pages |->
            IF kind = "dummy" THEN Fill
            ELSE IF p < Size THEN storage[StorageOffset + p] ELSE Zero]
      /\ call = NoCall
  <2>1. PICK f \in Stored :
          storage = [c \in Cells |-> IF c < length THEN f[c] ELSE Zero]
    BY DEF Init
  <2>2. f \in [Cells -> Values] /\ Zero \in Values /\ Cells \subseteq Int
    BY TransferAssumption DEF Cells
  <2>3. length \in Int
    BY Sizes DEF Init
  <2>4. storage \in [Cells -> Values]
    BY <2>1, <2>2
  <2>5. \A c \in Cells : c >= length => storage[c] = Zero
    BY <2>1, <2>2, <2>3
  <2> QED
    BY <2>3, <2>4, <2>5, Zenon DEF Init
<1>2. status \in [Segments -> Bits] /\ call \in CallStates
  BY <1>1 DEF Bits, NoCall, CallStates
<1>3. expected \in [Pages -> Values \union {Lost}]
  <2>1. ASSUME NEW p \in Pages, p < Size
        PROVE  storage[StorageOffset + p] \in Values
    <3>1. p \in 0..(Size - 1)
      BY <2>1, PageFacts, Sizes
    <3>2. StorageOffset + p \in Cells
      BY <3>1, MappedCells
    <3> QED
      BY <1>1, <3>2
  <2> QED
    BY <1>1, <2>1, TransferAssumption
<1>4. PageInv
  BY <1>1, MappedPages, Sizes DEF PageInv, Unsaved
<1> QED
  BY <1>1, <1>2, <1>3, <1>4
  DEF IInv, Types, TouchedInv, TailInv, FlushInv, NoCall

\* The invariant holds for every size of segment, mapping and storage.
THEOREM Invariance == Spec => []IInv
<1>1. Init => IInv
  BY InitInv
<1>2. IInv /\ [Next]_vars => IInv'
  BY Step
<1> QED
  BY <1>1, <1>2, PTL DEF Spec

\* The mapping gives back what was stored last, or what the storage held at
\* first, for every alignment of the mapping in the storage and every length of
\* a file, save the pages that a short transfer, a late ummap_skip_first_read()
\* or the sync() of a C driver lost, and the segments that Mero shuffles
\* (Mapping::loadSegment, Mapping::flush; NothingIsShuffled says when Mero
\* does not).
THEOREM ContentIsKept == Spec => []ContentKept
<1>1. ASSUME IInv
      PROVE  ContentKept
  <2> SUFFICES ASSUME kind # "dummy", NEW p \in 0..(Size - 1),
                      expected[p] # Lost, ~Shuffled(SegmentOf(p))
               PROVE  Content(p) = expected[p]
    BY DEF ContentKept
  <2>1. Available(Cell(SegmentOf(p)), Amount(SegmentOf(p))) \in Nat
    BY <1>1, MappedPages, AvailableFacts DEF IInv, Types
  <2> QED
    BY <1>1, <2>1, FoundIsExpected DEF Content, Sure
<1> QED
  BY <1>1, Invariance, PTL

\* umflush() and umsync() leave no page of the range they were given unsaved,
\* with the same exceptions (GlobalHandler::flush, Mapping::flush).
THEOREM FlushesCover == Spec => []FlushCovers
<1>1. ASSUME IInv
      PROVE  FlushCovers
  <2> SUFFICES ASSUME call.phase = "flush", FlushEnd,
                      NEW p \in call.ptr..(call.ptr + call.asked - 1)
               PROVE  LET s == SegmentOf(p)
                      IN  /\ ~(status[s].dirty /\ status[s].mapped)
                          /\ /\ p < Size /\ kind # "dummy" /\ status[s].needRead
                             /\ expected[p] # Lost /\ ~Shuffled(s)
                             => storage[StorageOffset + p] = expected[p]
    BY DEF FlushCovers
  <2> DEFINE s == SegmentOf(p)
             o == SegmentOf(call.offset)
  <2>1. /\ call.offset \in Nat /\ call.size \in Int /\ call.cur \in Nat
        /\ call.offset = call.ptr /\ call.size = call.asked
        /\ call.offset % SegmentSize = 0
        /\ call.offset + call.size <= AlignedSize
        /\ call.cur >= call.offset + call.size
    BY <1>1 DEF IInv, Types, CallStates, FlushInv, FlushEnd
  <2>2. p \in Pages /\ p \in Nat /\ call.offset <= p /\ p < call.cur
    BY <2>1, AlignedSizeFacts DEF Pages
  <2>3. s \in Segments /\ s \in Nat /\ Base(s) <= p /\ p < Base(s) + SegmentSize
        /\ Base(s) \in Nat
    BY <2>2, PageFacts, InSegment
  <2>4. o \in Nat /\ Base(o) = call.offset
    BY <2>1, InSegment, AlignedPage
  <2> HIDE DEF s, o
  <2>5. s < o => Base(s) + SegmentSize <= Base(o)
    BY <2>3, <2>4, Apart
  <2>6. call.offset <= Base(s)
    <3>1. CASE s < o
      BY <2>1, <2>2, <2>3, <2>4, <2>5, <3>1, Sizes
    <3>2. CASE s = o
      BY <2>1, <2>4, <3>2
    <3>3. CASE o < s
      <4>1. Base(o) + SegmentSize <= Base(s)
        BY <2>3, <2>4, <3>3, Apart
      <4> QED
        BY <2>1, <2>3, <2>4, <4>1, Sizes
    <3> QED
      BY <2>3, <2>4, <3>1, <3>2, <3>3
  <2>7. ~Unsaved(s)
    BY <1>1, <2>1, <2>2, <2>3, <2>6 DEF IInv, FlushInv
  <2>8. p < Size => p \in 0..(Size - 1)
    BY <2>2, Sizes
  <2> QED
    BY <1>1, <2>7, <2>8 DEF IInv, PageInv, Unsaved, Sure, s
<1> QED
  BY <1>1, Invariance, PTL
=============================================================================
