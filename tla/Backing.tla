------------------------------- MODULE Backing -------------------------------
(***************************************************************************)
(* The file behind a mapping and its replacement while the mapping is in   *)
(* use: copy on write (ummap_cow_fd, ummap_cow_fopen, ummap_cow_dax) and   *)
(* switch (ummap_switch_fd, ummap_switch_fopen) of                         *)
(* src/src/public-api/ummap.cpp, over the descriptor of FDDriver or the    *)
(* direct mapping of MmapDriver.                                           *)
(*                                                                         *)
(* A file is a sequence of segment contents: reading past its end gives    *)
(* zeroes, writing past it fills the gap with zeroes.  Faults, flushes and *)
(* evictions are one step each, under the mutex of their segment (module   *)
(* Mapping has their details); a call that replaces the file takes no      *)
(* mutex while it copies and changes the descriptor, so it goes step by    *)
(* step, and other threads do anything between its steps.                  *)
(***************************************************************************)
EXTENDS Naturals, Sequences, FiniteSets, FiniteSetsExt

CONSTANTS
  SegmentCount,   (* segments of the mapping                               *)
  StorageOffset,  (* position in the file of the first one, in segments    *)
  Values,         (* contents of a segment                                 *)
  Zero,           (* the content of zeroes                                 *)
  Files,          (* files that may be behind the mapping                  *)
  Reflink         (* the file system implements FICLONERANGE               *)

Segments == 0..(SegmentCount - 1)
Length == StorageOffset + SegmentCount

ASSUME BackingAssumption ==
  /\ SegmentCount \in Nat \ {0}
  /\ StorageOffset \in Nat
  /\ Zero \in Values
  /\ Reflink \in BOOLEAN

VARIABLES
  kind,      (* "fd" (FDDriver) or "mmap" (MmapDriver)                     *)
  file,      (* content of each file                                       *)
  exists,    (* files that exist                                           *)
  backing,   (* the file the driver has open                               *)
  open,      (* FALSE between the close() and the dup() of setFd()         *)
  mem,       (* content of the pages of each segment, for an FDDriver      *)
  mapped, dirty, needRead,  (* status bits                                 *)
  pc,        (* where the call that replaces the file is                   *)
  op,        (* "cow" or "switch"                                          *)
  target,    (* its file                                                   *)
  clean,     (* its ummap_switch_clean_t                                   *)
  seg,       (* the segment it copies                                      *)
  buf,       (* its buffer                                                 *)
  fate,      (* how the process ended, "ok" while it runs                  *)
  stale,     (* history: clean segments kept by a switch with NO_ACTION    *)
  left,      (* history: files that were behind the mapping before         *)
  raced      (* history: segments that a copy on write did not copy as     *)
             (* they were when the new file came in place, see Overtakes   *)

status == <<mapped, dirty, needRead>>
call == <<pc, op, target, clean, seg, buf>>
vars == <<kind, file, exists, backing, open, mem, mapped, dirty, needRead,
          pc, op, target, clean, seg, buf, fate, stale, left, raced>>

-----------------------------------------------------------------------------
(***************************************************************************)
(* Files.                                                                  *)
(***************************************************************************)

At(s) == StorageOffset + s + 1

\* pread() of one segment; a short read leaves the zeroes of a fresh page.
Read(f, s) == IF At(s) <= Len(file[f]) THEN file[f][At(s)] ELSE Zero

\* pwrite() of v at index i of the content q.
Write(q, i, v) ==
  [k \in 1..Max({Len(q), i}) |->
     IF k = i THEN v ELSE IF k <= Len(q) THEN q[k] ELSE Zero]

\* fopen() modes; "open" is open(O_RDWR | O_CREAT), for an empty mode.
Opened(f, mode) == IF mode = "w+" THEN <<>> ELSE file[f]

\* ioctl(FICLONERANGE): length 0 stands for "to the end of the source".
CloneLength(q, offset, length) ==
  IF length = 0 THEN Len(q) - offset ELSE length

CloneFits(q, offset, length) ==
  offset <= Len(q) /\ offset + CloneLength(q, offset, length) <= Len(q)

Clone(q, offset, length, dest, into) ==
  LET n == CloneLength(q, offset, length)
  IN  IF n = 0 THEN into
      ELSE [k \in 1..Max({Len(into), dest + n}) |->
              IF k \in (dest + 1)..(dest + n) THEN q[offset + k - dest]
              ELSE IF k <= Len(into) THEN into[k] ELSE Zero]

Contents == UNION {[1..n -> Values] : n \in 0..Length}

Init ==
  /\ kind \in {"fd", "mmap"}
  /\ file \in [Files -> Contents]
  /\ backing \in Files
  /\ exists \in SUBSET Files
  /\ backing \in exists
  /\ \A f \in Files \ exists : file[f] = <<>>
  \* directMmap() has extended the file of a writable direct mapping
  /\ kind = "mmap" => Len(file[backing]) = Length
  /\ open = TRUE
  /\ mem = [s \in Segments |-> Zero]
  /\ mapped = {} /\ dirty = {}
  /\ needRead \in {Segments, {}}        \* {} under UMMAP_NO_FIRST_READ
  /\ pc = "idle" /\ op = "none" /\ target = backing /\ clean = "none"
  /\ seg = 0 /\ buf = Zero
  /\ fate = "ok"
  /\ stale = {} /\ left = {} /\ raced = {}

-----------------------------------------------------------------------------
(***************************************************************************)
(* Accesses, flushes and evictions, under the mutex of segment s.          *)
(***************************************************************************)

\* History.  A copy on write has taken segment s from the old file.
Copied(s) ==
  /\ op = "cow"
  /\ \/ pc \in {"test", "memory", "storage", "write"} /\ s < seg
     \/ pc = "write" /\ s = seg
     \/ pc \in {"close", "dup"}

\* What a thread does to segment s overtakes the copy of s: a flush of a dirty
\* segment goes to the old file when the copy is made, and a first write comes
\* between the test that the segment is clean and the copy of its pages.
Overtakes(s, flushes) ==
  IF flushes THEN Copied(s) ELSE op = "cow" /\ pc = "memory" /\ s = seg

\* Segment s is as its file again: it is evicted, or on its way to the file.  A
\* copy that is under way may have taken from memory what UMMAP_NO_ACTION kept.
Mended(s) == IF op = "cow" THEN raced \cup ({s} \cap stale) ELSE raced \ {s}

\* onSegmentationFault(): load on the first touch, dirty on a write.
Touch(s, isWrite) ==
  /\ kind = "fd" /\ fate = "ok"
  /\ s \notin mapped \/ (isWrite /\ s \notin dirty)
  /\ IF s \notin mapped /\ s \in needRead /\ ~open
     THEN fate' = "closed" /\ UNCHANGED <<mem, status, stale, raced>>
     ELSE /\ mem' = IF s \notin mapped /\ s \in needRead
                    THEN [mem EXCEPT ![s] = Read(backing, s)] ELSE mem
          /\ mapped' = mapped \cup {s}
          /\ dirty' = IF isWrite THEN dirty \cup {s} ELSE dirty
          /\ stale' = IF isWrite THEN stale \ {s} ELSE stale
          /\ raced' = IF isWrite /\ Overtakes(s, FALSE) THEN raced \cup {s}
                      ELSE IF isWrite THEN Mended(s) ELSE raced
          /\ UNCHANGED <<needRead, fate>>
  /\ UNCHANGED <<kind, file, exists, backing, open, call, left>>

\* The user writes to a segment that is open for writing.
Store(s, v) ==
  /\ kind = "fd" /\ fate = "ok"
  /\ s \in dirty
  /\ mem' = [mem EXCEPT ![s] = v]
  /\ UNCHANGED <<kind, file, exists, backing, open, status, call, fate,
                 stale, left, raced>>

\* flush() of one segment, with UMMAP_FLUSH_UNMAP for an eviction.
Flush(s, evict) ==
  /\ kind = "fd" /\ fate = "ok"
  /\ s \in dirty \/ (evict /\ s \in mapped)
  /\ IF s \in dirty /\ ~open
     THEN fate' = "closed" /\ UNCHANGED <<file, mem, status, stale, raced>>
     ELSE /\ file' = IF s \in dirty
                     THEN [file EXCEPT ![backing] = Write(@, At(s), mem[s])]
                     ELSE file
          /\ needRead' = IF s \in dirty THEN needRead \cup {s} ELSE needRead
          /\ dirty' = dirty \ {s}
          /\ mapped' = IF evict THEN mapped \ {s} ELSE mapped
          /\ mem' = IF evict THEN [mem EXCEPT ![s] = Zero] ELSE mem
          /\ stale' = IF evict THEN stale \ {s} ELSE stale
          /\ raced' = IF s \in dirty /\ Overtakes(s, TRUE) THEN raced \cup {s}
                      ELSE IF evict THEN Mended(s) ELSE raced
          /\ UNCHANGED fate
  /\ UNCHANGED <<kind, exists, backing, open, call, left>>

\* The pages of a direct mapping are those of the file.  What is stored after
\* the copy of them overtakes it.
DirectStore(s, v) ==
  /\ kind = "mmap" /\ fate = "ok"
  /\ file' = [file EXCEPT ![backing] = Write(@, At(s), v)]
  /\ raced' = IF pc = "mremap" THEN raced \cup {s} ELSE raced
  /\ UNCHANGED <<kind, exists, backing, open, mem, status, call, fate,
                 stale, left>>

-----------------------------------------------------------------------------
(***************************************************************************)
(* Copy on write and switch.  A call on the file that is behind the        *)
(* mapping already is left out: opening it with "w+" would empty it.       *)
(***************************************************************************)

Begin(o, f, mode, action, first) ==
  /\ fate = "ok" /\ pc = "idle"
  /\ f # backing
  \* otherwise fopen() fails and so does the assumeArg() on its result
  /\ mode = "r+" => f \in exists
  /\ mode = "open" => o = "cow" /\ kind = "fd"
  /\ file' = [file EXCEPT ![f] = Opened(f, mode)]
  /\ exists' = exists \cup {f}
  /\ op' = o /\ target' = f /\ clean' = action
  /\ pc' = first
  /\ left' = left \ {f}
  /\ UNCHANGED <<kind, backing, open, mem, status, seg, buf, fate, stale, raced>>

FirstOfCow == IF kind = "fd" THEN "clone" ELSE "memcpy"

\* ummap_cow_fopen() and ummap_cow_dax_fopen(): without allow_exist, an
\* existing file is refused by assumeArg().
CowFopen(f, mode, allowExist) ==
  /\ allowExist \/ f \notin exists
  /\ Begin("cow", f, mode, "none", FirstOfCow)

\* ummap_switch_fopen(); ummap_switch_dax_fopen() is a copy on write.
SwitchFopen(f, mode, action) ==
  IF kind = "fd" THEN Begin("switch", f, mode, action, "close")
                 ELSE Begin("cow", f, mode, "none", FirstOfCow)

\* FDDriver::cloneRange().  The initializer gives file_clone_range its
\* src_offset and its src_length in the wrong order.
CloneRange ==
  /\ fate = "ok" /\ pc = "clone"
  /\ LET fits == Reflink /\ CloneFits(file[backing], SegmentCount,
                                      StorageOffset)
     IN  /\ file' = IF fits
                    THEN [file EXCEPT ![target] =
                            Clone(file[backing], SegmentCount, StorageOffset,
                                  StorageOffset, @)]
                    ELSE file
         /\ pc' = IF fits THEN "close" ELSE "test"
  /\ seg' = 0
  /\ UNCHANGED <<kind, exists, backing, open, mem, status, op, target, clean,
                 buf, fate, stale, left, raced>>

\* Mutant of CopyTest: the pages are taken whether they are dirty or not.
CopyTestMapped ==
  /\ fate = "ok" /\ pc = "test"
  /\ pc' = IF seg \in mapped THEN "memory" ELSE "storage"
  /\ UNCHANGED <<kind, file, exists, backing, open, mem, status, op, target,
                 clean, seg, buf, fate, stale, left, raced>>

\* copyMappedPart(): where to take the segment from.
CopyTest ==
  /\ fate = "ok" /\ pc = "test"
  /\ pc' = IF seg \in mapped \ dirty THEN "memory" ELSE "storage"
  /\ UNCHANGED <<kind, file, exists, backing, open, mem, status, op, target,
                 clean, seg, buf, fate, stale, left, raced>>

\* copyToDriver() asks for the range of the mapping and no more, so that the
\* loop ends with its last segment.
NextSegment ==
  IF seg + 1 < SegmentCount
  THEN pc' = "test" /\ seg' = seg + 1
  ELSE pc' = "close" /\ seg' = 0

\* The pages are written to the new file; pwrite() fails on pages that were
\* taken away.
CopyMemory ==
  /\ fate = "ok" /\ pc = "memory"
  /\ IF seg \in mapped
     THEN /\ file' = [file EXCEPT ![target] = Write(@, At(seg), mem[seg])]
          /\ NextSegment
          /\ UNCHANGED fate
     ELSE fate' = "gone" /\ UNCHANGED <<file, pc, seg>>
  /\ UNCHANGED <<kind, exists, backing, open, mem, status, op, target, clean,
                 buf, stale, left, raced>>

\* The segment is read from the old file; a short read ends the process.
CopyRead ==
  /\ fate = "ok" /\ pc = "storage"
  /\ IF At(seg) <= Len(file[backing])
     THEN buf' = Read(backing, seg) /\ pc' = "write" /\ UNCHANGED fate
     ELSE fate' = "short" /\ UNCHANGED <<buf, pc>>
  /\ UNCHANGED <<kind, file, exists, backing, open, mem, status, op, target,
                 clean, seg, stale, left, raced>>

\* Mutant of CopyWrite: the last segment is forgotten.
CopyWriteNotLast ==
  /\ fate = "ok" /\ pc = "write"
  /\ file' = IF seg + 1 < SegmentCount
             THEN [file EXCEPT ![target] = Write(@, At(seg), buf)] ELSE file
  /\ buf' = Zero
  /\ NextSegment
  /\ UNCHANGED <<kind, exists, backing, open, mem, status, op, target, clean,
                 fate, stale, left, raced>>

CopyWrite ==
  /\ fate = "ok" /\ pc = "write"
  /\ file' = [file EXCEPT ![target] = Write(@, At(seg), buf)]
  /\ buf' = Zero
  /\ NextSegment
  /\ UNCHANGED <<kind, exists, backing, open, mem, status, op, target, clean,
                 fate, stale, left, raced>>

\* directMmap(): a file that is shorter than the range is extended to it.
DirectMmap(f) ==
  [k \in 1..Max({Len(f), Length}) |-> IF k <= Len(f) THEN f[k] ELSE Zero]

\* directMmapCow(): the new file is mapped, and the pages are copied to it.
DirectCopy ==
  /\ fate = "ok" /\ pc = "memcpy"
  /\ file' = [file EXCEPT ![target] =
       [k \in DOMAIN DirectMmap(@) |->
          IF k > StorageOffset /\ k <= Length THEN file[backing][k]
          ELSE DirectMmap(@)[k]]]
  /\ pc' = "mremap"
  /\ UNCHANGED <<kind, exists, backing, open, mem, status, op, target, clean,
                 seg, buf, fate, stale, left, raced>>

Replaced == backing' = target /\ left' = left \cup ({backing} \ {target})

\* mremapForced(): the pages of the new file take the place of the old ones.
DirectRemap ==
  /\ fate = "ok" /\ pc = "mremap"
  /\ Replaced
  /\ pc' = "close"
  /\ raced' = {}
  /\ UNCHANGED <<kind, file, exists, open, mem, status, op, target, clean,
                 seg, buf, fate, stale>>

\* FDDriver::setFd() and MmapDriver::setFd(): close(), then dup().
CloseOld ==
  /\ fate = "ok" /\ pc = "close"
  /\ open' = FALSE
  /\ pc' = "dup"
  /\ UNCHANGED <<kind, file, exists, backing, mem, status, op, target, clean,
                 seg, buf, fate, stale, left, raced>>

\* The call is over: its locals are dead.
Over == pc' = "idle" /\ op' = "none" /\ clean' = "none"

\* Mutant of DupNew: the old file stays.
DupOld ==
  /\ fate = "ok" /\ pc = "dup"
  /\ open' = TRUE
  /\ left' = left \cup {backing}
  /\ IF op = "cow" THEN Over ELSE pc' = "clean" /\ UNCHANGED <<op, clean>>
  /\ UNCHANGED <<kind, file, exists, mem, status, target, seg, buf, fate,
                 stale, backing, raced>>

DupNew ==
  /\ fate = "ok" /\ pc = "dup"
  /\ open' = TRUE
  /\ Replaced
  /\ IF op = "cow" THEN Over ELSE pc' = "clean" /\ UNCHANGED <<op, clean>>
  /\ raced' = raced \cap (mapped \ dirty)
  /\ UNCHANGED <<kind, file, exists, mem, status, target, seg, buf, fate,
                 stale>>

\* Mutant of CleanAction: UMMAP_MARK_CLEAN_DIRTY is forgotten.
CleanActionNoDirty ==
  /\ fate = "ok" /\ pc = "clean"
  /\ stale' = IF clean = "none" THEN mapped \ dirty ELSE {}
  /\ mapped' = IF clean = "drop" THEN dirty ELSE mapped
  /\ mem' = [s \in Segments |-> IF s \in mapped' THEN mem[s] ELSE Zero]
  /\ dirty' = dirty
  /\ Over
  /\ raced' = {}
  /\ UNCHANGED <<kind, file, exists, backing, open, needRead, target, seg,
                 buf, fate, left>>

\* Mutant of CleanAction: UMMAP_DROP_CLEAN drops the dirty segments too.
CleanActionDropsAll ==
  /\ fate = "ok" /\ pc = "clean"
  /\ stale' = IF clean = "none" THEN mapped \ dirty ELSE {}
  /\ mapped' = IF clean = "drop" THEN {} ELSE mapped
  /\ mem' = [s \in Segments |-> IF s \in mapped' THEN mem[s] ELSE Zero]
  /\ dirty' = IF clean = "dirty" THEN mapped ELSE dirty
  /\ Over
  /\ raced' = {}
  /\ UNCHANGED <<kind, file, exists, backing, open, needRead, target, seg,
                 buf, fate, left>>

\* applySwitch(): nothing, dropClean() or markCleanAsDirty().
CleanAction ==
  /\ fate = "ok" /\ pc = "clean"
  /\ stale' = IF clean = "none" THEN mapped \ dirty ELSE {}
  /\ mapped' = IF clean = "drop" THEN dirty ELSE mapped
  /\ mem' = [s \in Segments |-> IF s \in mapped' THEN mem[s] ELSE Zero]
  /\ dirty' = IF clean = "dirty" THEN mapped ELSE dirty
  /\ Over
  /\ raced' = {}
  /\ UNCHANGED <<kind, file, exists, backing, open, needRead, target, seg,
                 buf, fate, left>>

Next ==
  \/ \E s \in Segments, isWrite \in BOOLEAN : Touch(s, isWrite)
  \/ \E s \in Segments, v \in Values : Store(s, v) \/ DirectStore(s, v)
  \/ \E s \in Segments, evict \in BOOLEAN : Flush(s, evict)
  \/ \E f \in Files, mode \in {"open", "r+", "w+"} :
       \/ \E allowExist \in BOOLEAN : CowFopen(f, mode, allowExist)
       \/ \E action \in {"none", "drop", "dirty"} :
            SwitchFopen(f, mode, action)
  \/ CloneRange \/ CopyTest \/ CopyMemory \/ CopyRead \/ CopyWrite
  \/ DirectCopy \/ DirectRemap \/ CloseOld \/ DupNew \/ CleanAction

Spec == Init /\ [][Next]_vars
-----------------------------------------------------------------------------
(***************************************************************************)
(* Properties.                                                             *)
(***************************************************************************)

\* What the user reads in each segment.
Content == [s \in Segments |->
  IF kind = "mmap" THEN Read(backing, s)
  ELSE IF s \in mapped THEN mem[s]
  ELSE IF s \in needRead THEN Read(backing, s) ELSE Zero]

\* Every variable has its type.
TypeOK ==
  /\ kind \in {"fd", "mmap"}
  /\ \A f \in Files : Len(file[f]) <= Length /\ file[f] \in Seq(Values)
  /\ exists \subseteq Files /\ backing \in exists
  /\ open \in BOOLEAN
  /\ mem \in [Segments -> Values]
  /\ mapped \subseteq Segments /\ dirty \subseteq mapped
  /\ needRead \subseteq Segments
  /\ seg \in Segments /\ buf \in Values
  /\ fate \in {"ok", "short", "closed", "gone"}
  /\ stale \subseteq mapped \ dirty
  /\ raced \subseteq Segments

\* Nothing but a store of the user changes what the user reads, whatever
\* other threads do while the file is replaced.  There are the exceptions that
\* a switch asks for: segments that are not dirty may change to the new file
\* when it is put in place and when clean segments are dropped, and those kept
\* by UMMAP_NO_ACTION when they are evicted.  And there is what
\* Mapping::copyToDriver() and directMmapCow() miss, which take no mutex: a
\* flush, or a direct store, that comes after the copy of its segment and
\* before the new file is in place.  Otherwise a copy on write is invisible,
\* and no replacement of the file loses a store that was not flushed.
OnlyStoresShow ==
  [][\A s \in Segments : Content'[s] # Content[s] =>
       \/ \E v \in Values : Store(s, v) \/ DirectStore(s, v)
       \/ s \notin dirty /\ op = "switch" /\ pc \in {"dup", "clean"}
       \/ s \in stale \cup raced]_vars

\* A file that was replaced keeps what it had at that time, whatever is
\* stored, flushed and evicted afterwards: it is written again only when it
\* is given to another call.
LeftFilesAreKept ==
  [][\A f \in left \cap left' : file'[f] = file[f]]_vars

\* When copy on write puts the new file in place, it has what the old one has
\* in the range of the mapping: also the clean segments, which are copied
\* from memory (segments without needRead, whose zeroes are not in the old
\* file, and those kept by UMMAP_NO_ACTION are in memory only).  What overtakes
\* the copy is the exception.
CopyIsTheFile ==
  [][op = "cow" /\ backing' # backing =>
       \A s \in Segments \ raced :
         (kind = "mmap" \/ s \in needRead \ stale)
           => Read(backing, s)' = Read(backing, s)]_vars

\* Between two calls, a segment that is clean reads as the file that is now
\* behind the mapping, so that it can be dropped, also after any sequence of
\* copies on write and switches; after a switch with UMMAP_MARK_CLEAN_DIRTY
\* everything in memory is on its way to the new file.  What overtook the copy
\* is the exception until it is written or evicted.
CleanIsBacked ==
  kind = "fd" /\ pc = "idle" =>
    \A s \in (mapped \cap needRead) \ (dirty \cup stale \cup raced) :
      mem[s] = Read(backing, s)
=============================================================================
