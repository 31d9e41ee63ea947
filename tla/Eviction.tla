------------------------------ MODULE Eviction ------------------------------
(***************************************************************************)
(* The eviction policies (src/src/policies, src/src/core/Policy.cpp) and   *)
(* the mappings that report to them.  A segment fault notifies the local   *)
(* policy of the mapping, then the global one it shares with others; a     *)
(* policy over its limit takes segments out of its list inside its         *)
(* critical section and evicts them after it, so that several threads can  *)
(* write data at the same time.                                            *)
(*                                                                         *)
(* A segment is <<mapping, index>>.  Each critical section is one step.    *)
(* What a segment contains is the subject of module Mapping: here it is    *)
(* mapped or not, dirty or not.                                            *)
(***************************************************************************)
EXTENDS Integers, Sequences, FiniteSets, SequencesExt

CONSTANTS
  Mappings,
  Setups,        (* what the program may create, see setup                 *)
  MaxIds,        (* maxIdsToEvict                                          *)
  Word,          (* size_t counts modulo Word                              *)
  NoSegment      (* segment of a thread that is in no fault                *)

MappingOf(x) == x[1]

VARIABLES
  setup,     (* the threads, mappings and policies of the program          *)
  alive,     (* mappings that exist                                        *)
  mapped,    (* segments with status.mapped                                *)
  dirty,     (* segments with status.dirty                                 *)
  policy,    (* state of each policy                                       *)
  pc,        (* where each thread is                                       *)
  segment,   (* the segment its fault is about                             *)
  isWrite,   (* its fault is a write                                       *)
  todo,      (* the policies it has to notify or shrink                    *)
  toEvict,   (* the segments it took out of the list of the first of todo  *)
  fate,      (* "ok", or what ended the process                            *)
  crossed    (* history: segments evicted while another thread notified    *)
             (* the policies of them, see Crosses                          *)

vars == <<setup, alive, mapped, dirty, policy, pc, segment, isWrite, todo,
          toEvict, fate, crossed>>

\* The fields of setup; they never change.
Threads == setup.threads
SegmentIds == setup.ids          \* indexes of the segments of a mapping
SegmentSize == setup.size        \* segment size of each mapping
Policies == DOMAIN setup.kind
Local == setup.local             \* 0 or 1 local policy of each mapping
Global == setup.global           \* 0 or 1 global policy of each mapping
kind == setup.kind               \* "fifo", "lifo" or "window", of each policy
MaxMemory == setup.max           \* staticMaxMemory of each policy
MaxSliding == setup.sliding      \* maxSlidingMemory of each "window" policy
Limits == setup.limits           \* values a quota gives to dynamicMaxMemory
Unmaps == setup.unmaps           \* mappings may be unmapped

Segments == Mappings \X SegmentIds
Size(x) == SegmentSize[x[1]]
PoliciesOf(m) == Local[m] \o Global[m]

ASSUME EvictionAssumption ==
  \A s \in Setups :
    /\ s.size \in [Mappings -> Nat \ {0}]
    /\ \A m \in Mappings : ToSet(s.local[m] \o s.global[m]) \subseteq DOMAIN s.kind
    /\ s.kind \in [DOMAIN s.kind -> {"fifo", "lifo", "window"}]
    /\ s.max \in [DOMAIN s.kind -> 0..(Word - 1)]
    /\ \A p \in DOMAIN s.kind : s.sliding[p] <= s.max[p]

Init ==
  /\ setup \in Setups
  /\ alive = Mappings
  /\ mapped = {} /\ dirty = {}
  /\ policy = [p \in Policies |->
       [root |-> <<>>, rootFixed |-> <<>>, isFixed |-> {},
        current |-> 0, currentFixed |-> 0, dynamicMax |-> MaxMemory[p]]]
  /\ pc = [t \in Threads |-> "idle"]
  /\ segment = [t \in Threads |-> NoSegment]
  /\ isWrite = [t \in Threads |-> FALSE]
  /\ todo = [t \in Threads |-> <<>>]
  /\ toEvict = [t \in Threads |-> <<>>]
  /\ fate = "ok"
  /\ crossed = {}
-----------------------------------------------------------------------------
(***************************************************************************)
(* The policies.  A list is the sequence of its elements from root.next to *)
(* root.prev; an operation gives the new state of the policy, the segments *)
(* to evict and whether the process survives.                              *)
(***************************************************************************)

Plus(a, b) == (a + b) % Word
Minus(a, b) == (a - b) % Word

Without(list, x) == SelectSeq(list, LAMBDA y : y # x)
MemoryOf(list) == FoldLeft(LAMBDA sum, x : sum + Size(x), 0, list)
InsertAfterRoot(list, x) == <<x>> \o list
InsertBeforeRoot(list, x) == Append(list, x)
IsInList(s, x) == x \in ToSet(s.root) \cup ToSet(s.rootFixed)

\* Mutant of PopPrev: one unit over the limit is accepted.
PopPrevLate(list, current, max) ==
  LET Pop(k) == SubSeq(list, Len(list) - k + 1, Len(list))
      After(k) == Minus(current, MemoryOf(Pop(k)))
      enough == {k \in 0..Len(list) : After(k) <= max + 1}
      cnt == IF enough = {} THEN Len(list)
             ELSE CHOOSE k \in enough : \A j \in enough : k <= j
  IN  [list |-> SubSeq(list, 1, Len(list) - cnt),
       current |-> After(cnt),
       out |-> Reverse(Pop(cnt)),
       fate |-> IF cnt >= MaxIds THEN "abort"
                ELSE IF enough = {} THEN "spin" ELSE "ok"]

\* "while (current > max) root.popPrev()": the loop spins on an empty list,
\* and the process aborts when it has maxIdsToEvict segments to evict.
PopPrev(list, current, max) ==
  LET Pop(k) == SubSeq(list, Len(list) - k + 1, Len(list))
      After(k) == Minus(current, MemoryOf(Pop(k)))
      enough == {k \in 0..Len(list) : After(k) <= max}
      cnt == IF enough = {} THEN Len(list)
             ELSE CHOOSE k \in enough : \A j \in enough : k <= j
  IN  [list |-> SubSeq(list, 1, Len(list) - cnt),
       current |-> After(cnt),
       out |-> Reverse(Pop(cnt)),
       fate |-> IF cnt >= MaxIds THEN "abort"
                ELSE IF enough = {} THEN "spin" ELSE "ok"]

\* Mutant of FifoTouch: a segment that is in the list is counted again.
FifoTouchCountsTwice(s, x) ==
  LET pop == PopPrev(InsertAfterRoot(Without(s.root, x), x), Plus(s.current, Size(x)), s.dynamicMax)
  IN  [pop EXCEPT !.list = [s EXCEPT !.root = pop.list, !.current = pop.current]]

\* FIFO: the touched segment goes to the head, the tail is evicted.
FifoTouch(s, x) ==
  LET cur == IF IsInList(s, x) THEN s.current ELSE Plus(s.current, Size(x))
      pop == PopPrev(InsertAfterRoot(Without(s.root, x), x), cur, s.dynamicMax)
  IN  [pop EXCEPT !.list = [s EXCEPT !.root = pop.list, !.current = pop.current]]

\* LIFO: the tail is evicted, then the touched segment goes to the tail.
LifoTouch(s, x) ==
  LET cur == IF IsInList(s, x) THEN s.current ELSE Plus(s.current, Size(x))
      pop == PopPrev(Without(s.root, x), cur, s.dynamicMax)
  IN  [pop EXCEPT !.list = [s EXCEPT !.root = InsertBeforeRoot(pop.list, x),
                                     !.current = pop.current]]

\* The segment leaves the counter of the window it is in.
WindowUncount(s, x) ==
  IF x \in s.isFixed
  THEN [s EXCEPT !.currentFixed = Minus(@, Size(x))]
  ELSE [s EXCEPT !.current = Minus(@, Size(x))]

WindowRemove(s, x) ==
  [s EXCEPT !.root = Without(@, x), !.rootFixed = Without(@, x)]

\* Mutant of WindowTouch: a segment that is in a list stays counted.
WindowTouchCountsTwice(s, x, maxFixed, maxSliding) ==
  LET u == WindowRemove(s, x)
      f == IF u.currentFixed < maxFixed
           THEN [u EXCEPT !.isFixed = @ \cup {x}, !.rootFixed = InsertAfterRoot(@, x),
                          !.currentFixed = Plus(@, Size(x))]
           ELSE [u EXCEPT !.isFixed = @ \ {x}, !.root = InsertAfterRoot(@, x),
                          !.current = Plus(@, Size(x))]
      pop == PopPrev(f.root, f.current, maxSliding)
  IN  [pop EXCEPT !.list = [f EXCEPT !.root = pop.list, !.current = pop.current]]

\* FIFO with a fixed window that keeps the first segments touched.
WindowTouch(s, x, maxFixed, maxSliding) ==
  LET u == WindowRemove(IF IsInList(s, x) THEN WindowUncount(s, x) ELSE s, x)
      f == IF u.currentFixed < maxFixed
           THEN [u EXCEPT !.isFixed = @ \cup {x}, !.rootFixed = InsertAfterRoot(@, x),
                          !.currentFixed = Plus(@, Size(x))]
           ELSE [u EXCEPT !.isFixed = @ \ {x}, !.root = InsertAfterRoot(@, x),
                          !.current = Plus(@, Size(x))]
      pop == PopPrev(f.root, f.current, maxSliding)
  IN  [pop EXCEPT !.list = [f EXCEPT !.root = pop.list, !.current = pop.current]]

NotifyTouch(p, x) ==
  CASE kind[p] = "fifo" -> FifoTouch(policy[p], x)
    [] kind[p] = "lifo" -> LifoTouch(policy[p], x)
    [] kind[p] = "window" ->
         WindowTouch(policy[p], x, MaxMemory[p] - MaxSliding[p], MaxSliding[p])

\* shrinkMemory(): a "window" policy does not look at dynamicMaxMemory.
ShrinkMemory(p) ==
  LET max == IF kind[p] = "window" THEN MaxSliding[p] ELSE policy[p].dynamicMax
      pop == PopPrev(policy[p].root, policy[p].current, max)
  IN  [pop EXCEPT !.list = [policy[p] EXCEPT !.root = pop.list,
                                             !.current = pop.current]]

\* Mutant of NotifyEvict: the segment is not counted but stays in the list.
NotifyEvictKeeps(p, x) ==
  IF kind[p] = "window" THEN WindowUncount(policy[p], x)
  ELSE [policy[p] EXCEPT !.current = Minus(@, Size(x))]

\* notifyEvict() of the policies with one list, and of "window".
ListEvict(s, x) ==
  [s EXCEPT !.current = Minus(@, Size(x)), !.root = Without(@, x)]

WindowEvict(s, x) == WindowRemove(WindowUncount(s, x), x)

\* notifyEvict(): another policy evicts segment x.
NotifyEvict(p, x) ==
  IF kind[p] = "window" THEN WindowEvict(policy[p], x)
                        ELSE ListEvict(policy[p], x)

\* freeElementStorage(): forget the segments of mapping m.
FreeElementStorage(p, m) ==
  LET s == policy[p]
      Lost(list) == MemoryOf(SelectSeq(list, LAMBDA y : MappingOf(y) = m))
      Keep(list) == SelectSeq(list, LAMBDA y : MappingOf(y) # m)
  IN  [s EXCEPT !.root = Keep(@), !.rootFixed = Keep(@),
                !.isFixed = {y \in @ : MappingOf(y) # m},
                !.current = Minus(@, Lost(s.root)),
                !.currentFixed = Minus(@, Lost(s.rootFixed))]
-----------------------------------------------------------------------------
(***************************************************************************)
(* The threads.                                                            *)
(***************************************************************************)

\* The first policy of todo is done with.
Continue(t) ==
  /\ todo' = [todo EXCEPT ![t] = Tail(@)]
  /\ IF Len(todo[t]) > 1
     THEN /\ pc' = [pc EXCEPT ![t] = "touch"]
          /\ UNCHANGED <<segment, isWrite>>
     ELSE /\ pc' = [pc EXCEPT ![t] = "idle"]
          /\ segment' = [segment EXCEPT ![t] = NoSegment]
          /\ isWrite' = [isWrite EXCEPT ![t] = FALSE]

\* Mutant of Apply: only the first segment taken out of the list is evicted.
ApplyFirst(t, r) ==
  /\ policy' = [policy EXCEPT ![Head(todo[t])] = r.list]
  /\ toEvict' = [toEvict EXCEPT ![t] = SubSeq(r.out, 1, IF r.out = <<>> THEN 0 ELSE 1)]
  /\ fate' = r.fate
  /\ IF r.out = <<>>
     THEN Continue(t)
     ELSE /\ pc' = [pc EXCEPT ![t] = "evict"]
          /\ UNCHANGED <<segment, isWrite, todo>>

\* The policy has taken its segments: evict them, then go on.
Apply(t, r) ==
  /\ policy' = [policy EXCEPT ![Head(todo[t])] = r.list]
  /\ toEvict' = [toEvict EXCEPT ![t] = r.out]
  /\ fate' = r.fate
  /\ IF r.out = <<>>
     THEN Continue(t)
     ELSE /\ pc' = [pc EXCEPT ![t] = "evict"]
          /\ UNCHANGED <<segment, isWrite, todo>>

\* An access the page protection refuses.
Fault(t, x, w) ==
  /\ pc[t] = "idle" /\ MappingOf(x) \in alive
  /\ x \notin (IF w THEN dirty ELSE mapped)
  /\ pc' = [pc EXCEPT ![t] = "handle"]
  /\ segment' = [segment EXCEPT ![t] = x]
  /\ isWrite' = [isWrite EXCEPT ![t] = w]
  /\ UNCHANGED <<alive, mapped, dirty, policy, todo, toEvict, fate, crossed>>

\* Mutant of Handle: a write does not mark the segment as mapped.
HandleNotMapped(t) ==
  /\ pc[t] = "handle"
  /\ LET x == segment[t]
         served == x \in mapped /\ (isWrite[t] <=> x \in dirty)
         notify == IF served THEN <<>> ELSE PoliciesOf(MappingOf(x))
     IN  /\ mapped' = IF isWrite[t] THEN mapped ELSE mapped \cup {x}
         /\ dirty' = IF isWrite[t] THEN dirty \cup {x} ELSE dirty
         /\ todo' = [todo EXCEPT ![t] = notify]
         /\ IF notify = <<>>
            THEN /\ pc' = [pc EXCEPT ![t] = "idle"]
                 /\ segment' = [segment EXCEPT ![t] = NoSegment]
                 /\ isWrite' = [isWrite EXCEPT ![t] = FALSE]
            ELSE /\ pc' = [pc EXCEPT ![t] = "touch"]
                 /\ UNCHANGED <<segment, isWrite>>
  /\ UNCHANGED <<alive, policy, toEvict, fate, crossed>>

\* onSegmentationFault() up to the end of its critical section: another
\* thread may have served the fault already.
Handle(t) ==
  /\ pc[t] = "handle"
  /\ LET x == segment[t]
         served == x \in mapped /\ (isWrite[t] <=> x \in dirty)
         notify == IF served THEN <<>> ELSE PoliciesOf(MappingOf(x))
     IN  /\ mapped' = mapped \cup {x}
         /\ dirty' = IF isWrite[t] THEN dirty \cup {x} ELSE dirty
         /\ todo' = [todo EXCEPT ![t] = notify]
         /\ IF notify = <<>>
            THEN /\ pc' = [pc EXCEPT ![t] = "idle"]
                 /\ segment' = [segment EXCEPT ![t] = NoSegment]
                 /\ isWrite' = [isWrite EXCEPT ![t] = FALSE]
            ELSE /\ pc' = [pc EXCEPT ![t] = "touch"]
                 /\ UNCHANGED <<segment, isWrite>>
  /\ UNCHANGED <<alive, policy, toEvict, fate, crossed>>

Touch(t) ==
  /\ pc[t] = "touch"
  /\ Apply(t, NotifyTouch(Head(todo[t]), segment[t]))
  /\ UNCHANGED <<alive, mapped, dirty, crossed>>

\* Thread t evicts x for policy p while another thread evicts it for the other
\* policy of the mapping, or is between its touches of the two, or has put it
\* back in the list since p gave it up.
Crosses(t, p, x) ==
  \/ IsInList(policy[p], x)
  \/ \E u \in Threads \ {t} :
       \/ x \in ToSet(toEvict[u])
       \/ segment[u] = x /\ pc[u] \in {"touch", "evict"}

\* Mapping::evict(): under the mutex of the segment, tell the other policy,
\* write the segment back and drop it.
Evict(t) ==
  /\ pc[t] = "evict"
  /\ LET x == Head(toEvict[t])
         others == ToSet(PoliciesOf(MappingOf(x))) \ {Head(todo[t])}
     IN  /\ crossed' = IF others # {} /\ Crosses(t, Head(todo[t]), x)
                       THEN crossed \cup {x} ELSE crossed
         /\ fate' = IF MappingOf(x) \notin alive THEN "deleted"
                    ELSE IF \A p \in others : IsInList(policy[p], x) THEN "ok"
                    ELSE IF x \in crossed' THEN "crossed" ELSE "assert"
         /\ policy' = [p \in Policies |->
              IF p \in others THEN NotifyEvict(p, x) ELSE policy[p]]
         /\ mapped' = mapped \ {x} /\ dirty' = dirty \ {x}
  /\ toEvict' = [toEvict EXCEPT ![t] = Tail(@)]
  /\ IF Len(toEvict[t]) = 1
     THEN Continue(t)
     ELSE UNCHANGED <<pc, segment, isWrite, todo>>
  /\ UNCHANGED alive

\* umflush() with the evict flag and dropClean() do not tell the policies.
Unmap(t, x) ==
  /\ pc[t] = "idle" /\ x \in mapped
  /\ mapped' = mapped \ {x} /\ dirty' = dirty \ {x}
  /\ UNCHANGED <<alive, policy, pc, segment, isWrite, todo, toEvict, fate, crossed>>

\* A quota changes the limit of a policy, then makes it shrink.
SetDynamicMaxMemory(t, p, n) ==
  /\ pc[t] = "idle"
  /\ policy' = [policy EXCEPT ![p].dynamicMax = n]
  /\ todo' = [todo EXCEPT ![t] = <<p>>]
  /\ pc' = [pc EXCEPT ![t] = "shrink"]
  /\ UNCHANGED <<alive, mapped, dirty, segment, isWrite, toEvict, fate, crossed>>

Shrink(t) ==
  /\ pc[t] = "shrink"
  /\ Apply(t, ShrinkMemory(Head(todo[t])))
  /\ UNCHANGED <<alive, mapped, dirty, crossed>>

\* uunmap(): no thread is in a fault on the mapping (the user unmaps what
\* nobody accesses any more).
Uunmap(t, m) ==
  /\ Unmaps /\ pc[t] = "idle" /\ m \in alive
  /\ \A u \in Threads : segment[u] # NoSegment => MappingOf(segment[u]) # m
  /\ alive' = alive \ {m}
  /\ mapped' = {x \in mapped : MappingOf(x) # m}
  /\ dirty' = {x \in dirty : MappingOf(x) # m}
  /\ policy' = [p \in Policies |->
       IF p \in ToSet(PoliciesOf(m)) THEN FreeElementStorage(p, m) ELSE policy[p]]
  /\ UNCHANGED <<pc, segment, isWrite, todo, toEvict, fate, crossed>>

\* ummap() of a new mapping, which takes the name of one that is gone when no
\* thread still refers to that one.
Ummap(t, m) ==
  /\ pc[t] = "idle" /\ m \notin alive
  /\ \A u \in Threads : \A x \in ToSet(toEvict[u]) : MappingOf(x) # m
  /\ alive' = alive \cup {m}
  /\ UNCHANGED <<mapped, dirty, policy, pc, segment, isWrite, todo, toEvict, fate, crossed>>

Next ==
  /\ fate = "ok"
  /\ UNCHANGED setup
  /\ \E t \in Threads :
       \/ \E x \in Segments, w \in BOOLEAN : Fault(t, x, w)
       \/ Handle(t) \/ Touch(t) \/ Evict(t) \/ Shrink(t)
       \/ \E x \in Segments : Unmap(t, x)
       \/ \E p \in Policies, n \in Limits : SetDynamicMaxMemory(t, p, n)
       \/ \E m \in Mappings : Uunmap(t, m) \/ Ummap(t, m)

Spec == Init /\ [][Next]_vars
-----------------------------------------------------------------------------
(***************************************************************************)
(* Properties.                                                             *)
(***************************************************************************)

\* Every variable has its type; setup never changes.
TypeOK ==
  /\ alive \in SUBSET Mappings
  /\ mapped \in SUBSET Segments /\ dirty \in SUBSET mapped
  /\ \A p \in Policies :
       /\ policy[p].root \in Seq(Segments) /\ policy[p].rootFixed \in Seq(Segments)
       /\ policy[p].isFixed \in SUBSET Segments
       /\ {policy[p].current, policy[p].currentFixed} \subseteq 0..(Word - 1)
       /\ policy[p].dynamicMax \in Limits \cup {MaxMemory[p]}
  /\ pc \in [Threads -> {"idle", "handle", "touch", "evict", "shrink"}]
  /\ segment \in [Threads -> Segments \cup {NoSegment}]
  /\ isWrite \in [Threads -> BOOLEAN]
  /\ todo \in [Threads -> Seq(Policies)]
  /\ toEvict \in [Threads -> Seq(Segments)]
  /\ fate \in {"ok", "abort", "spin", "assert", "crossed", "deleted"}
  /\ crossed \in SUBSET Segments

\* No segment escapes its policies: a segment in memory is in the list of
\* every policy of its mapping, or a thread is about to put it there, or a
\* thread is about to evict it.  A segment that broke this would stay in
\* memory for ever, counted by nobody.
Tracked ==
  \A x \in mapped : \A p \in ToSet(PoliciesOf(MappingOf(x))) :
    \/ IsInList(policy[p], x)
    \/ \E t \in Threads : segment[t] = x /\ pc[t] \in {"touch", "evict"}
                         /\ p \in ToSet(todo[t])
    \/ \E t \in Threads : x \in ToSet(toEvict[t])

\* currentMemory, added to and subtracted from by touches, evictions of other
\* policies, shrinking and unmapping, is the memory of the segments in the
\* list: it never drifts and never wraps while the process lives.
CounterIsList ==
  fate = "ok" => \A p \in Policies :
    /\ policy[p].current = MemoryOf(policy[p].root)
    /\ policy[p].currentFixed = MemoryOf(policy[p].rootFixed)

Quiet == \A t \in Threads : pc[t] = "idle"

Resident(p) ==
  MapThenSumSet(Size, {x \in mapped : p \in ToSet(PoliciesOf(MappingOf(x)))})

\* Once no fault and no eviction is in progress, the segments in memory fit
\* in the limit of the policy, whatever the threads did to each other between
\* the choice of the segments to evict and their eviction.  A FIFO-window
\* policy ignores the limit of a quota; its fixed window may exceed its own
\* maximum by less than one segment.
WithinLimit ==
  Quiet => \A p \in Policies :
    IF kind[p] = "window"
    THEN Resident(p) < MaxMemory[p] + Max({SegmentSize[m] : m \in Mappings})
    ELSE Resident(p) <= policy[p].dynamicMax

\* The process never aborts, spins in a critical section, or evicts a segment
\* of a mapping that was deleted, and notifyEvict() finds the segment in its
\* list, as its assert(cur.isInList()) says, unless an eviction of that segment
\* for one policy has crossed a touch or an eviction of it for the other.
Survives == fate \in {"ok", "crossed"}

\* notifyEvict() always finds the segment in the list of the policy, as its
\* assert(cur.isInList()) says.
NotifyEvictFindsIt == fate \notin {"assert", "crossed"}

\* Once freeElementStorage() has untracked a mapping, no policy evicts a
\* segment of it.
NoEvictOfDeleted == fate # "deleted"

\* Between two faults the local and the global policy of a mapping track the
\* same segments of it, so that the one that evicts always finds the segment
\* in the list of the other (assert(cur.isInList()) of notifyEvict()): a
\* segment is in one list only if its eviction has crossed, in another thread,
\* a touch that goes from one policy to the other.
PoliciesAgree ==
  Quiet /\ fate = "ok" =>
    \A m \in alive : \A p, q \in ToSet(PoliciesOf(m)) : \A i \in SegmentIds :
      <<m, i>> \in crossed
        \/ (IsInList(policy[p], <<m, i>>) <=> IsInList(policy[q], <<m, i>>))
=============================================================================
