----------------------------- MODULE QuotaLocal -----------------------------
(***************************************************************************)
(* A quota shared by the policies of a process (PolicyQuota.cpp and        *)
(* PolicyQuotaLocal.cpp) and the policies it limits.  What a policy holds  *)
(* is seen here as its currentMemory only: a first access to a segment     *)
(* adds one segment and evicts down to dynamicMaxMemory, shrinkMemory()    *)
(* evicts down to it, unmapping a mapping takes segments away.             *)
(*                                                                         *)
(* Every thread faults, unmaps, registers and unregisters policies, and    *)
(* runs update() after a fault or a registration.  A LIFO policy never     *)
(* calls update() after a fault (its tested isFirstAccess is never set):   *)
(* the policies here are FIFO and FIFO-window ones.                        *)
(***************************************************************************)
EXTENDS Integers, Sequences, FiniteSets, SequencesExt

CONSTANTS
  Threads,
  NoThread,
  Policies,
  Kind,          (* "fifo" or "window"                                     *)
  SegmentSize,   (* size of the segments each policy tracks                *)
  MaxMemory,     (* staticMaxMemory of each policy                         *)
  QuotaMemory,   (* staticMaxMemory of the quota                           *)
  Word,          (* size_t counts modulo Word                              *)
  Start,         (* the policies registered at first, in order             *)
  Churn          (* policies that are registered and unregistered          *)

ASSUME QuotaAssumption ==
  /\ NoThread \notin Threads
  /\ Kind \in [Policies -> {"fifo", "window"}]
  /\ SegmentSize \in [Policies -> Nat \ {0}]
  /\ MaxMemory \in [Policies -> Nat]
  /\ QuotaMemory \in 1..(Word - 1)
  /\ Start \in Seq(Policies) /\ IsInjective(Start)
  /\ Churn \subseteq Policies

VARIABLES
  policies,    (* the policies registered to the quota, in order           *)
  current,     (* getCurrentMemory() of each policy                        *)
  dynamicMax,  (* dynamicMaxMemory of each policy                          *)
  mutex,       (* owner of the mutex of the quota                          *)
  pc,          (* where each thread is                                     *)
  pol,         (* the policy its fault or its update is about              *)
  memOrig      (* currentMemory when its fault was notified                *)

vars == <<policies, current, dynamicMax, mutex, pc, pol, memOrig>>

AnyPolicy == CHOOSE p \in Policies : TRUE

\* Each policy is created with its own limit; registering it gives it all the
\* quota (updateNotifyLimit).
Init ==
  /\ policies = Start
  /\ current = [p \in Policies |-> 0]
  /\ dynamicMax = [p \in Policies |->
       IF p \in ToSet(Start) THEN QuotaMemory ELSE MaxMemory[p]]
  /\ mutex = NoThread
  /\ pc = [t \in Threads |-> "idle"]
  /\ pol = [t \in Threads |-> AnyPolicy]
  /\ memOrig = [t \in Threads |-> 0]

Goto(t, l) == pc' = [pc EXCEPT ![t] = l]

\* The locals of t are dead.
Finish(t) ==
  /\ Goto(t, "idle")
  /\ pol' = [pol EXCEPT ![t] = AnyPolicy]
  /\ memOrig' = [memOrig EXCEPT ![t] = 0]
-----------------------------------------------------------------------------
(***************************************************************************)
(* Faults.                                                                 *)
(***************************************************************************)

\* What eviction segment by segment leaves of n under the limit of p.
Trim(p, n) ==
  LET max == IF Kind[p] = "window" THEN MaxMemory[p] ELSE dynamicMax[p]
      over == IF n > max THEN n - max ELSE 0
      evicted == (over + SegmentSize[p] - 1) \div SegmentSize[p]
  IN  n - evicted * SegmentSize[p]

\* notifyTouch(), critical section.
Touch(t, p) ==
  /\ pc[t] = "idle"
  /\ current' = [current EXCEPT ![p] = Trim(p, @ + SegmentSize[p])]
  /\ Goto(t, "touched")
  /\ pol' = [pol EXCEPT ![t] = p]
  /\ memOrig' = [memOrig EXCEPT ![t] = current[p]]
  /\ UNCHANGED <<policies, dynamicMax, mutex>>

\* A mutant: a growth by one segment is not reported.
NotifyLarge(t) ==
  /\ pc[t] = "touched"
  /\ IF pol[t] \in ToSet(policies) /\ current[pol[t]] > memOrig[t] + 1
     THEN Goto(t, "lock") /\ UNCHANGED <<pol, memOrig>>
     ELSE Finish(t)
  /\ UNCHANGED <<policies, current, dynamicMax, mutex>>

\* notifyTouch(), end: ask the quota when the memory has grown.
Notify(t) ==
  /\ pc[t] = "touched"
  /\ IF pol[t] \in ToSet(policies) /\ current[pol[t]] > memOrig[t]
     THEN Goto(t, "lock") /\ UNCHANGED <<pol, memOrig>>
     ELSE Finish(t)
  /\ UNCHANGED <<policies, current, dynamicMax, mutex>>

\* A mutant: segments that are not in the list are counted too.
FreeAnySegment(t, p, n) ==
  /\ pc[t] = "idle"
  /\ n > 0
  /\ current' = [current EXCEPT ![p] = @ - n * SegmentSize[p]]
  /\ UNCHANGED <<policies, dynamicMax, mutex, pc, pol, memOrig>>

\* A mapping of the policy is unmapped: freeElementStorage().
Free(t, p, n) ==
  /\ pc[t] = "idle"
  /\ n > 0 /\ n * SegmentSize[p] <= current[p]
  /\ current' = [current EXCEPT ![p] = @ - n * SegmentSize[p]]
  /\ UNCHANGED <<policies, dynamicMax, mutex, pc, pol, memOrig>>
-----------------------------------------------------------------------------
(***************************************************************************)
(* update(), under the mutex of the quota.  The memory of the policies is  *)
(* read without their mutexes, while other threads change it.              *)
(***************************************************************************)

UsedMemory == FoldLeft(LAMBDA sum, p : sum + current[p], 0, policies)

\* The first of the policies that use most.
Largest ==
  LET Top(i) == \A j \in DOMAIN policies : current[policies[j]] <= current[policies[i]]
  IN  policies[CHOOSE i \in DOMAIN policies :
                 Top(i) /\ \A j \in DOMAIN policies : Top(j) => i <= j]

Lock(t) ==
  /\ pc[t] = "lock" /\ mutex = NoThread
  /\ mutex' = t
  /\ Goto(t, "check")
  /\ UNCHANGED <<policies, current, dynamicMax, pol, memOrig>>

Check(t) ==
  /\ pc[t] = "check"
  /\ IF UsedMemory > QuotaMemory
     THEN Goto(t, "reduce") /\ UNCHANGED <<mutex, pol, memOrig>>
     ELSE Finish(t) /\ mutex' = NoThread
  /\ UNCHANGED <<policies, current, dynamicMax>>

\* A mutant: half of all that the largest user has.
HalveAll(n) == n \div 2

\* Half of what the largest user has over the average (size_t arithmetic).
Halve(n) ==
  LET average == QuotaMemory \div Len(policies)
  IN  (average + ((n - average) % Word) \div 2) % Word

Reduce(t) ==
  /\ pc[t] = "reduce"
  /\ pol' = [pol EXCEPT ![t] = Largest]
  /\ dynamicMax' = [dynamicMax EXCEPT ![Largest] = Halve(current[Largest])]
  /\ Goto(t, "shrink")
  /\ UNCHANGED <<policies, current, mutex, memOrig>>

\* A mutant: the new limit only acts at the next fault.
ShrinkLater(t) ==
  /\ pc[t] = "shrink"
  /\ Goto(t, "check")
  /\ UNCHANGED <<policies, current, dynamicMax, mutex, pol, memOrig>>

\* shrinkMemory() of the policy.
Shrink(t) ==
  /\ pc[t] = "shrink"
  /\ current' = [current EXCEPT ![pol[t]] = Trim(pol[t], @)]
  /\ Goto(t, "check")
  /\ UNCHANGED <<policies, dynamicMax, mutex, pol, memOrig>>
-----------------------------------------------------------------------------
(***************************************************************************)
(* Registration.                                                           *)
(***************************************************************************)

Register(t, p) ==
  /\ pc[t] = "idle" /\ mutex = NoThread
  /\ p \in Churn \ ToSet(policies)
  /\ policies' = Append(policies, p)
  /\ Goto(t, "limits")
  /\ UNCHANGED <<current, dynamicMax, mutex, pol, memOrig>>

Unregister(t, p) ==
  /\ pc[t] = "idle" /\ mutex = NoThread
  /\ p \in Churn \cap ToSet(policies)
  /\ policies' = SelectSeq(policies, LAMBDA q : q # p)
  /\ Goto(t, "limits")
  /\ UNCHANGED <<current, dynamicMax, mutex, pol, memOrig>>

\* updateNotifyLimit(), without the mutex of the quota; update() follows.
UpdateNotifyLimit(t) ==
  /\ pc[t] = "limits"
  /\ dynamicMax' = [p \in Policies |->
       IF p \in ToSet(policies) THEN QuotaMemory ELSE dynamicMax[p]]
  /\ Goto(t, "lock")
  /\ UNCHANGED <<policies, current, mutex, pol, memOrig>>

Fault(t) == Notify(t) \/ \E p \in Policies : Touch(t, p)

Update(t) == Lock(t) \/ Check(t) \/ Reduce(t) \/ Shrink(t)

Next ==
  \E t \in Threads :
    \/ Fault(t)
    \/ \E p \in Policies, n \in 1..Word : Free(t, p, n)
    \/ Update(t)
    \/ \E p \in Policies : Register(t, p) \/ Unregister(t, p)
    \/ UpdateNotifyLimit(t)

\* A thread inside update() keeps running; nothing is asked of the others.
Fairness == \A t \in Threads : WF_vars(Check(t) \/ Reduce(t) \/ Shrink(t))

Spec == Init /\ [][Next]_vars /\ Fairness
-----------------------------------------------------------------------------
(***************************************************************************)
(* Properties.                                                             *)
(***************************************************************************)

\* Every variable has its type; a policy is registered once.
TypeOK ==
  /\ policies \in Seq(Policies) /\ IsInjective(policies)
  /\ current \in [Policies -> 0..Word]
  /\ dynamicMax \in [Policies -> 0..Word]
  /\ mutex \in Threads \cup {NoThread}
  /\ pc \in [Threads -> {"idle", "touched", "lock", "check", "reduce", "shrink",
                         "limits"}]
  /\ pol \in [Threads -> Policies]
  /\ memOrig \in [Threads -> 0..Word]

Quiet == \A t \in Threads : pc[t] = "idle"

\* Once no fault and no update is in progress, the policies together hold no
\* more than the quota: no growth escapes the test that calls update().
QuotaRespected == Quiet => UsedMemory <= QuotaMemory

\* "The quota guaranty that each policies get at least the average memory
\* distribution": whatever is registered, unregistered and reduced, no limit
\* is under the average, except until the end of an unregistration.
AverageGuaranteed ==
  (\A t \in Threads : pc[t] # "limits") =>
    \A p \in ToSet(policies) : dynamicMax[p] >= QuotaMemory \div Len(policies)

\* update() ends: every reduction evicts something, however the other
\* policies grow meanwhile.
UpdateEnds ==
  \A t \in Threads : pc[t] \in {"check", "reduce", "shrink"} ~> pc[t] = "idle"
=============================================================================
