--------------------------- MODULE QuotaInterProc ---------------------------
(***************************************************************************)
(* The quota several processes share through a shared memory segment       *)
(* (PolicyQuotaInterProc.cpp): a spinlock, a number of processes and a     *)
(* table of pids.  A process that joins increments the number, takes a     *)
(* slot, signals the others and computes its share; the signal makes a     *)
(* process compute its share again.                                        *)
(*                                                                         *)
(* A process runs at most once.  It may crash outside the critical         *)
(* sections of the spinlock (inside, it would block the others for ever);  *)
(* kill(pid, 0) tells that it is gone.  SIGUSR1 is not queued: one signal  *)
(* is pending or none is.  The handler may run on top of anything that the *)
(* process does, which has one thread here: in the middle of update(), its *)
(* own update() is undone by the rest of the one below it; when it waits   *)
(* for a mutex of the code below it, it waits for ever.                    *)
(***************************************************************************)
EXTENDS Integers, Sequences, FiniteSets, SequencesExt

CONSTANTS
  Procs,         (* pids                                                   *)
  Free,          (* an empty slot of the table, a free spinlock            *)
  Total,         (* totalAllowed                                           *)
  Crashes        (* processes may crash, outside the spinlock              *)

ASSUME InterProcAssumption ==
  /\ Free \notin Procs
  /\ Total \in Nat
  /\ Crashes \in BOOLEAN

VARIABLES
  spinlock,    (* its owner                                                *)
  processes,   (* shared->processes                                        *)
  pids,        (* shared->pids[0 .. indexMax - 1]                          *)
  pending,     (* processes with SIGEVICT pending                          *)
  pc,          (* where each process is                                    *)
  perProc,     (* perProcQuota of the update() each process executes       *)
  quota,       (* staticMaxMemory of each process                          *)
  undone       (* history: processes whose handler ran between the read    *)
               (* and the write of their last update()                     *)

vars == <<spinlock, processes, pids, pending, pc, perProc, quota, undone>>

\* openShm(): the first process finds the segment filled with zeroes.
Init ==
  /\ spinlock = Free
  /\ processes = 0
  /\ pids = <<>>
  /\ pending = {}
  /\ pc = [p \in Procs |-> "new"]
  /\ perProc = [p \in Procs |-> 0]
  /\ quota = [p \in Procs |-> Total]
  /\ undone = {}

Goto(p, l) == pc' = [pc EXCEPT ![p] = l]

\* kill(pid, 0) fails.
Dead(p) == pc[p] \in {"gone", "crashed", "fpe"}

\* gblPolicyQuotaInterProc is set: from the constructor to the destructor.
HasQuota(p) == ~Dead(p) /\ pc[p] \notin {"new", "left"}

\* lock(), for each of the critical sections.
Locking == [join |-> "joinLocked", signal |-> "signalLocked", leave |-> "leaveLocked"]

Lock(p) ==
  /\ pc[p] \in DOMAIN Locking /\ spinlock = Free
  /\ spinlock' = p
  /\ Goto(p, Locking[pc[p]])
  /\ UNCHANGED <<processes, pids, pending, perProc, quota, undone>>

Unlock(p) == spinlock' = Free

Start(p) ==
  /\ pc[p] = "new"
  /\ Goto(p, "join")
  /\ UNCHANGED <<spinlock, processes, pids, pending, perProc, quota, undone>>

\* A mutant: the test on kill() is inverted.
JoinTakesLive(p) ==
  /\ pc[p] = "joinLocked"
  /\ processes' = processes + 1
  /\ LET usable == {i \in DOMAIN pids : pids[i] = Free \/ ~Dead(pids[i])}
     IN  pids' = IF usable = {} THEN Append(pids, p)
                 ELSE [pids EXCEPT ![Min(usable)] = p]
  /\ Unlock(p)
  /\ Goto(p, "signal")
  /\ UNCHANGED <<pending, perProc, quota, undone>>

\* Constructor: the first slot that is empty or whose process is dead.
Join(p) ==
  /\ pc[p] = "joinLocked"
  /\ processes' = processes + 1
  /\ LET usable == {i \in DOMAIN pids : pids[i] = Free \/ Dead(pids[i])}
     IN  pids' = IF usable = {} THEN Append(pids, p)
                 ELSE [pids EXCEPT ![Min(usable)] = p]
  /\ Unlock(p)
  /\ Goto(p, "signal")
  /\ UNCHANGED <<pending, perProc, quota, undone>>

\* A mutant: the slots of the dead are not cleared.
SignalAllKeepsDead(p) ==
  /\ pc[p] = "signalLocked"
  /\ LET dead == {i \in DOMAIN pids : pids[i] # Free /\ Dead(pids[i])}
     IN  /\ processes' = processes - Cardinality(dead)
         /\ pending' = pending \cup {q \in ToSet(pids) \ {Free, p} : ~Dead(q)}
  /\ Unlock(p)
  /\ Goto(p, "update")
  /\ UNCHANGED <<pids, perProc, quota, undone>>

\* A mutant: only the first of the others is signalled.
SignalAllOne(p) ==
  /\ pc[p] = "signalLocked"
  /\ LET dead == {i \in DOMAIN pids : pids[i] # Free /\ Dead(pids[i])}
         kept == [i \in DOMAIN pids |-> IF i \in dead THEN Free ELSE pids[i]]
         others == {i \in DOMAIN pids : kept[i] \notin {Free, p}}
     IN  /\ processes' = processes - Cardinality(dead)
         /\ pids' = kept
         /\ pending' = pending \cup {kept[i] : i \in {j \in others : j = Min(others)}}
  /\ Unlock(p)
  /\ Goto(p, "update")
  /\ UNCHANGED <<perProc, quota, undone>>

\* signalAll(): forget the dead, then signal the others.
SignalAll(p) ==
  /\ pc[p] = "signalLocked"
  /\ LET dead == {i \in DOMAIN pids : pids[i] # Free /\ Dead(pids[i])}
         kept == [i \in DOMAIN pids |-> IF i \in dead THEN Free ELSE pids[i]]
     IN  /\ processes' = processes - Cardinality(dead)
         /\ pids' = kept
         /\ pending' = pending \cup (ToSet(kept) \ {Free, p})
  /\ Unlock(p)
  /\ Goto(p, "update")
  /\ UNCHANGED <<perProc, quota, undone>>

\* update(): read the number of processes (assert: there is one), ...
UpdateRead(p) ==
  /\ pc[p] = "update" /\ processes > 0
  /\ perProc' = [perProc EXCEPT ![p] = Total \div processes]
  /\ Goto(p, "write")
  /\ undone' = undone \ {p}
  /\ UNCHANGED <<spinlock, processes, pids, pending, quota>>

\* ... set the limit and take the mutex of the quota, ...
UpdateWrite(p) ==
  /\ pc[p] = "write"
  /\ quota' = [quota EXCEPT ![p] = perProc[p]]
  /\ perProc' = [perProc EXCEPT ![p] = 0]
  /\ Goto(p, "mutex")
  /\ UNCHANGED <<spinlock, processes, pids, pending, undone>>

\* ... which PolicyQuotaLocal::update() holds till its end.
UpdateEnd(p) ==
  /\ pc[p] = "mutex"
  /\ Goto(p, "run")
  /\ UNCHANGED <<spinlock, processes, pids, pending, perProc, quota, undone>>

\* registerPolicy(), unregisterPolicy() or a fault calls update().  During a
\* fault every signal is blocked: it takes the same steps, and no handler runs
\* between them.
Grow(p) ==
  /\ pc[p] = "run"
  /\ Goto(p, "update")
  /\ UNCHANGED <<spinlock, processes, pids, pending, perProc, quota, undone>>

\* sigHandler(): a whole update(), or nothing when there is no quota; it
\* waits for ever for a mutex that the code it interrupts holds.
Handler(p) ==
  /\ p \in pending /\ ~Dead(p) /\ pc[p] # "stuck"
  /\ pending' = pending \ {p}
  /\ IF ~HasQuota(p) THEN UNCHANGED <<quota, pc>>
     ELSE IF processes = 0 THEN Goto(p, "fpe") /\ UNCHANGED quota
     ELSE /\ quota' = [quota EXCEPT ![p] = Total \div processes]
          /\ IF pc[p] = "mutex" THEN Goto(p, "stuck") ELSE UNCHANGED pc
  /\ undone' = IF pc[p] = "write" THEN undone \cup {p} ELSE undone \ {p}
  /\ UNCHANGED <<spinlock, processes, pids, perProc>>

\* Destructor.
Leave(p) ==
  /\ pc[p] = "run"
  /\ Goto(p, "leave")
  /\ UNCHANGED <<spinlock, processes, pids, pending, perProc, quota, undone>>

\* A mutant: the slot is not given back.
LeaveTableKeepsSlot(p) ==
  /\ pc[p] = "leaveLocked"
  /\ processes' = processes - 1
  /\ Unlock(p)
  /\ Goto(p, "leaving")
  /\ UNCHANGED <<pids, pending, perProc, quota, undone>>

LeaveTable(p) ==
  /\ pc[p] = "leaveLocked"
  /\ processes' = processes - 1
  /\ pids' = [i \in DOMAIN pids |-> IF pids[i] = p THEN Free ELSE pids[i]]
  /\ Unlock(p)
  /\ Goto(p, "leaving")
  /\ UNCHANGED <<pending, perProc, quota, undone>>

\* gblPolicyQuotaInterProc = NULL.
LeaveEnd(p) ==
  /\ pc[p] = "leaving"
  /\ Goto(p, "left")
  /\ UNCHANGED <<spinlock, processes, pids, pending, perProc, quota, undone>>

Exit(p) ==
  /\ pc[p] = "left"
  /\ Goto(p, "gone")
  /\ pending' = pending \ {p}
  /\ UNCHANGED <<spinlock, processes, pids, perProc, quota, undone>>

Crash(p) ==
  /\ Crashes /\ ~Dead(p) /\ pc[p] # "new"
  /\ spinlock # p
  /\ Goto(p, "crashed")
  /\ pending' = pending \ {p}
  /\ UNCHANGED <<spinlock, processes, pids, perProc, quota, undone>>

Step(p) ==
  \/ Lock(p) \/ Join(p) \/ SignalAll(p)
  \/ UpdateRead(p) \/ UpdateWrite(p) \/ UpdateEnd(p)
  \/ LeaveTable(p) \/ LeaveEnd(p) \/ Exit(p)

Next == \E p \in Procs :
  Start(p) \/ Step(p) \/ Handler(p) \/ Grow(p) \/ Leave(p) \/ Crash(p)

Spec == Init /\ [][Next]_vars
-----------------------------------------------------------------------------
(***************************************************************************)
(* Properties.                                                             *)
(***************************************************************************)

\* Every variable has its type.
TypeOK ==
  /\ spinlock \in Procs \cup {Free}
  /\ processes \in 0..Cardinality(Procs)
  /\ pids \in Seq(Procs \cup {Free})
  /\ pending \in SUBSET Procs
  /\ pc \in [Procs -> {"new", "join", "joinLocked", "signal", "signalLocked",
       "update", "write", "mutex", "run", "leave", "leaveLocked", "leaving",
       "left", "gone", "crashed", "fpe", "stuck"}]
  /\ perProc \in [Procs -> 0..Total]
  /\ quota \in [Procs -> 0..Total]
  /\ undone \in SUBSET Procs

Running == {p \in Procs : pc[p] = "run"}
Stuck == {p \in Procs : pc[p] = "stuck"}

\* No process is in the middle of something and no signal is on its way, but
\* to those that wait for themselves.
Settled ==
  /\ pending \subseteq Stuck
  /\ \A p \in Procs : pc[p] \in {"new", "run", "left", "stuck"} \/ Dead(p)

\* Every process between its registration and its departure has one slot,
\* whatever slots of dead processes are taken over: it will get the signals
\* that tell it that others join.
OneSlotEach ==
  \A p \in Procs :
    pc[p] \in {"signal", "signalLocked", "update", "write", "mutex", "run", "leave",
               "leaveLocked", "stuck"}
      => Cardinality({i \in DOMAIN pids : pids[i] = p}) = 1

\* When everything has settled, the share of a process that runs is at most
\* one n-th of the memory, n processes being there: no join goes unnoticed by
\* those that were there, or that were joining at the same time, and their
\* shares fit.  PolicyQuotaInterProc::update() gives one exception: a process
\* whose handler ran between the two statements that read the number of
\* processes and that set the limit keeps the older, larger share until it
\* calls update() again.
SharesFit ==
  Settled => \A p \in Running \ undone :
               quota[p] * Cardinality(Running \cup Stuck) <= Total

\* shared->processes never falls under the number of slots in use, whatever
\* processes crash and whoever counts them out: shares are never too large.
\* (It may stay over it: a slot taken over from a dead process leaves the dead
\* one in the count.)
CountCovers ==
  spinlock = Free => processes >= Cardinality({i \in DOMAIN pids : pids[i] # Free})

\* The signal handler always gets through update(): it neither divides by a
\* number of processes that is zero, as assert(this->shared->processes > 0)
\* says, nor waits for a mutex of the code it interrupts.
HandlerEnds == \A p \in Procs : pc[p] \notin {"fpe", "stuck"}
=============================================================================
