------------------------------- MODULE Library -------------------------------
(***************************************************************************)
(* The objects of the library and who deletes them: ummap_init() and       *)
(* ummap_finalize(), ummap() and umunmap(), drivers with and without       *)
(* autoclean, local policies, policy groups and quotas                     *)
(* (src/src/public-api/ummap.cpp), the registries behind them              *)
(* (GlobalHandler, MappingRegistry, PolicyRegistry) and the constructor    *)
(* and destructor of Mapping.                                              *)
(*                                                                         *)
(* A member of Mappings, Drivers, Policies or Quotas is the place of an    *)
(* object in the heap, a member of Addresses a place mmap() may return:    *)
(* both are used again once freed.  Each critical section of a registry,   *)
(* and each stage of a destructor, is one step.                            *)
(*                                                                         *)
(* The caller is assumed to follow the documentation: see Caller's part.   *)
(***************************************************************************)
EXTENDS Naturals, Sequences, FiniteSets, SequencesExt

CONSTANTS
  Threads, Mappings, Drivers, Policies, Quotas, Groups, Addresses,
  None,
  InitMax    (* bound: nested ummap_init()                                 *)

Objects == Mappings \cup Drivers \cup Policies \cup Quotas

VARIABLES
  count,     (* gblCntInit                                                 *)
  up,        (* gblHandler # NULL                                          *)
  entries,   (* MappingRegistry::entries                                   *)
  groups,    (* PolicyRegistry::entries                                    *)
  alive,     (* objects that are not deleted                               *)
  mine,      (* history: those that it is the caller's part to delete      *)
  auto,      (* drivers with autoclean                                     *)
  taken,     (* addresses that are mapped                                  *)
  base, driver, localPolicy, globalPolicy,  (* fields of each mapping      *)
  storage,   (* storageRegistry of each policy, as the set of mappings     *)
  quota,     (* policyQuota of each policy                                 *)
  members,   (* policies of each quota                                     *)
  usable,    (* mappings that ummap() returned and nobody unmaps           *)
  pc, map, then  (* of each thread: where it is, the mapping it works on,  *)
                 (* and where it goes after the destructor                 *)

fields == <<base, driver, localPolicy, globalPolicy>>
policyState == <<storage, quota, members>>
registries == <<count, up, entries, groups>>
vars == <<count, up, entries, groups, alive, mine, auto, taken, base, driver,
          localPolicy, globalPolicy, storage, quota, members, usable, pc,
          map, then>>

Init ==
  /\ count = 0 /\ up = FALSE
  /\ entries = <<>> /\ groups = [g \in Groups |-> None]
  /\ alive = {} /\ mine = {} /\ auto = {} /\ taken = {}
  /\ base = [m \in Mappings |-> None]
  /\ driver = [m \in Mappings |-> None]
  /\ localPolicy = [m \in Mappings |-> None]
  /\ globalPolicy = [m \in Mappings |-> None]
  /\ storage = [p \in Policies |-> {}]
  /\ quota = [p \in Policies |-> None]
  /\ members = [q \in Quotas |-> {}]
  /\ usable = {}
  /\ pc = [t \in Threads |-> "idle"]
  /\ map = [t \in Threads |-> None]
  /\ then = [t \in Threads |-> "idle"]

-----------------------------------------------------------------------------
(***************************************************************************)
(* Caller's part.  Objects are handed over once; an object that is in use  *)
(* is not deleted; a mapping is unmapped once and not used afterwards; and *)
(* ummap_init() and ummap_finalize() run while no other call does.         *)
(***************************************************************************)

Quiet == \A t \in Threads : pc[t] = "idle"
Running == \A t \in Threads : pc[t] # "mappings" /\ then[t] # "mappings"
UsedDriver(d) == \E m \in Mappings \cap alive : driver[m] = d
UsedPolicy(p) ==
  \E m \in Mappings \cap alive : p \in {localPolicy[m], globalPolicy[m]}

-----------------------------------------------------------------------------
(***************************************************************************)
(* Drivers, policies, groups and quotas.                                   *)
(***************************************************************************)

\* A new object, from a constructor or from a URI, of whatever class the URI
\* names. A URI that names none ends the process, and the policy "none" is
\* no object: both leave nothing to follow.
Build(o) ==
  /\ o \notin alive
  /\ alive' = alive \cup {o}
  /\ mine' = mine \cup {o}
  /\ UNCHANGED <<registries, taken, fields, policyState, usable, pc, map,
                 then>>

\* ummap_driver_create_*(): with autoclean.
DriverCreate(d) == Build(d) /\ auto' = auto \cup {d}

\* ummap_policy_create_*().
PolicyCreate(p) == Build(p) /\ UNCHANGED auto

\* ummap_quota_create_*().
QuotaCreate(q) == Build(q) /\ UNCHANGED auto

\* ummap_driver_set_autoclean().
SetAutoclean(d, autoclean) ==
  /\ d \in mine /\ ~UsedDriver(d)
  /\ auto' = IF autoclean THEN auto \cup {d} ELSE auto \ {d}
  /\ UNCHANGED <<registries, alive, mine, taken, fields, policyState, usable,
                 pc, map, then>>

\* ummap_driver_destroy().
DriverDestroy(d) ==
  /\ d \in mine /\ ~UsedDriver(d)
  /\ alive' = alive \ {d}
  /\ mine' = mine \ {d}
  /\ auto' = auto \ {d}
  /\ UNCHANGED <<registries, taken, fields, policyState, usable, pc, map,
                 then>>

\* Policy::~Policy() leaves the quota.
LeaveQuotas(ps) ==
  /\ members' = [q \in Quotas |-> members[q] \ ps]
  /\ quota' = [p \in Policies |-> IF p \in ps THEN None ELSE quota[p]]

\* ummap_policy_destroy(), for a policy that was given to nobody.
PolicyDestroy(p) ==
  /\ p \in mine
  /\ alive' = alive \ {p}
  /\ mine' = mine \ {p}
  /\ LeaveQuotas({p})
  /\ UNCHANGED <<registries, auto, taken, fields, storage, usable, pc, map,
                 then>>

\* ummap_policy_group_register(); a name that is in use ends the process.
GroupRegister(g, p) ==
  /\ up /\ p \in mine
  /\ groups[g] = None
  /\ groups' = [groups EXCEPT ![g] = p]
  /\ mine' = mine \ {p}
  /\ UNCHANGED <<count, up, entries, alive, auto, taken, fields, policyState,
                 usable, pc, map, then>>

\* ummap_policy_group_destroy(): PolicyRegistry::unregisterPolicy() deletes
\* the policy.
GroupDestroy(g) ==
  /\ up /\ groups[g] # None /\ ~UsedPolicy(groups[g])
  /\ groups' = [groups EXCEPT ![g] = None]
  /\ alive' = alive \ {groups[g]}
  /\ LeaveQuotas({groups[g]})
  /\ UNCHANGED <<count, up, entries, mine, auto, taken, fields, storage,
                 usable, pc, map, then>>

\* ummap_quota_register_policy(); a second quota ends the process.
QuotaRegister(q, p) ==
  /\ q \in alive /\ p \in alive
  /\ \A t \in Threads : pc[t] = "delete" => localPolicy[map[t]] # p
  /\ quota[p] = None
  /\ members' = [members EXCEPT ![q] = @ \cup {p}]
  /\ quota' = [quota EXCEPT ![p] = q]
  /\ UNCHANGED <<registries, alive, mine, auto, taken, fields, storage,
                 usable, pc, map, then>>

\* ummap_quota_unregister_policy(); an unknown policy ends the process.
QuotaUnregister(p) ==
  /\ p \in alive /\ quota[p] # None
  /\ LeaveQuotas({p})
  /\ UNCHANGED <<registries, alive, mine, auto, taken, fields, storage,
                 usable, pc, map, then>>

\* ummap_quota_destroy(); a quota that has policies ends the process.
QuotaDestroy(q) ==
  /\ q \in mine
  /\ members[q] = {}
  /\ alive' = alive \ {q}
  /\ mine' = mine \ {q}
  /\ UNCHANGED <<registries, auto, taken, fields, policyState, usable, pc,
                 map, then>>

-----------------------------------------------------------------------------
(***************************************************************************)
(* Mappings.                                                               *)
(***************************************************************************)

Goto(t, l) == pc' = [pc EXCEPT ![t] = l]

\* allocateElementStorage() with Policy::registerMapping().
AllocateStorage(ps, m) ==
  storage' = [p \in Policies |->
                IF p \in ps THEN storage[p] \cup {m} ELSE storage[p]]

\* ummap(), its part before the registration: PolicyRegistry::get() and the
\* constructor of Mapping.  mmap() returns any address that is free.
Construct(t, m, a, d, l, g) ==
  /\ up /\ Running /\ pc[t] = "idle"
  /\ m \notin alive /\ a \notin taken
  /\ d \in mine /\ (d \in auto => ~UsedDriver(d))
  /\ l \in mine \cup {None}
  /\ g # None => groups[g] # None      \* or PolicyRegistry::get() is fatal
  /\ LET global == IF g = None THEN None ELSE groups[g]
     IN  /\ globalPolicy' = [globalPolicy EXCEPT ![m] = global]
         /\ AllocateStorage({l, global}, m)
  /\ alive' = alive \cup {m}
  /\ mine' = mine \ ({l} \cup (auto \cap {d}))
  /\ taken' = taken \cup {a}
  /\ base' = [base EXCEPT ![m] = a]
  /\ driver' = [driver EXCEPT ![m] = d]
  /\ localPolicy' = [localPolicy EXCEPT ![m] = l]
  /\ map' = [map EXCEPT ![t] = m]
  /\ Goto(t, "register")
  /\ UNCHANGED <<registries, auto, quota, members, usable, then>>

\* MappingRegistry::registerMapping(), and ummap() returns.
Register(t) ==
  /\ pc[t] = "register"
  /\ entries' = Append(entries, [mapping |-> map[t], at |-> base[map[t]]])
  /\ usable' = usable \cup {map[t]}
  /\ map' = [map EXCEPT ![t] = None]
  /\ Goto(t, "idle")
  /\ UNCHANGED <<count, up, groups, alive, mine, auto, taken, fields,
                 policyState, then>>

\* MappingRegistry::getMapping(): the first entry that has the address.
Lookup(a) ==
  LET found == SelectSeq(entries, LAMBDA e : e.at = a)
  IN  IF found = <<>> THEN None ELSE found[1].mapping

\* umunmap() of the mapping at address a, which one thread does.
Unmap(t, a) ==
  /\ up /\ Running /\ pc[t] = "idle"
  /\ \E m \in usable : base[m] = a
  /\ Lookup(a) # None                    \* or assumeArg() ends the process
  /\ map' = [map EXCEPT ![t] = Lookup(a)]
  /\ usable' = {m \in usable : base[m] # a}
  /\ then' = [then EXCEPT ![t] = "idle"]
  /\ Goto(t, "unregister")
  /\ UNCHANGED <<registries, alive, mine, auto, taken, fields, policyState>>

\* Mutant of Unregister: the last entry is removed, whatever it is.
UnregisterLast(t) ==
  /\ pc[t] = "unregister"
  /\ entries' = Front(entries)
  /\ Goto(t, "munmap")
  /\ UNCHANGED <<count, up, groups, alive, mine, auto, taken, fields,
                 policyState, usable, map, then>>

\* MappingRegistry::unregisterMapping(); the flush that may follow changes no
\* object.
Unregister(t) ==
  /\ pc[t] = "unregister"
  /\ entries' = SelectSeq(entries, LAMBDA e : e.mapping # map[t])
  /\ Goto(t, "munmap")
  /\ UNCHANGED <<count, up, groups, alive, mine, auto, taken, fields,
                 policyState, usable, map, then>>

\* Mapping::~Mapping(): munmap() first.
Munmap(t) ==
  /\ pc[t] = "munmap"
  /\ taken' = taken \ {base[map[t]]}
  /\ Goto(t, "free")
  /\ UNCHANGED <<registries, alive, mine, auto, fields, policyState, usable,
                 map, then>>

\* freeElementStorage() of the local and of the global policy.
FreeStorage(t) ==
  /\ pc[t] = "free"
  /\ storage' = [p \in Policies |->
       IF p \in {localPolicy[map[t]], globalPolicy[map[t]]}
       THEN storage[p] \ {map[t]} ELSE storage[p]]
  /\ Goto(t, "delete")
  /\ UNCHANGED <<registries, alive, mine, auto, taken, fields, quota, members,
                 usable, map, then>>

\* What a mapping deletes when it is deleted.
Owned(m) ==
  ({localPolicy[m]} \cap Policies) \cup ({driver[m]} \cap auto)

\* Mutant of Delete: autoclean is not looked at.
DeleteAlways(t) ==
  /\ pc[t] = "delete"
  /\ LET gone == {localPolicy[map[t]], driver[map[t]]} \ {None}
     IN  /\ alive' = alive \ (gone \cup {map[t]})
         /\ auto' = auto \ gone
         /\ LeaveQuotas(gone)
  /\ map' = [map EXCEPT ![t] = None]
  /\ Goto(t, then[t])
  /\ UNCHANGED <<registries, mine, taken, fields, storage, usable, then>>

\* Mutant of Delete: the local policy is forgotten.
DeleteNotPolicy(t) ==
  /\ pc[t] = "delete"
  /\ LET gone == {driver[map[t]]} \cap auto
     IN  /\ alive' = alive \ (gone \cup {map[t]})
         /\ auto' = auto \ gone
         /\ LeaveQuotas(gone)
  /\ map' = [map EXCEPT ![t] = None]
  /\ Goto(t, then[t])
  /\ UNCHANGED <<registries, mine, taken, fields, storage, usable, then>>

\* The rest of the destructor: the local policy, and the driver if autoclean.
Delete(t) ==
  /\ pc[t] = "delete"
  /\ LET gone == Owned(map[t])
     IN  /\ alive' = alive \ (gone \cup {map[t]})
         /\ auto' = auto \ gone
         /\ LeaveQuotas(gone)
  /\ map' = [map EXCEPT ![t] = None]
  /\ Goto(t, then[t])
  /\ UNCHANGED <<registries, mine, taken, fields, storage, usable, then>>

-----------------------------------------------------------------------------
(***************************************************************************)
(* Initialisation and end.                                                 *)
(***************************************************************************)

SetGlobalHandler == up' = TRUE
ClearGlobalHandler == up' = FALSE

\* ummap_init(): the first one makes the handler.
UmmapInit ==
  /\ Quiet /\ count < InitMax
  /\ IF count = 0 THEN SetGlobalHandler ELSE UNCHANGED up
  /\ count' = count + 1
  /\ UNCHANGED <<entries, groups, alive, mine, auto, taken, fields,
                 policyState, usable, pc, map, then>>

\* Mutant of UmmapFinalize: the counter is not looked at.
UmmapFinalizeFirst(t) ==
  /\ Quiet /\ count > 0
  /\ count' = count - 1
  /\ usable' = {} /\ Goto(t, "mappings")
  /\ UNCHANGED <<up, entries, groups, alive, mine, auto, taken, fields,
                 policyState, map, then>>

\* ummap_finalize(): the last one deletes the handler.
UmmapFinalize(t) ==
  /\ Quiet /\ count > 0
  /\ count' = count - 1
  /\ IF count' = 0 THEN usable' = {} /\ Goto(t, "mappings")
                   ELSE UNCHANGED <<usable, pc>>
  /\ UNCHANGED <<up, entries, groups, alive, mine, auto, taken, fields,
                 policyState, map, then>>

\* GlobalHandler::~GlobalHandler() and MappingRegistry::deleteAllMappings():
\* each mapping is deleted in turn; the list is cleared at the end, which no
\* other thread can see, so an entry leaves it here when its turn comes.
NextMapping(t) ==
  /\ pc[t] = "mappings" /\ entries # <<>>
  /\ map' = [map EXCEPT ![t] = Head(entries).mapping]
  /\ entries' = Tail(entries)
  /\ then' = [then EXCEPT ![t] = "mappings"]
  /\ Goto(t, "munmap")
  /\ UNCHANGED <<count, up, groups, alive, mine, auto, taken, fields,
                 policyState, usable>>

\* PolicyRegistry::deleteAll(), from the destructor of the handler's members.
DeletePolicies(t) ==
  /\ pc[t] = "mappings" /\ entries = <<>>
  /\ LET gone == {groups[g] : g \in Groups} \cap Policies
     IN  alive' = alive \ gone /\ LeaveQuotas(gone)
  /\ groups' = [g \in Groups |-> None]
  /\ ClearGlobalHandler
  /\ Goto(t, "idle")
  /\ then' = [then EXCEPT ![t] = "idle"]
  /\ UNCHANGED <<count, entries, mine, auto, taken, fields, storage, usable,
                 map>>

Next ==
  \/ /\ Running
     /\ \/ \E d \in Drivers :
             \/ DriverCreate(d) \/ DriverDestroy(d)
             \/ \E b \in BOOLEAN : SetAutoclean(d, b)
        \/ \E p \in Policies :
             \/ PolicyCreate(p) \/ PolicyDestroy(p) \/ QuotaUnregister(p)
             \/ \E g \in Groups : GroupRegister(g, p)
             \/ \E q \in Quotas : QuotaRegister(q, p)
        \/ \E g \in Groups : GroupDestroy(g)
        \/ \E q \in Quotas : QuotaCreate(q) \/ QuotaDestroy(q)
        \/ UmmapInit
  \/ \E t \in Threads :
       \/ \E m \in Mappings, a \in Addresses, d \in Drivers,
             l \in Policies \cup {None}, g \in Groups \cup {None} :
            Construct(t, m, a, d, l, g)
       \/ \E a \in Addresses : Unmap(t, a)
       \/ Register(t) \/ Unregister(t) \/ Munmap(t) \/ FreeStorage(t)
       \/ Delete(t)
       \/ UmmapFinalize(t) \/ NextMapping(t) \/ DeletePolicies(t)

Spec == Init /\ [][Next]_vars
-----------------------------------------------------------------------------
(***************************************************************************)
(* Properties.                                                             *)
(***************************************************************************)

\* Every variable has its type, and the handler is there as long as
\* ummap_init() was called more often than ummap_finalize().
TypeOK ==
  /\ count \in 0..InitMax
  /\ Quiet => up = (count > 0)
  /\ entries \in Seq([mapping : Mappings, at : Addresses])
  /\ groups \in [Groups -> Policies \cup {None}]
  /\ alive \subseteq Objects /\ auto \subseteq Drivers \cap alive
  /\ taken \subseteq Addresses
  /\ base \in [Mappings -> Addresses \cup {None}]
  /\ storage \in [Policies -> SUBSET Mappings]
  /\ members \in [Quotas -> SUBSET Policies]
  /\ map \in [Threads -> Mappings \cup {None}]

\* An address of a mapping that is in use leads to that mapping, in the fault
\* handler and in every call that takes an address, while other mappings come
\* and go, also at addresses and in places of the heap that were used before.
AccessFindsMapping == \A m \in usable : Lookup(base[m]) = m

\* Nothing that can still be followed leads to a deleted object: the entries
\* of both registries, the driver and the policies of a mapping until it
\* drops them, the mappings of a policy, and the two ends of the link between
\* policies and quotas, which agree.  And no object is deleted that it is the
\* caller's part to delete.
NoDangling ==
  /\ \A i \in 1..Len(entries) : entries[i].mapping \in alive
  /\ \A g \in Groups : groups[g] \in alive \cup {None}
  /\ \A t \in Threads : map[t] \in alive \cup {None}
  /\ \A m \in Mappings \cap alive :
       /\ driver[m] \in alive
       /\ {localPolicy[m], globalPolicy[m]} \subseteq alive \cup {None}
  /\ \A p \in Policies \cap alive : storage[p] \subseteq alive
  /\ \A p \in Policies, q \in Quotas :
       /\ p \in members[q] <=> quota[p] = q
       /\ p \in members[q] => {p, q} \subseteq alive
  /\ mine \subseteq alive

\* When the last ummap_finalize() is over, no object of the library is left but
\* what it is the caller's part to delete: no mapping, no address, no local
\* policy, no group, no driver with autoclean that was mapped.  It is about
\* objects, not about the memory inside them: the array segmentStatus of a
\* mapping, allocated by its constructor, is freed by nothing.
NoLeak == Quiet /\ ~up => alive \subseteq mine /\ taken = {} /\ entries = <<>>
=============================================================================
