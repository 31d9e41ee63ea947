----------------------------- MODULE MCEviction -----------------------------
(***************************************************************************)
(* Instances of Eviction for TLC.                                          *)
(***************************************************************************)
EXTENDS Eviction

CONSTANTS t1, t2, m1, m2, loc, gbl

Alone == [m \in {m1, m2} |-> <<>>]
Group == [m \in {m1, m2} |-> <<gbl>>]

\* Two threads and two mappings with segments of two sizes under one policy,
\* whose limit a quota changes.
OnePolicy(k) ==
  [threads |-> {t1, t2}, ids |-> {0, 1}, size |-> (m1 :> 1 @@ m2 :> 2),
   local |-> Alone, global |-> Group, kind |-> (gbl :> k), max |-> (gbl :> 3),
   sliding |-> (gbl :> 2), limits |-> {2, 3}, unmaps |-> FALSE]

\* One thread, and a local and a global policy for the first mapping, with
\* limits of two segments each.
TwoPolicies(k, j) ==
  [threads |-> {t1}, ids |-> {0, 1, 2}, size |-> [m \in {m1, m2} |-> 1],
   local |-> (m1 :> <<loc>> @@ m2 :> <<>>), global |-> Group,
   kind |-> (loc :> k @@ gbl :> j), max |-> (loc :> 2 @@ gbl :> 2),
   sliding |-> (loc :> 1 @@ gbl :> 1), limits |-> {}, unmaps |-> TRUE]

\* The same, with a limit of one segment below a limit of three.
UnevenPolicies(k, j) ==
  [TwoPolicies(k, j) EXCEPT
     !.ids = {0, 1}, !.max = (loc :> 1 @@ gbl :> 3),
     !.sliding = (loc :> 1 @@ gbl :> 2)]

\* Two threads and two policies of one segment: both may take one segment.
TwoThreads(k, j) ==
  [TwoPolicies(k, j) EXCEPT
     !.threads = {t1, t2}, !.ids = {0, 1}, !.max = (loc :> 1 @@ gbl :> 1),
     !.unmaps = FALSE]

\* Two threads that also unmap, under one FIFO policy (NoEvictOfDeleted).
TwoThreadsUnmap ==
  {[OnePolicy("fifo") EXCEPT
      !.size = [m \in {m1, m2} |-> 1], !.max = (gbl :> 2), !.limits = {},
      !.unmaps = TRUE]}

AllKinds == {"fifo", "lifo", "window"}

AllSetups ==
  {OnePolicy(k) : k \in AllKinds}
    \cup {TwoPolicies(k, j) : k, j \in AllKinds}
    \cup {UnevenPolicies(k, j) : k, j \in AllKinds}
    \cup {TwoThreads(k, k) : k \in AllKinds}

ThreadSymmetry == Permutations({t1, t2})
============================================================================
