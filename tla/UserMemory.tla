----------------------------- MODULE UserMemory -----------------------------
(***************************************************************************)
(* What a mapping promises to the threads that use it: one memory of       *)
(* segments.  A thread issues a load or a store and the access takes       *)
(* effect at one instant: a store replaces the content of the segment, a   *)
(* load returns it.  Nothing else ever changes the content: not the        *)
(* paging, not the flushes, not the evictions.                             *)
(***************************************************************************)
EXTENDS Naturals

CONSTANTS Threads, Segments, Values

VARIABLES memory,   (* content of each segment                             *)
          request,  (* the access each thread has in progress              *)
          target,   (* the segment it is about                             *)
          register  (* value to store, or value returned by the last load  *)

vars == <<memory, request, target, register>>

Init ==
  /\ memory \in [Segments -> Values]
  /\ request = [t \in Threads |-> "none"]
  /\ target = [t \in Threads |-> 0]
  /\ register \in [Threads -> Values]

Issue(t) ==
  /\ request[t] = "none"
  /\ \E r \in {"load", "store"}, s \in Segments, v \in Values :
       /\ request' = [request EXCEPT ![t] = r]
       /\ target' = [target EXCEPT ![t] = s]
       /\ register' = [register EXCEPT ![t] = v]
  /\ UNCHANGED memory

Load(t) ==
  /\ request[t] = "load"
  /\ register' = [register EXCEPT ![t] = memory[target[t]]]
  /\ request' = [request EXCEPT ![t] = "none"]
  /\ target' = [target EXCEPT ![t] = 0]
  /\ UNCHANGED memory

Store(t) ==
  /\ request[t] = "store"
  /\ memory' = [memory EXCEPT ![target[t]] = register[t]]
  /\ request' = [request EXCEPT ![t] = "none"]
  /\ target' = [target EXCEPT ![t] = 0]
  /\ UNCHANGED register

Next == \E t \in Threads : Issue(t) \/ Load(t) \/ Store(t)

Spec == Init /\ [][Next]_vars
=============================================================================
