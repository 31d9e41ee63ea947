---------------------------- MODULE MappingLive ----------------------------
(***************************************************************************)
(* Progress of the threads of a mapping.  Every thread starts at most      *)
(* Budget operations and then stops, so the only fairness assumed is that  *)
(* a thread the scheduler can run keeps running (weak fairness of each     *)
(* thread): no mutex has to be fair.                                       *)
(***************************************************************************)
EXTENDS Mapping

CONSTANT Budget     (* bound: operations a thread starts                   *)

ASSUME BudgetAssumption == Budget \in Nat

VARIABLE left       (* operations each thread may still start              *)

lvars == <<vars, left>>

LInit == Init /\ left = [t \in Threads |-> Budget]

LBegin(t) ==
  /\ left[t] > 0
  /\ left' = [left EXCEPT ![t] = @ - 1]
  /\ Begin(t)

LStep(t) == Step(t) /\ UNCHANGED left

\* All the threads are back in user code with nothing to do.
Finished ==
  /\ \A t \in Threads : pc[t] = "user" /\ op[t] = "none" /\ left[t] = 0
  /\ UNCHANGED lvars

LNext == (\E t \in Threads : LBegin(t) \/ LStep(t)) \/ Finished

LSpec == LInit /\ [][LNext]_lvars /\ \A t \in Threads : WF_lvars(LStep(t))

\* The store of t faults on a page that is dirty and closed: the handler takes
\* it for one that another thread has opened and returns.
Refused(t) == op[t] = "store" /\ cur[t] \in dirty /\ prot[cur[t]] = "ro"

\* Every load, store, flush and eviction ends: no set of threads waits for
\* each other's segment mutexes (flush() takes several, in ascending order),
\* and no thread faults again and again on an access the handler refuses to
\* open.  The early return of Mapping::onSegmentationFault() leaves one
\* exception: when a load and a store meet on a segment, the handler of the
\* load may close the page that the one of the store has opened.  The store is
\* refused until somebody flushes the segment, and faults for ever otherwise;
\* the others may then starve, for it takes the mutex again and again.
EveryOperationEnds ==
  \A t \in Threads :
    op[t] # "none" ~> (op[t] = "none" \/ \E u \in Threads : []Refused(u))
=============================================================================
