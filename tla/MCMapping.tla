----------------------------- MODULE MCMapping -----------------------------
(***************************************************************************)
(* Instances of Mapping for TLC.                                           *)
(***************************************************************************)
EXTENDS Mapping, TLC

CONSTANTS t1, t2, v0, v1

\* Both threads do everything.
AllWork == [t \in {t1, t2} |-> Operations]

ThreadSymmetry == Permutations({t1, t2})
============================================================================
