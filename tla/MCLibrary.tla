----------------------------- MODULE MCLibrary -----------------------------
(***************************************************************************)
(* An instance of Library for TLC.                                         *)
(***************************************************************************)
EXTENDS Library, TLC

CONSTANTS t1, t2, m1, m2, d1, d2, p1, p2, q1, g1, a1, a2

Symmetry ==
  Permutations(Threads) \cup Permutations(Mappings)
    \cup Permutations(Drivers) \cup Permutations(Policies)
    \cup Permutations(Addresses)
============================================================================
