----------------------------- MODULE MCListings -----------------------------
(***************************************************************************)
(* Instances of Listings for TLC.                                          *)
(***************************************************************************)
EXTENDS Listings, TLC

CONSTANTS p1, p2, l1, n1, n2, nb

\* A file that a program of an earlier day has left.
OneFile == [l \in {l1} |-> [n \in {n1} |-> Id(-3, 0, FALSE)]]

ProcessSymmetry == Permutations(Processes)
============================================================================
