----------------------------- MODULE MCTransfer -----------------------------
(***************************************************************************)
(* Instances of Transfer for TLC.                                          *)
(***************************************************************************)
EXTENDS Transfer

CONSTANTS v0, v1

\* No page of the storage reads as a fresh one; the stores and flushes of the
\* program make every other content of the mapped part.
FullStorage == {[c \in Cells |-> v1]}
============================================================================
