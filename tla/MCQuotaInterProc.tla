-------------------------- MODULE MCQuotaInterProc --------------------------
(***************************************************************************)
(* Instances of QuotaInterProc for TLC.                                    *)
(***************************************************************************)
EXTENDS QuotaInterProc

CONSTANTS a, b, c

ProcSymmetry == Permutations(Procs)
============================================================================
