----------------------------- MODULE MCBacking -----------------------------
(***************************************************************************)
(* Instances of Backing for TLC.                                           *)
(***************************************************************************)
EXTENDS Backing

CONSTANTS f1, f2, v0, v1
============================================================================
