--------------------------- MODULE MCMappingLive ---------------------------
(***************************************************************************)
(* Instances of MappingLive for TLC.                                       *)
(***************************************************************************)
EXTENDS MappingLive, TLC

CONSTANTS t1, t2, v0, v1

\* Two threads that do everything; dropping and marking is for one of them.
AllWork == (t1 :> Operations) @@ (t2 :> Operations \ {"drop", "dirty"})
============================================================================
