---------------------------- MODULE MCQuotaLocal ----------------------------
(***************************************************************************)
(* Instances of QuotaLocal for TLC.                                        *)
(***************************************************************************)
EXTENDS QuotaLocal

CONSTANTS t1, t2, p1, p2

AllFifo == [p \in Policies |-> "fifo"]
AllWindow == [p \in Policies |-> "window"]

Ones == [p \in Policies |-> 1]
Sixes == [p \in Policies |-> 6]
Threes == [p \in Policies |-> 3]
OneAndTwo == [p \in Policies |-> IF p = p1 THEN 1 ELSE 2]

Pair == <<p1, p2>>
============================================================================
