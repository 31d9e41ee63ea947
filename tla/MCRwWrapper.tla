---------------------------- MODULE MCRwWrapper ----------------------------
(***************************************************************************)
(* Instances of RwWrapper for TLC.                                         *)
(***************************************************************************)
EXTENDS RwWrapper

CONSTANTS t1, v0, v1

AllWork == [t \in {t1} |-> Access \cup {"flush", "unmap"}]

\* A program that also loads, stores, flushes and evicts.
UserWork ==
  [calls |-> Functions, work |-> Access \cup {"flush", "unmap"}, sizes |-> {1},
   used |-> 2, policyMax |-> 1, stream |-> <<v1, v0>>]

\* An input that is long enough for the recursion of fread().
LongInput ==
  [calls |-> Functions, work |-> {"load", "flush", "unmap"}, sizes |-> {1},
   used |-> 3, policyMax |-> 2, stream |-> <<v1, v0, v0, v1>>]

\* Elements of two pages.
LargeElements ==
  [calls |-> {"fread"}, work |-> {}, sizes |-> {2},
   used |-> 4, policyMax |-> 4, stream |-> <<v1, v0, v0, v1, v1, v0>>]

CallPrograms == {UserWork, LongInput, LargeElements}

\* write(), and the loads and stores of the user.
WritePrograms ==
  {[calls |-> {"write"}, work |-> Access, sizes |-> {1}, used |-> 2,
    policyMax |-> 2, stream |-> <<>>]}


\* No segment of the storage reads as zeroes at first; the stores and the
\* evictions of the user make every other content of it.
FullStorage == {[s \in Segments |-> v1]}
EmptyStorage == {[s \in Segments |-> v0]}
============================================================================
