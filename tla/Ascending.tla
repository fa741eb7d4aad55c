------------------------------ MODULE Ascending ------------------------------
(***************************************************************************)
(* The order in which a sorted container is walked.                        *)
(***************************************************************************)
EXTENDS Integers, FiniteSets

\* The members of a finite set of numbers, the least first: the i-th is the one
\* with i members up to it.
Ascending(S) ==
  [i \in 1 .. Cardinality(S) |-> CHOOSE x \in S : Cardinality({y \in S : y <= x}) = i]
==============================================================================
