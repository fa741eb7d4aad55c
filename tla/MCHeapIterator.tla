---------------------------- MODULE MCHeapIterator ----------------------------
(* Instance of HeapIterator for TLC.                                       *)
EXTENDS HeapIterator

MCKeyLen == [k \in Key |-> k]
MCValLen == [v \in Value |-> v]
==============================================================================
