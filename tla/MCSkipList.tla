------------------------------ MODULE MCSkipList ------------------------------
(* Instance of SkipList for TLC: keys "", 1 byte and 2 bytes long.         *)
EXTENDS SkipList

MCKeyLen == [k \in Key |-> k]
MCValLen == [v \in Value |-> 2 * v]
==============================================================================
