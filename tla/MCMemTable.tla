------------------------------ MODULE MCMemTable ------------------------------
(* Instance of MemTable for TLC: every key and every value is one byte, so *)
(* an entry takes ten bytes, a tombstone nine.                             *)
EXTENDS MemTable

CONSTANT WriteCalls  \* calls of a thread that writes; the others make one

MCKeyLen == [k \in Key |-> IF k = 0 THEN 0 ELSE 1]
MCValLen == [v \in Value |-> IF v = 0 THEN 0 ELSE 1]
MCBatches == {<<[key |-> 1, value |-> 1], [key |-> 2, value |-> 1]>>}
NoBatches == {}
MCMaxCalls == [t \in Thread |-> IF t \in Writers THEN WriteCalls ELSE 1]
==============================================================================
