------------------------------ MODULE OrderedMap ------------------------------
(***************************************************************************)
(* The abstract specification of a SkipList object, as a caller without a  *)
(* transaction may rely on it: for every key the value it was last given,  *)
(* a byte count that follows, and the three operations that change them.   *)
(***************************************************************************)
EXTENDS Table

VARIABLE table

Init == table = EmptyTable

\* The key has the new value, under some transaction id.  Which id that is, and what a
\* reader with an id finds of the value replaced, is left open: skiplist.h:126 and the
\* test TransactionId keep it readable, and the code keeps neither it nor the new id.
Put ==
  \E k \in Key, v \in Value, t \in TrancId :
    table' = [TablePut(table, k, v, t) EXCEPT !.map[k].tranc_id = t]

Remove == \E k \in Key : table' = TableRemove(table, k)

Clear == table' = EmptyTable

Next == Put \/ Remove \/ Clear

Spec == Init /\ [][Next]_table
==============================================================================
