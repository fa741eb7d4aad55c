-------------------------------- MODULE Table --------------------------------
(***************************************************************************)
(* What one in-memory table (src/include/skiplist/skiplist.h) promises to  *)
(* its callers, as operators on a table value: the map it stores and the   *)
(* byte count it keeps.  SkipList.tla shows that the linked structure      *)
(* implements it; MemTable.tla uses it for its tables.                     *)
(*                                                                         *)
(* A key is its rank in the order of std::string, and rank 0 is the empty  *)
(* string.  Value 0 is the empty value, which MemTable writes as the mark  *)
(* of a deletion.                                                          *)
(***************************************************************************)
EXTENDS Integers, FiniteSetsExt

CONSTANTS
  Key,       \* ranks of the keys
  KeyLen,    \* length of each key in bytes
  Value,     \* values, 0 is the empty one
  ValLen,    \* length of each value in bytes
  TrancId,   \* transaction ids, 0 means no transaction
  SizeMod,   \* size_t counts modulo this
  None       \* no entry

Entry == [value : Value, tranc_id : TrancId]
Map == [Key -> Entry \cup {None}]
TableType == [map : Map, bytes : Nat]

ASSUME TableAssumption ==
  /\ Key \subseteq Nat
  /\ KeyLen \in [Key -> Nat]
  /\ \A k \in Key : KeyLen[k] = 0 <=> k = 0
  /\ Value \subseteq Nat
  /\ 0 \in Value
  /\ ValLen \in [Value -> Nat]
  /\ \A v \in Value : ValLen[v] = 0 <=> v = 0
  /\ TrancId \subseteq Nat
  /\ 0 \in TrancId
  /\ SizeMod \in Nat \ {0}
  /\ None \notin Entry

EmptyTable == [map |-> [k \in Key |-> None], bytes |-> 0]

\* What one entry adds to the byte count: key, value and the transaction id.
EntryBytes(k, v) == KeyLen[k] + ValLen[v] + 8

(***************************************************************************)
(* SkipList::put.  A key that is present gets the new value and keeps the  *)
(* transaction id it was created with.                                     *)
(***************************************************************************)
TablePut(tbl, k, v, t) ==
  IF tbl.map[k] # None
  THEN [map   |-> [tbl.map EXCEPT ![k] =
                     [value |-> v, tranc_id |-> tbl.map[k].tranc_id]],
        bytes |-> (tbl.bytes + ValLen[v] - ValLen[tbl.map[k].value]) % SizeMod]
  ELSE [map   |-> [tbl.map EXCEPT ![k] = [value |-> v, tranc_id |-> t]],
        bytes |-> (tbl.bytes + EntryBytes(k, v)) % SizeMod]

\* SkipList::remove, the physical removal that no caller above uses.
TableRemove(tbl, k) ==
  IF tbl.map[k] = None
  THEN tbl
  ELSE [map   |-> [tbl.map EXCEPT ![k] = None],
        bytes |-> (tbl.bytes - EntryBytes(k, tbl.map[k].value)) % SizeMod]

(***************************************************************************)
(* What SkipList::get finds, seen through SkipListIterator::is_valid: an   *)
(* entry under the empty key is never a hit, and the transaction id of the *)
(* reader is not looked at.                                                *)
(***************************************************************************)
TableGet(tbl, k) == IF k = 0 THEN None ELSE tbl.map[k]

\* The bytes of a map's entries, counted afresh.
MapBytes(map) ==
  MapThenSumSet(LAMBDA k : EntryBytes(k, map[k].value),
                {k \in Key : map[k] # None})
==============================================================================
