----------------------------- MODULE HeapIterator -----------------------------
(***************************************************************************)
(* HeapIterator (src/src/iterator/iterator.cpp): the merge behind every    *)
(* range scan of a MemTable, and behind SstIterator::merge_sst_iterator.   *)
(* A writer fills and freezes tables, then a client makes an iterator over *)
(* a copy of their entries, or over the SSTs that the tables have become,  *)
(* and runs it to its end.  The heap is the binary heap of                 *)
(* std::priority_queue with std::greater, element by element, because      *)
(* operator> is not an order on every pair of items, and which copy of a   *)
(* key then comes out first depends on where the heap has put them.        *)
(***************************************************************************)
EXTENDS Table, Ascending, SequencesExt

CONSTANTS
  ScanIds,    \* transaction ids a scan is made with, 0 for none
  MaxTables,  \* bound on the tables, the active one included
  MaxWrites   \* bound on the writes

ASSUME HeapIteratorAssumption ==
  /\ ScanIds \subseteq Nat
  /\ MaxTables \in Nat \ {0}
  /\ MaxWrites \in Nat
  /\ 0 .. MaxWrites \subseteq Value

VARIABLES
  tbls,          \* the active table, then the frozen ones, newest first
  writes,        \* how many there have been
  scanning,      \* what a client holds: "none", a "scan" or a "merge"
  max_tranc_id,
  heap,          \* items of the iterator, the root first
  emitted        \* what the client has read so far

vars == <<tbls, writes, scanning, max_tranc_id, heap, emitted>>

-----------------------------------------------------------------------------
(* SearchItem.  level_ is 0 for every item of a MemTable.                  *)

\* Fault: the copy in the older table goes first.
GreaterOldestFirst(a, b) ==
  IF a.key # b.key THEN a.key > b.key
  ELSE a.tranc_id > b.tranc_id \/ a.idx < b.idx

Greater(a, b) ==
  IF a.key # b.key THEN a.key > b.key
  ELSE a.tranc_id < b.tranc_id \/ a.idx > b.idx

\* What a client may be shown, and what the iterator sorts.
Pair == [key : Key, value : Value]
Items == [key : Key, value : Value, tranc_id : TrancId, idx : Int]

\* The entries of a table, as items, in the order of their keys.
ItemsOf(map, idx) ==
  LET sorted == Ascending({k \in Key : map[k] # None})
  IN  [j \in DOMAIN sorted |->
         [key |-> sorted[j], value |-> map[sorted[j]].value,
          tranc_id |-> map[sorted[j]].tranc_id, idx |-> idx]]

\* Fault: the table index is counted before the first table.
ItemVectorFromOne(list) == FlattenSeq([i \in DOMAIN list |-> ItemsOf(list[i].map, i)])

\* The vector that MemTable::begin builds.
ItemVector(list) == FlattenSeq([i \in DOMAIN list |-> ItemsOf(list[i].map, i - 1)])

-----------------------------------------------------------------------------
(* std::priority_queue: push_heap, and pop_heap, which moves the hole at   *)
(* the root down to a leaf and then the last item up from there.           *)

States == Seq(Items) \X (Nat \ {0})  \* a heap and where its hole is

SiftUp(h, hole, item) ==
  LET up[s \in States] ==
        LET g == s[1]
            at == s[2]
            parent == at \div 2
        IN  IF at > 1 /\ Greater(g[parent], item)
            THEN up[<<[g EXCEPT ![at] = g[parent]], parent>>]
            ELSE [g EXCEPT ![at] = item]
  IN  up[<<h, hole>>]

SiftDown(h, hole, item) ==
  LET down[s \in States] ==
        LET g == s[1]
            at == s[2]
            left == 2 * at
            right == left + 1
            child == IF right <= Len(g) /\ ~Greater(g[right], g[left]) THEN right ELSE left
        IN  IF left <= Len(g)
            THEN down[<<[g EXCEPT ![at] = g[child]], child>>]
            ELSE SiftUp(g, at, item)
  IN  down[<<h, hole>>]

Push(h, item) == SiftUp(Append(h, item), Len(h) + 1, item)

Pop(h) == IF Len(h) = 1 THEN << >> ELSE SiftDown(Front(h), 1, Last(h))

\* The heap that the items of a vector make, pushed one by one.
PushAll(vec) ==
  LET pushed[n \in 0 .. Len(vec)] == IF n = 0 THEN << >> ELSE Push(pushed[n - 1], vec[n])
  IN  pushed[Len(vec)]

-----------------------------------------------------------------------------
(* The iterator.                                                           *)

DropKey(h, key) ==
  LET drop[g \in Seq(Items)] == IF g # << >> /\ Head(g).key = key THEN drop[Pop(g)] ELSE g
  IN  drop[h]

\* Keys whose first item is a tombstone go with all their items.
SkipDeleted(h) ==
  LET skip[g \in Seq(Items)] ==
        IF g # << >> /\ Head(g).value = 0 THEN skip[DropKey(g, Head(g).key)] ELSE g
  IN  skip[h]

\* Fault: the id is not negated.
SstIndexPlain(i) == MaxTables - i

\* The index of an item of table i when it has become an SST: its id, negated.
SstIndex(i) == -(MaxTables - i)

\* The items of the SSTs in the order given; all get the same transaction id.
SstItems(order) ==
  FlattenSeq([j \in DOMAIN order |->
    LET items == ItemsOf(tbls[order[j]].map, SstIndex(order[j]))
    IN  [n \in DOMAIN items |-> [items[n] EXCEPT !.tranc_id = 0]]])

Construct(vec) == SkipDeleted(PushAll(vec))

\* A deleted value at the top is legal when the scan has a transaction id.
top_value_legal(h) == h = << >> \/ max_tranc_id # 0 \/ Head(h).value # 0

Increment(h) ==
  LET rest == DropKey(Pop(h), Head(h).key)
  IN  IF top_value_legal(rest) THEN rest ELSE SkipDeleted(rest)

-----------------------------------------------------------------------------
Init ==
  /\ tbls = <<EmptyTable>>
  /\ writes = 0
  /\ scanning = "none"
  /\ max_tranc_id = 0
  /\ heap = << >>
  /\ emitted = << >>

\* A put, of a value named after it, or a remove (value 0).  A table stores the id
\* that comes with the call: LSM takes it before the engine inserts, uses one id
\* for a whole batch and 0 for a put without a transaction, so that a later write
\* may well have the lower id.
Write ==
  /\ scanning = "none"
  /\ writes < MaxWrites
  /\ writes' = writes + 1
  /\ \E k \in Key, v \in {0, writes'}, t \in TrancId :
       tbls' = [tbls EXCEPT ![1] = TablePut(@, k, v, t)]
  /\ UNCHANGED <<scanning, max_tranc_id, heap, emitted>>

Freeze ==
  /\ scanning = "none"
  /\ Len(tbls) < MaxTables
  /\ tbls' = <<EmptyTable>> \o tbls
  /\ UNCHANGED <<writes, scanning, max_tranc_id, heap, emitted>>

begin ==
  /\ scanning = "none"
  /\ scanning' = "scan"
  /\ max_tranc_id' \in ScanIds
  /\ heap' = Construct(ItemVector(tbls))
  /\ UNCHANGED <<tbls, writes, emitted>>

\* The pairs are pushed one by one, in whatever order the caller has the
\* iterators, and a tombstone that comes out on top is not skipped.
merge_sst_iterator ==
  /\ scanning = "none"
  /\ scanning' = "merge"
  /\ LET newest == [i \in DOMAIN tbls |-> i]
     IN  \E order \in {newest, Reverse(newest)} :
           heap' = PushAll(SstItems(order))
  /\ UNCHANGED <<tbls, writes, max_tranc_id, emitted>>

\* operator* and operator++.
Read ==
  /\ scanning # "none"
  /\ heap # << >>
  /\ emitted' = Append(emitted, [key |-> Head(heap).key, value |-> Head(heap).value])
  /\ heap' = Increment(heap)
  /\ UNCHANGED <<tbls, writes, scanning, max_tranc_id>>

End ==
  /\ scanning # "none"
  /\ heap = << >>
  /\ scanning' = "none"
  /\ emitted' = << >>
  /\ max_tranc_id' = 0
  /\ UNCHANGED <<tbls, writes, heap>>

Next == Write \/ Freeze \/ begin \/ merge_sst_iterator \/ Read \/ End

Spec == Init /\ [][Next]_vars

-----------------------------------------------------------------------------
(* Properties.                                                             *)

\* The indexes of items: a scan has those of the list, a merge those of SSTs.
Indexes(how) == IF how = "merge" THEN 1 - MaxTables .. 0 ELSE 0 .. MaxTables - 1

\* The tables, the items in the heap and the pairs read have their types, and each
\* item the index of a table.
TypeOK ==
  /\ tbls \in Seq(TableType) /\ Len(tbls) \in 1 .. MaxTables
  /\ writes \in 0 .. MaxWrites
  /\ scanning \in {"none", "scan", "merge"}
  /\ max_tranc_id \in ScanIds \cup {0}
  /\ heap \in Seq(Items) /\ \A i \in DOMAIN heap : heap[i].idx \in Indexes(scanning)
  /\ emitted \in Seq(Pair)

\* What MemTable::get answers for a key: the copy in the newest table.
Newest(k) ==
  LET hits == {i \in DOMAIN tbls : tbls[i].map[k] # None}
  IN  IF hits = {} THEN 0 ELSE tbls[Min(hits)].map[k].value

Shown(keys) ==
  LET sorted == Ascending(keys)
  IN  [i \in DOMAIN sorted |-> [key |-> sorted[i], value |-> Newest(sorted[i])]]

Stored == {k \in Key : \E i \in DOMAIN tbls : tbls[i].map[k] # None}
Live   == {k \in Stored : Newest(k) # 0}

\* The ids of a key are in step with the order of the tables: no older copy has a
\* higher one.
InStep(k) ==
  \A i, j \in DOMAIN tbls :
    (i < j /\ tbls[i].map[k] # None /\ tbls[j].map[k] # None)
      => tbls[i].map[k].tranc_id >= tbls[j].map[k].tranc_id

\* The iterator stands behind the key.
Passed(k) == heap = << >> \/ k < Head(heap).key

\* A pair that some table holds and, if the ids of its key are in step, that get would
\* find.
Showable(pair) ==
  /\ \E i \in DOMAIN tbls :
       tbls[i].map[pair.key] # None /\ tbls[i].map[pair.key].value = pair.value
  /\ InStep(pair.key) => pair.value = Newest(pair.key)

\* A scan reads keys in ascending order and none twice, never a value that no table
\* holds and, without a transaction id, never a deletion.  Every key whose ids are
\* in step with the tables is read with the value that get would find, and is not
\* passed over if it has one, however its versions are spread over the tables,
\* wherever the heap has put them, and although other keys have ids for which
\* operator> (iterator.cpp:30) is no order.  Whether a scan with a transaction id
\* shows deletions is left open, and which copy of a key with ids out of step it
\* finds.
ScanMatchesGet ==
  scanning = "scan" =>
    /\ \A i, j \in DOMAIN emitted : i < j => emitted[i].key < emitted[j].key
    /\ \A i \in DOMAIN emitted :
         /\ Passed(emitted[i].key) /\ Showable(emitted[i])
         /\ max_tranc_id = 0 => emitted[i].value # 0
    /\ \A k \in Live : InStep(k) /\ Passed(k) => \E i \in DOMAIN emitted : emitted[i].key = k

\* What a merge yields: the live keys, and the first key even if it is deleted.
Merged == Shown({k \in Stored : k \in Live \/ k = Min(Stored)})

\* A merge of SSTs yields every key once, in ascending order, with the value of
\* the SST with the highest id, in whatever order the SSTs are given and although
\* their items are told apart by the negated id alone (sst_iterator.cpp:111).  Of
\* the deleted keys it yields the one before all others, which only the
\* constructor of HeapIterator would skip, and no other.
MergeMatchesGet ==
  scanning = "merge" => /\ IsPrefix(emitted, Merged)
                        /\ heap = << >> => emitted = Merged
==============================================================================
