----------------------------- MODULE LevelIterator -----------------------------
(***************************************************************************)
(* Level_Iterator (src/src/lsm/level_iterator.cpp): the scan over memory   *)
(* and all levels of SSTs.  A writer fills the memory, flushes it to level *)
(* 0 and compacts level 0 into level 1; a client makes an iterator and     *)
(* runs it to its end.                                                     *)
(*                                                                         *)
(* The MemTable is one map here: HeapIterator.tla shows that its iterator  *)
(* reads it as one, as far as the ids of a key follow its tables.  The     *)
(* code behind flush, compaction and the iterators of an SST has no bodies *)
(* yet; what they do is taken from how they are called.  A scan within a   *)
(* transaction has an id no write is beyond.                               *)
(***************************************************************************)
EXTENDS Ascending, SequencesExt, FiniteSetsExt

CONSTANTS
  Key,        \* ranks of the keys, 0 is the empty string
  Value,      \* values, 0 is the empty one: a deletion
  None,       \* no entry
  ScanIds,    \* transaction ids a scan is made with, 0 for none
  SstKeys,    \* keys in one SST of level 1
  MaxWrites   \* bound on the writes

ASSUME LevelIteratorAssumption ==
  /\ Key \subseteq Nat
  /\ Value \subseteq Nat /\ 0 \in Value
  /\ None \notin Value
  /\ ScanIds \subseteq Nat
  /\ SstKeys \in Nat \ {0}
  /\ MaxWrites \in Nat

VARIABLES
  memtable,
  level0,        \* the SSTs of level 0, the latest id first
  level1,        \* those of level 1, by key range
  writes,        \* writes so far
  latest,        \* the value last written to each key (history)
  max_tranc_id_,
  iter_vec,      \* what each of the merged iterators has still to yield
  cached_value,
  emitted,       \* what the client has read so far
  promised       \* latest when the scan began (history)

tables == <<memtable, level0, level1>>
iterator == <<max_tranc_id_, iter_vec, cached_value, emitted, promised>>
vars == <<tables, writes, latest, iterator>>

Contents == [Key -> Value \cup {None}]
NoEntries == [k \in Key |-> None]

Over(newer, older) == [k \in Key |-> IF newer[k] # None THEN newer[k] ELSE older[k]]
Present(map) == {k \in Key : map[k] # None}

\* The entries of some keys of a map, in the order of the keys.
Pair == [key : Key, value : Value]
EntriesOf(map, keys) ==
  LET sorted == Ascending(keys)
  IN  [i \in DOMAIN sorted |-> [key |-> sorted[i], value |-> map[sorted[i]]]]
Entries(map) == EntriesOf(map, Present(map))

-----------------------------------------------------------------------------
(* The iterators that are merged.                                          *)

Live(map) == {k \in Present(map) : map[k] # 0}

\* A HeapIterator over the entries of a map: with no transaction it never stops
\* on a deletion, within one it only drops those it starts with.
HeapEntries(map, id) ==
  EntriesOf(map, IF id = 0 THEN Live(map)
                 ELSE {k \in Present(map) : \E l \in Live(map) : l <= k})

\* The SSTs of a list that have a key.
Hits(list, k) == {i \in DOMAIN list : list[i][k] # None}

\* Fault: ids of SSTs are compared as they are, so the oldest wins.
Level0OldestFirst(list) ==
  [k \in Key |-> IF Hits(list, k) = {} THEN None ELSE list[Max(Hits(list, k))][k]]

\* Items of level 0 have the negated id of their SST as index and all the same
\* transaction id, so the latest SST decides.
Level0(list) ==
  [k \in Key |-> IF Hits(list, k) = {} THEN None ELSE list[Min(Hits(list, k))][k]]

\* One ConcactIterator for every SST of the level, over that SST and those
\* before it.
LevelIterators(list) ==
  [i \in DOMAIN list |-> FlattenSeq([j \in 1 .. i |-> Entries(list[j])])]

-----------------------------------------------------------------------------
is_end(iters) == \A i \in DOMAIN iters : iters[i] = << >>

\* The first iterator with the least key.  An empty min_key counts as none yet.
\* On equal keys the transaction ids decide, but every iterator reports the id
\* of the scan, so the first one stays.
get_min_key_idx(iters) ==
  LET min[i \in 0 .. Len(iters)] ==
        IF i = 0 THEN [key |-> 0, idx |-> 1]
        ELSE IF /\ iters[i] # << >>
                /\ \/ min[i - 1].key = 0
                   \/ Head(iters[i]).key < Head(iters[min[i - 1].idx]).key
             THEN [key |-> Head(iters[i]).key, idx |-> i]
             ELSE min[i - 1]
  IN  min[Len(iters)].idx

\* The entry on which the merge stands.
Top(iters) == Head(iters[get_min_key_idx(iters)])

\* Fault: only the iterator that yielded the key moves on.
skip_key_once(iters, key) ==
  LET i == get_min_key_idx(iters)
  IN  IF is_end(iters) THEN iters ELSE [iters EXCEPT ![i] = Tail(@)]

\* Every iterator that stands on the key moves on; each has a key once.
skip_key(iters, key) ==
  [i \in DOMAIN iters |->
     IF iters[i] # << >> /\ Head(iters[i]).key = key THEN Tail(iters[i]) ELSE iters[i]]

\* Fault: one deletion is skipped, not all that follow each other.
SettleOnce(iters, cached) ==
  LET deleted == ~is_end(iters) /\ Top(iters).value = 0
      rest == IF deleted THEN skip_key(iters, Top(iters).key) ELSE iters
  IN  [iters |-> rest, cached |-> IF is_end(rest) THEN cached ELSE Top(rest)]

\* The loop that ends the constructor and operator++: go to the least key,
\* remember its entry, go on if it is a deletion.
Settle(iters, cached) ==
  LET settled[s \in Seq(Seq(Pair)) \X (Pair \cup {None})] ==
        IF is_end(s[1]) THEN [iters |-> s[1], cached |-> s[2]]
        ELSE IF Top(s[1]).value = 0
        THEN settled[<<skip_key(s[1], Top(s[1]).key), Top(s[1])>>]
        ELSE [iters |-> s[1], cached |-> Top(s[1])]
  IN  settled[<<iters, cached>>]

-----------------------------------------------------------------------------
Init ==
  /\ memtable = NoEntries
  /\ level0 = << >> /\ level1 = << >>
  /\ writes = 0
  /\ latest = NoEntries
  /\ max_tranc_id_ = 0
  /\ iter_vec = << >>
  /\ cached_value = None
  /\ emitted = << >>
  /\ promised = NoEntries

Scanning == iter_vec # << >>

\* A put or a remove; the copy an iterator works on does not change.
Write ==
  /\ writes < MaxWrites
  /\ writes' = writes + 1
  /\ \E k \in Key, v \in Value :
       /\ memtable' = [memtable EXCEPT ![k] = v]
       /\ latest' = [latest EXCEPT ![k] = v]
  /\ UNCHANGED <<level0, level1, iterator>>

\* Flush and compaction change the SSTs and wait for ssts_mtx, which an
\* iterator holds shared as long as it lives.
Flush ==
  /\ ~Scanning
  /\ memtable # NoEntries
  /\ level0' = <<memtable>> \o level0
  /\ memtable' = NoEntries
  /\ UNCHANGED <<level1, writes, latest, iterator>>

Compact ==
  LET merged == Over(Level0(level0), Level0(level1))
      sorted == Ascending(Present(merged))
      chunk(n) == {sorted[i] : i \in {i \in DOMAIN sorted : (i - 1) \div SstKeys = n - 1}}
      chunks == (Len(sorted) + SstKeys - 1) \div SstKeys
  IN
  /\ ~Scanning
  /\ level0 # << >>
  /\ level0' = << >>
  /\ level1' = [n \in 1 .. chunks |->
                  [k \in Key |-> IF k \in chunk(n) THEN merged[k] ELSE None]]
  /\ UNCHANGED <<memtable, writes, latest, iterator>>

\* The constructor.
begin ==
  \E id \in ScanIds :
    LET iters == <<HeapEntries(memtable, id), HeapEntries(Level0(level0), id)>>
                   \o LevelIterators(level1)
        start == Settle(iters, None)
    IN
    /\ ~Scanning
    /\ max_tranc_id_' = id
    /\ iter_vec' = start.iters
    /\ cached_value' = start.cached
    /\ promised' = latest
    /\ UNCHANGED <<tables, writes, latest, emitted>>

\* operator* and operator++.
Read ==
  LET next == Settle(skip_key(iter_vec, cached_value.key), cached_value) IN
  /\ Scanning /\ ~is_end(iter_vec)
  /\ emitted' = Append(emitted, cached_value)
  /\ iter_vec' = next.iters
  /\ cached_value' = next.cached
  /\ UNCHANGED <<tables, writes, latest, max_tranc_id_, promised>>

End ==
  /\ Scanning /\ is_end(iter_vec)
  /\ max_tranc_id_' = 0
  /\ iter_vec' = << >> /\ cached_value' = None /\ emitted' = << >>
  /\ promised' = NoEntries
  /\ UNCHANGED <<tables, writes, latest>>

Next == Write \/ Flush \/ Compact \/ begin \/ Read \/ End

Spec == Init /\ [][Next]_vars

-----------------------------------------------------------------------------
(* Properties.                                                             *)

\* Tables, iterators and pairs have their types, and an iterator that is not at
\* its end stands on an entry that is not a deletion.
TypeOK ==
  /\ memtable \in Contents
  /\ level0 \in Seq(Contents) /\ level1 \in Seq(Contents)
  /\ writes \in 0 .. MaxWrites
  /\ latest \in Contents
  /\ max_tranc_id_ \in ScanIds \cup {0}
  /\ iter_vec \in Seq(Seq(Pair))
  /\ cached_value \in Pair \cup {None}
  /\ ~is_end(iter_vec) => cached_value \in [key : Key, value : Value \ {0}]
  /\ emitted \in Seq(Pair)
  /\ promised \in Contents

\* A scan shows keys in ascending order and none of them twice, although the
\* same key may stand in the memory, in several SSTs of level 0 and, because a
\* ConcactIterator is made for every SST of a level over the SSTs so far, in
\* several iterators of the same SST.
AscendingOnce ==
  \A i, j \in DOMAIN emitted : i < j => emitted[i].key < emitted[j].key

\* A scan misses no key that was there when it began and shows the latest of
\* its values, whichever level holds older ones and whatever is written
\* meanwhile; and it makes nothing up.
LiveKeysShown ==
  Scanning =>
    /\ \A i \in DOMAIN emitted :
         LET e == emitted[i] IN promised[e.key] # None /\ promised[e.key] \in {e.value, 0}
    /\ is_end(iter_vec) =>
         \A k \in Key : promised[k] \notin {None, 0} =>
           \E i \in DOMAIN emitted : emitted[i].key = k

\* The comment in the constructor: an empty value says that the key is deleted
\* and has to be skipped.  So no scan shows a key whose last write deleted it.
DeletedStayDeleted ==
  Scanning => \A i \in DOMAIN emitted : promised[emitted[i].key] # 0
==============================================================================
