------------------------------- MODULE MemTable -------------------------------
(***************************************************************************)
(* MemTable (src/src/memtable/memtable.cpp) under concurrent callers: the  *)
(* active table, the list of frozen tables, and the two shared mutexes     *)
(* that guard them.  A table is a value of Table.tla; tables lists every   *)
(* table ever made, in order of creation, and a shared_ptr<SkipList> is an *)
(* index into it.                                                          *)
(*                                                                         *)
(* A thread runs one call at a time.  pc says where it is in the call; the *)
(* actions between two values of pc are the steps other threads can        *)
(* separate, because they end in a lock operation or touch data that some  *)
(* other path touches without the lock that guards it.                     *)
(***************************************************************************)
EXTENDS Table, Sequences

CONSTANTS
  Writers,          \* threads that call put, put_batch, remove, remove_batch
  Readers,          \* threads that call get, get_batch, begin and the like
  Sizers,           \* threads that call get_total_size
  Freezers,         \* threads that call frozen_cur_table
  Flushers,         \* threads that call flush_last
  Cleaners,         \* threads that call clear
  NoThread,         \* owner of a mutex nobody holds exclusively
  PerMemSizeLimit,  \* TomlConfig::getLsmPerMemSizeLimit
  Batches,          \* argument lists of put_batch: sequences of items
  KeySets,          \* argument lists of get_batch, and the keys of a range
  MaxCalls          \* calls each thread makes; bounds the model

Thread == Writers \cup Readers \cup Sizers \cup Freezers \cup Flushers \cup Cleaners

Item == [key : Key, value : Value]

ASSUME MemTableAssumption ==
  /\ NoThread \notin Thread
  /\ PerMemSizeLimit \in Nat
  /\ Batches \subseteq Seq(Item)
  /\ KeySets \subseteq SUBSET Key
  /\ MaxCalls \in [Thread -> Nat]

VARIABLES
  tables,        \* every table made so far
  current,       \* current_table
  frozen,        \* frozen_tables, the newest in front
  frozen_bytes,
  cur_mtx, frozen_mtx,
  pc,
  items,         \* what a writer still has to write
  tranc,         \* the writer's transaction id
  keys,          \* what a reader looks for
  ptr,           \* the table a thread has in hand, 0 for none
  out,           \* what a reader found, one map per table looked into
  size,          \* what a sizer has added up
  calls,         \* calls a thread has still to make
  sst,           \* what flush_last has handed to the SST builder
  latest,        \* last write to each key (history variable)
  seen           \* values of latest since a reader's call began (history)

shared == <<tables, current, frozen, frozen_bytes>>
locks == <<cur_mtx, frozen_mtx>>
locals == <<items, tranc, keys, ptr, out, size>>
history == <<sst, latest, seen>>
vars == <<shared, locks, pc, locals, calls, history>>

-----------------------------------------------------------------------------
(* std::shared_mutex as glibc builds it: readers enter whenever nobody     *)
(* holds the mutex exclusively, even if they are inside already.           *)

Unlocked == [writer |-> NoThread, readers |-> {}]

CanShare(m) == m.writer = NoThread
CanOwn(m) == m.writer = NoThread /\ m.readers = {}
Share(m, t) == [m EXCEPT !.readers = @ \cup {t}]
Unshare(m, t) == [m EXCEPT !.readers = @ \ {t}]
Own(m, t) == [m EXCEPT !.writer = t]
Disown(m) == [m EXCEPT !.writer = NoThread]

-----------------------------------------------------------------------------
(* Looking a key up: frozen_get_ walks the list from the front.            *)

Hits(order, k) == {i \in DOMAIN order : TableGet(tables[order[i]], k) # None}

FirstHit(order, k) ==
  IF Hits(order, k) = {} THEN 0
  ELSE order[CHOOSE i \in Hits(order, k) : \A j \in Hits(order, k) : i <= j]

Found(p, k) == IF p = 0 THEN None ELSE TableGet(tables[p], k)

-----------------------------------------------------------------------------
NoEntries == [k \in Key |-> None]

Init ==
  /\ tables = <<EmptyTable>>
  /\ current = 1
  /\ frozen = << >>
  /\ frozen_bytes = 0
  /\ cur_mtx = Unlocked /\ frozen_mtx = Unlocked
  /\ pc = [t \in Thread |-> "idle"]
  /\ items = [t \in Thread |-> << >>]
  /\ tranc = [t \in Thread |-> 0]
  /\ keys = [t \in Thread |-> {}]
  /\ ptr = [t \in Thread |-> 0]
  /\ out = [t \in Thread |-> << >>]
  /\ size = [t \in Thread |-> 0]
  /\ calls = MaxCalls
  /\ sst = NoEntries
  /\ latest = NoEntries
  /\ seen = [t \in Thread |-> {}]

Reading == {"g_lock", "g_cur", "g_frozen_lock", "g_frozen", "g_deref", "b_lock",
            "b_cur", "b_frozen_lock", "b_frozen", "g_done", "s_lock",
            "s_frozen_lock", "s_snapshot", "s_done"}

Goto(t, from, to) == pc[t] = from /\ pc' = [pc EXCEPT ![t] = to]

\* A thread enters a call.
Call(t, to) ==
  /\ Goto(t, "idle", to)
  /\ calls[t] > 0
  /\ calls' = [calls EXCEPT ![t] = @ - 1]
  /\ UNCHANGED <<shared, locks, sst, latest>>

-----------------------------------------------------------------------------
(* put, put_batch, remove, remove_batch: take cur_mtx, write every item    *)
(* through current_table, freeze the table when it has outgrown the limit. *)

StartWrite(t, list, id) ==
  /\ t \in Writers
  /\ Call(t, "w_lock")
  /\ items' = [items EXCEPT ![t] = list]
  /\ tranc' = [tranc EXCEPT ![t] = id]
  /\ UNCHANGED <<keys, ptr, out, size, seen>>

put(t) ==
  \E k \in Key, v \in Value, id \in TrancId :
    StartWrite(t, <<[key |-> k, value |-> v]>>, id)

put_batch(t) == \E list \in Batches, id \in TrancId : StartWrite(t, list, id)

remove(t) ==
  \E k \in Key, id \in TrancId : StartWrite(t, <<[key |-> k, value |-> 0]>>, id)

remove_batch(t) ==
  \E list \in Batches, id \in TrancId :
    StartWrite(t, [i \in DOMAIN list |-> [list[i] EXCEPT !.value = 0]], id)

\* Fault: nobody waits for the lock.
WriteLockUnguarded(t) ==
  /\ Goto(t, "w_lock", IF items[t] = << >> THEN "w_check" ELSE "w_insert")
  /\ cur_mtx' = Own(cur_mtx, t)
  /\ ptr' = [ptr EXCEPT ![t] = current]
  /\ UNCHANGED <<shared, frozen_mtx, items, tranc, keys, out, size, calls, history>>

\* The lock, and the pointer that put_ reads first.
WriteLock(t) ==
  /\ Goto(t, "w_lock", IF items[t] = << >> THEN "w_check" ELSE "w_insert")
  /\ CanOwn(cur_mtx)
  /\ cur_mtx' = Own(cur_mtx, t)
  /\ ptr' = [ptr EXCEPT ![t] = current]
  /\ UNCHANGED <<shared, frozen_mtx, items, tranc, keys, out, size, calls, history>>

\* The readers whose call is under way see the new value of latest.
Observe(map) ==
  seen' = [t \in Thread |-> IF pc[t] \in Reading THEN seen[t] \cup {map} ELSE seen[t]]

WriteInsert(t) ==
  LET k == items[t][1].key
      tbl == TablePut(tables[ptr[t]], k, items[t][1].value, tranc[t]) IN
  /\ Goto(t, "w_insert", IF Len(items[t]) > 1 THEN "w_next" ELSE "w_check")
  /\ tables' = [tables EXCEPT ![ptr[t]] = tbl]
  /\ latest' = [latest EXCEPT ![k] = tbl.map[k]]
  /\ Observe(latest')
  /\ items' = [items EXCEPT ![t] = Tail(@)]
  /\ UNCHANGED <<current, frozen, frozen_bytes, locks, tranc, keys, ptr, out,
                 size, calls, sst>>

\* The next item of a batch goes through current_table again.
WriteNext(t) ==
  /\ Goto(t, "w_next", "w_insert")
  /\ ptr' = [ptr EXCEPT ![t] = current]
  /\ UNCHANGED <<shared, locks, items, tranc, keys, out, size, calls, history>>

OverLimit == tables[current].bytes > PerMemSizeLimit

WriteReturn(t) ==
  /\ Goto(t, "w_check", "idle")
  /\ ~OverLimit
  /\ cur_mtx' = Disown(cur_mtx)
  /\ ptr' = [ptr EXCEPT ![t] = 0]
  /\ UNCHANGED <<shared, frozen_mtx, items, tranc, keys, out, size, calls, history>>

WriteFull(t) ==
  /\ Goto(t, "w_check", "z_freeze_lock")
  /\ OverLimit
  /\ UNCHANGED <<shared, locks, locals, calls, history>>

-----------------------------------------------------------------------------
(* frozen_cur_table, and the end of a write that filled the table: with    *)
(* cur_mtx held, take frozen_mtx and move the active table to the front.   *)

frozen_cur_table(t) ==
  /\ t \in Freezers
  /\ Call(t, "z_lock")
  /\ UNCHANGED <<locals, seen>>

FreezeCurLock(t) ==
  /\ Goto(t, "z_lock", "z_freeze_lock")
  /\ CanOwn(cur_mtx)
  /\ cur_mtx' = Own(cur_mtx, t)
  /\ UNCHANGED <<shared, frozen_mtx, locals, calls, history>>

FreezeLock(t) ==
  /\ Goto(t, "z_freeze_lock", "z_freeze")
  /\ CanOwn(frozen_mtx)
  /\ frozen_mtx' = Own(frozen_mtx, t)
  /\ UNCHANGED <<shared, cur_mtx, locals, calls, history>>

\* Fault: the frozen table goes to the back of the list.
FreezeAtBack(t) ==
  /\ Goto(t, "z_freeze", "idle")
  /\ frozen_bytes' = (frozen_bytes + tables[current].bytes) % SizeMod
  /\ frozen' = frozen \o <<current>>
  /\ tables' = Append(tables, EmptyTable)
  /\ current' = Len(tables) + 1
  /\ cur_mtx' = Disown(cur_mtx)
  /\ frozen_mtx' = Disown(frozen_mtx)
  /\ ptr' = [ptr EXCEPT ![t] = 0]
  /\ UNCHANGED <<items, tranc, keys, out, size, calls, history>>

\* Fault: no new table is made.
FreezeMovesOut(t) ==
  /\ Goto(t, "z_freeze", "idle")
  /\ frozen_bytes' = (frozen_bytes + tables[current].bytes) % SizeMod
  /\ frozen' = <<current>> \o frozen
  /\ current' = 0
  /\ cur_mtx' = Disown(cur_mtx)
  /\ frozen_mtx' = Disown(frozen_mtx)
  /\ ptr' = [ptr EXCEPT ![t] = 0]
  /\ UNCHANGED <<tables, items, tranc, keys, out, size, calls, history>>

\* frozen_cur_table_ and the release of both locks.
Freeze(t) ==
  /\ Goto(t, "z_freeze", "idle")
  /\ frozen_bytes' = (frozen_bytes + tables[current].bytes) % SizeMod
  /\ frozen' = <<current>> \o frozen
  /\ tables' = Append(tables, EmptyTable)
  /\ current' = Len(tables) + 1
  /\ cur_mtx' = Disown(cur_mtx)
  /\ frozen_mtx' = Disown(frozen_mtx)
  /\ ptr' = [ptr EXCEPT ![t] = 0]
  /\ UNCHANGED <<items, tranc, keys, out, size, calls, history>>

-----------------------------------------------------------------------------
(* clear: both locks, no frozen table left, the active table emptied.  An  *)
(* iterator handed out before keeps the old nodes alive, so the emptied    *)
(* table gets an index of its own.  frozen_bytes keeps its value.          *)

clear(t) ==
  /\ t \in Cleaners
  /\ Call(t, "c_lock")
  /\ UNCHANGED <<locals, seen>>

ClearCurLock(t) ==
  /\ Goto(t, "c_lock", "c_frozen_lock")
  /\ CanOwn(cur_mtx)
  /\ cur_mtx' = Own(cur_mtx, t)
  /\ UNCHANGED <<shared, frozen_mtx, locals, calls, history>>

\* Fault: clear waits for cur_mtx only after it has taken frozen_mtx.
ClearFrozenFirst(t) ==
  /\ Goto(t, "c_lock", "c_frozen_lock")
  /\ CanOwn(frozen_mtx)
  /\ frozen_mtx' = Own(frozen_mtx, t)
  /\ UNCHANGED <<shared, cur_mtx, locals, calls, history>>

ClearCurSecond(t) ==
  /\ Goto(t, "c_frozen_lock", "c_clear")
  /\ CanOwn(cur_mtx)
  /\ cur_mtx' = Own(cur_mtx, t)
  /\ UNCHANGED <<shared, frozen_mtx, locals, calls, history>>

ClearFrozenLock(t) ==
  /\ Goto(t, "c_frozen_lock", "c_clear")
  /\ CanOwn(frozen_mtx)
  /\ frozen_mtx' = Own(frozen_mtx, t)
  /\ UNCHANGED <<shared, cur_mtx, locals, calls, history>>

ClearTables(t) ==
  /\ Goto(t, "c_clear", "idle")
  /\ frozen' = << >>
  /\ tables' = Append(tables, EmptyTable)
  /\ current' = Len(tables) + 1
  /\ cur_mtx' = Disown(cur_mtx)
  /\ frozen_mtx' = Disown(frozen_mtx)
  /\ latest' = sst
  /\ Observe(latest')
  /\ UNCHANGED <<frozen_bytes, locals, calls, sst>>

-----------------------------------------------------------------------------
(* get: look into the active table under cur_mtx, drop it, then into the   *)
(* frozen tables under frozen_mtx.  The caller reads the value through the *)
(* iterator it gets back, after the lock is gone.                          *)

StartRead(t, ks, to) ==
  /\ t \in Readers
  /\ Call(t, to)
  /\ keys' = [keys EXCEPT ![t] = ks]
  /\ seen' = [seen EXCEPT ![t] = {latest}]
  /\ UNCHANGED <<items, tranc, ptr, out, size>>

get(t) == \E k \in Key : StartRead(t, {k}, "g_lock")

Wanted(t) == CHOOSE k \in keys[t] : TRUE

\* The acquisition of cur_mtx by a reader, and the later one of frozen_mtx.
ShareCur(t, from, to) ==
  /\ Goto(t, from, to)
  /\ CanShare(cur_mtx)
  /\ cur_mtx' = Share(cur_mtx, t)
  /\ UNCHANGED <<shared, frozen_mtx, locals, calls, history>>

ShareFrozen(t, from, to) ==
  /\ Goto(t, from, to)
  /\ CanShare(frozen_mtx)
  /\ frozen_mtx' = Share(frozen_mtx, t)
  /\ UNCHANGED <<shared, cur_mtx, locals, calls, history>>

\* Fault: a tombstone in the active table does not end the search.
GetCurSkipsTombstones(t) ==
  LET hit == FirstHit(<<current>>, Wanted(t))
      p == IF hit # 0 /\ Found(hit, Wanted(t)).value # 0 THEN hit ELSE 0 IN
  /\ Goto(t, "g_cur", IF p # 0 THEN "g_deref" ELSE "g_frozen_lock")
  /\ ptr' = [ptr EXCEPT ![t] = p]
  /\ cur_mtx' = Unshare(cur_mtx, t)
  /\ UNCHANGED <<shared, frozen_mtx, items, tranc, keys, out, size, calls, history>>

\* Fault: cur_mtx is not released when the key is not there.
GetCurKeepsLock(t) ==
  LET p == FirstHit(<<current>>, Wanted(t)) IN
  /\ Goto(t, "g_cur", IF p # 0 THEN "g_deref" ELSE "g_frozen_lock")
  /\ ptr' = [ptr EXCEPT ![t] = p]
  /\ cur_mtx' = IF p # 0 THEN Unshare(cur_mtx, t) ELSE cur_mtx
  /\ UNCHANGED <<shared, frozen_mtx, items, tranc, keys, out, size, calls, history>>

GetCur(t) ==
  LET p == FirstHit(<<current>>, Wanted(t)) IN
  /\ Goto(t, "g_cur", IF p # 0 THEN "g_deref" ELSE "g_frozen_lock")
  /\ ptr' = [ptr EXCEPT ![t] = p]
  /\ cur_mtx' = Unshare(cur_mtx, t)
  /\ UNCHANGED <<shared, frozen_mtx, items, tranc, keys, out, size, calls, history>>

GetFrozen(t) ==
  /\ Goto(t, "g_frozen", "g_deref")
  /\ ptr' = [ptr EXCEPT ![t] = FirstHit(frozen, Wanted(t))]
  /\ frozen_mtx' = Unshare(frozen_mtx, t)
  /\ UNCHANGED <<shared, cur_mtx, items, tranc, keys, out, size, calls, history>>

\* get_value and get_tranc_id on the iterator, no lock held.
GetDeref(t) ==
  /\ Goto(t, "g_deref", "g_done")
  /\ out' = [out EXCEPT ![t] =
               <<[k \in Key |-> IF k \in keys[t] THEN Found(ptr[t], k) ELSE None]>>]
  /\ UNCHANGED <<shared, locks, items, tranc, keys, ptr, size, calls, history>>

-----------------------------------------------------------------------------
(* get_batch: the same two phases for several keys; the values are copied  *)
(* while the lock is held.                                                 *)

get_batch(t) == \E ks \in KeySets : StartRead(t, ks, "b_lock")

BatchCur(t) ==
  LET found == [k \in Key |-> IF k \in keys[t] THEN TableGet(tables[current], k) ELSE None]
  IN
  /\ Goto(t, "b_cur", IF \A k \in keys[t] : found[k] # None THEN "g_done" ELSE "b_frozen_lock")
  /\ out' = [out EXCEPT ![t] = <<found>>]
  /\ cur_mtx' = Unshare(cur_mtx, t)
  /\ UNCHANGED <<shared, frozen_mtx, items, tranc, keys, ptr, size, calls, history>>

\* Fault: the frozen tables overrule the active one.
BatchFrozenOverrules(t) ==
  /\ Goto(t, "b_frozen", "g_done")
  /\ out' = [out EXCEPT ![t] =
               <<[k \in Key |-> IF k \in keys[t] /\ FirstHit(frozen, k) # 0
                                THEN Found(FirstHit(frozen, k), k)
                                ELSE out[t][1][k]]>>]
  /\ frozen_mtx' = Unshare(frozen_mtx, t)
  /\ UNCHANGED <<shared, cur_mtx, items, tranc, keys, ptr, size, calls, history>>

BatchFrozen(t) ==
  /\ Goto(t, "b_frozen", "g_done")
  /\ out' = [out EXCEPT ![t] =
               <<[k \in Key |-> IF k \in keys[t] /\ out[t][1][k] = None
                                THEN Found(FirstHit(frozen, k), k)
                                ELSE out[t][1][k]]>>]
  /\ frozen_mtx' = Unshare(frozen_mtx, t)
  /\ UNCHANGED <<shared, cur_mtx, items, tranc, keys, ptr, size, calls, history>>

-----------------------------------------------------------------------------
(* begin, iters_preffix and iters_monotony_predicate: under both locks,    *)
(* copy the entries of the range, table by table, the active one first,    *)
(* into the vector that HeapIterator merges.                               *)

begin(t) == StartRead(t, Key, "s_lock")

\* A prefix or a monotone predicate selects an interval of keys.
iters_range(t) ==
  \E lo, hi \in Key : StartRead(t, {k \in Key : lo <= k /\ k <= hi}, "s_lock")

\* Fault: the active table is numbered after the frozen ones.
ScanActiveLast(t) ==
  LET order == frozen \o <<current>> IN
  /\ Goto(t, "s_snapshot", "s_done")
  /\ out' = [out EXCEPT ![t] =
               [i \in DOMAIN order |->
                  [k \in Key |-> IF k \in keys[t] THEN tables[order[i]].map[k] ELSE None]]]
  /\ cur_mtx' = Unshare(cur_mtx, t)
  /\ frozen_mtx' = Unshare(frozen_mtx, t)
  /\ UNCHANGED <<shared, items, tranc, keys, ptr, size, calls, history>>

\* Fault: the frozen tables are left out.
ScanActiveOnly(t) ==
  /\ Goto(t, "s_snapshot", "s_done")
  /\ out' = [out EXCEPT ![t] =
               <<[k \in Key |-> IF k \in keys[t] THEN tables[current].map[k] ELSE None]>>]
  /\ cur_mtx' = Unshare(cur_mtx, t)
  /\ frozen_mtx' = Unshare(frozen_mtx, t)
  /\ UNCHANGED <<shared, items, tranc, keys, ptr, size, calls, history>>

ScanSnapshot(t) ==
  LET order == <<current>> \o frozen IN
  /\ Goto(t, "s_snapshot", "s_done")
  /\ out' = [out EXCEPT ![t] =
               [i \in DOMAIN order |->
                  [k \in Key |-> IF k \in keys[t] THEN tables[order[i]].map[k] ELSE None]]]
  /\ cur_mtx' = Unshare(cur_mtx, t)
  /\ frozen_mtx' = Unshare(frozen_mtx, t)
  /\ UNCHANGED <<shared, items, tranc, keys, ptr, size, calls, history>>

ReadReturn(t, from) ==
  /\ Goto(t, from, "idle")
  /\ ptr' = [ptr EXCEPT ![t] = 0]
  /\ keys' = [keys EXCEPT ![t] = {}]
  /\ out' = [out EXCEPT ![t] = << >>]
  /\ seen' = [seen EXCEPT ![t] = {}]
  /\ UNCHANGED <<shared, locks, items, tranc, size, calls, sst, latest>>

-----------------------------------------------------------------------------
(* get_total_size: holds both mutexes shared while get_frozen_size and     *)
(* get_cur_size take each of them shared once more.                        *)

get_total_size(t) ==
  /\ t \in Sizers
  /\ Call(t, "t_lock")
  /\ UNCHANGED <<locals, seen>>

SizeFrozen(t) ==
  /\ Goto(t, "t_frozen", "t_cur")
  /\ CanShare(frozen_mtx)
  /\ size' = [size EXCEPT ![t] = frozen_bytes]
  /\ UNCHANGED <<shared, locks, items, tranc, keys, ptr, out, calls, history>>

SizeCur(t) ==
  /\ Goto(t, "t_cur", "t_return")
  /\ CanShare(cur_mtx)
  /\ size' = [size EXCEPT ![t] = (@ + tables[current].bytes) % SizeMod]
  /\ UNCHANGED <<shared, locks, items, tranc, keys, ptr, out, calls, history>>

SizeReturn(t) ==
  /\ Goto(t, "t_return", "idle")
  /\ cur_mtx' = Unshare(cur_mtx, t)
  /\ frozen_mtx' = Unshare(frozen_mtx, t)
  /\ size' = [size EXCEPT ![t] = 0]
  /\ UNCHANGED <<shared, items, tranc, keys, ptr, out, calls, history>>

-----------------------------------------------------------------------------
(* flush_last: under frozen_mtx alone, freeze the active table if no table *)
(* is frozen, take the oldest one off the list and write it to an SST.     *)

flush_last(t) ==
  /\ t \in Flushers
  /\ Call(t, "f_lock")
  /\ UNCHANGED <<locals, seen>>

\* Fault: the list is taken to hold a table.
FlushLockUnchecked(t) ==
  /\ Goto(t, "f_lock", "f_pop")
  /\ CanOwn(frozen_mtx)
  /\ frozen_mtx' = Own(frozen_mtx, t)
  /\ UNCHANGED <<shared, cur_mtx, locals, calls, history>>

\* Fault: nobody waits for the lock.
FlushLockUnguarded(t) ==
  /\ Goto(t, "f_lock", IF frozen = << >> THEN "f_empty" ELSE "f_pop")
  /\ frozen_mtx' = Own(frozen_mtx, t)
  /\ UNCHANGED <<shared, cur_mtx, locals, calls, history>>

FlushLock(t) ==
  /\ Goto(t, "f_lock", IF frozen = << >> THEN "f_empty" ELSE "f_pop")
  /\ CanOwn(frozen_mtx)
  /\ frozen_mtx' = Own(frozen_mtx, t)
  /\ UNCHANGED <<shared, cur_mtx, locals, calls, history>>

FlushNothing(t) ==
  /\ Goto(t, "f_empty", "idle")
  /\ tables[current].bytes = 0
  /\ frozen_mtx' = Disown(frozen_mtx)
  /\ UNCHANGED <<shared, cur_mtx, locals, calls, history>>

FlushPush(t) ==
  /\ Goto(t, "f_empty", "f_swap")
  /\ tables[current].bytes # 0
  /\ frozen' = <<current>> \o frozen
  /\ frozen_bytes' = (frozen_bytes + tables[current].bytes) % SizeMod
  /\ UNCHANGED <<tables, current, locks, locals, calls, history>>

FlushSwap(t) ==
  /\ Goto(t, "f_swap", "f_pop")
  /\ tables' = Append(tables, EmptyTable)
  /\ current' = Len(tables) + 1
  /\ UNCHANGED <<frozen, frozen_bytes, locks, locals, calls, history>>

\* Fault: frozen_bytes keeps the bytes of the table that leaves.
FlushPopKeepsBytes(t) ==
  /\ Goto(t, "f_pop", "f_build")
  /\ ptr' = [ptr EXCEPT ![t] = frozen[Len(frozen)]]
  /\ frozen' = SubSeq(frozen, 1, Len(frozen) - 1)
  /\ UNCHANGED <<tables, current, frozen_bytes, locks, items, tranc, keys, out, size,
                 calls, history>>

\* Fault: the newest frozen table is written out first.
FlushPopFront(t) ==
  /\ Goto(t, "f_pop", "f_build")
  /\ ptr' = [ptr EXCEPT ![t] = frozen[1]]
  /\ frozen' = Tail(frozen)
  /\ frozen_bytes' = (frozen_bytes - tables[frozen[1]].bytes) % SizeMod
  /\ UNCHANGED <<tables, current, locks, items, tranc, keys, out, size, calls, history>>

FlushPop(t) ==
  LET oldest == frozen[Len(frozen)] IN
  /\ Goto(t, "f_pop", "f_build")
  /\ ptr' = [ptr EXCEPT ![t] = oldest]
  /\ frozen' = SubSeq(frozen, 1, Len(frozen) - 1)
  /\ frozen_bytes' = (frozen_bytes - tables[oldest].bytes) % SizeMod
  /\ UNCHANGED <<tables, current, locks, items, tranc, keys, out, size, calls, history>>

\* SkipList::flush into the builder; the SST is newer than those before it.
FlushBuild(t) ==
  LET data == tables[ptr[t]].map IN
  /\ Goto(t, "f_build", "idle")
  /\ sst' = [k \in Key |-> IF data[k] # None THEN data[k] ELSE sst[k]]
  /\ frozen_mtx' = Disown(frozen_mtx)
  /\ ptr' = [ptr EXCEPT ![t] = 0]
  /\ UNCHANGED <<shared, cur_mtx, items, tranc, keys, out, size, calls, latest, seen>>

-----------------------------------------------------------------------------
Write(t) ==
  \/ put(t) \/ put_batch(t) \/ remove(t) \/ remove_batch(t)
  \/ WriteLock(t) \/ WriteInsert(t) \/ WriteNext(t) \/ WriteReturn(t) \/ WriteFull(t)

FreezeStep(t) == frozen_cur_table(t) \/ FreezeCurLock(t) \/ FreezeLock(t) \/ Freeze(t)

\* Fault: clear takes the two locks in the other order.
ClearStepInverted(t) ==
  clear(t) \/ ClearFrozenFirst(t) \/ ClearCurSecond(t) \/ ClearTables(t)

ClearStep(t) == clear(t) \/ ClearCurLock(t) \/ ClearFrozenLock(t) \/ ClearTables(t)

Get(t) ==
  \/ get(t) \/ ShareCur(t, "g_lock", "g_cur") \/ GetCur(t)
  \/ ShareFrozen(t, "g_frozen_lock", "g_frozen") \/ GetFrozen(t) \/ GetDeref(t)
  \/ ReadReturn(t, "g_done")

GetBatch(t) ==
  \/ get_batch(t) \/ ShareCur(t, "b_lock", "b_cur") \/ BatchCur(t)
  \/ ShareFrozen(t, "b_frozen_lock", "b_frozen") \/ BatchFrozen(t)

Scan(t) ==
  \/ begin(t) \/ iters_range(t) \/ ShareCur(t, "s_lock", "s_frozen_lock")
  \/ ShareFrozen(t, "s_frozen_lock", "s_snapshot") \/ ScanSnapshot(t)
  \/ ReadReturn(t, "s_done")

TotalSize(t) ==
  \/ get_total_size(t) \/ ShareCur(t, "t_lock", "t_frozen_lock")
  \/ ShareFrozen(t, "t_frozen_lock", "t_frozen") \/ SizeFrozen(t) \/ SizeCur(t)
  \/ SizeReturn(t)

Flush(t) ==
  \/ flush_last(t) \/ FlushLock(t) \/ FlushNothing(t) \/ FlushPush(t) \/ FlushSwap(t)
  \/ FlushPop(t) \/ FlushBuild(t)

Step(t) ==
  \/ Write(t) \/ FreezeStep(t) \/ ClearStep(t) \/ Get(t) \/ GetBatch(t) \/ Scan(t)
  \/ TotalSize(t) \/ Flush(t)

\* Every thread has made its calls; the only state in which nothing moves.
AllDone == \A t \in Thread : pc[t] = "idle" /\ calls[t] = 0

Next == (\E t \in Thread : Step(t)) \/ (AllDone /\ UNCHANGED vars)

Spec == Init /\ [][Next]_vars

\* A thread that can go on does: the scheduler of the operating system.
Fairness == \A t \in Thread : WF_vars(Step(t))
FairSpec == Spec /\ Fairness

-----------------------------------------------------------------------------
(* Properties.                                                             *)

Holding == {"w_insert", "w_next", "w_check", "z_freeze_lock", "z_freeze",
            "c_frozen_lock", "c_clear"}
HoldingFrozen == {"z_freeze", "c_clear", "f_empty", "f_swap", "f_pop", "f_build"}
Sharing == {"g_cur", "b_cur", "s_frozen_lock", "s_snapshot", "t_frozen_lock",
            "t_frozen", "t_cur", "t_return"}
SharingFrozen == {"g_frozen", "b_frozen", "s_snapshot", "t_frozen", "t_cur", "t_return"}
PCs == Reading \cup Holding \cup HoldingFrozen \cup Sharing
       \cup {"idle", "w_lock", "z_lock", "c_lock", "t_lock", "f_lock"}

MutexType == [writer : Thread \cup {NoThread}, readers : SUBSET Thread]

\* Every variable holds a value of its C++ type and every pointer a thread or
\* a list holds refers to a table that exists.
TypeOK ==
  /\ tables \in Seq(TableType)
  /\ current \in DOMAIN tables
  /\ frozen \in Seq(DOMAIN tables)
  /\ frozen_bytes \in Nat
  /\ cur_mtx \in MutexType /\ frozen_mtx \in MutexType
  /\ pc \in [Thread -> PCs]
  /\ items \in [Thread -> Seq(Item)]
  /\ tranc \in [Thread -> TrancId]
  /\ keys \in [Thread -> SUBSET Key]
  /\ ptr \in [Thread -> DOMAIN tables \cup {0}]
  /\ out \in [Thread -> Seq(Map)]
  /\ size \in [Thread -> Nat]
  /\ calls \in [Thread -> Nat]
  /\ sst \in Map /\ latest \in Map
  /\ seen \in [Thread -> SUBSET Map]

\* The two mutexes are held by exactly the threads whose code is between a lock
\* and its release, at most one of them a writer and then no reader: every
\* early return and every path that hands over to the next lock releases what
\* it took.
LockDiscipline ==
  /\ \A t \in Thread : (cur_mtx.writer = t) <=> (pc[t] \in Holding)
  /\ \A t \in Thread : (frozen_mtx.writer = t) <=> (pc[t] \in HoldingFrozen)
  /\ cur_mtx.readers = {t \in Thread : pc[t] \in Sharing}
  /\ frozen_mtx.readers = {t \in Thread : pc[t] \in SharingFrozen}
  /\ cur_mtx.writer # NoThread => cur_mtx.readers = {}
  /\ frozen_mtx.writer # NoThread => frozen_mtx.readers = {}

\* What a thread has in hand where its code relies on it: a table and an item
\* before a write, the first answers of a batch before the second lookup, a
\* frozen table before frozen_tables.back().
InHand ==
  \A t \in Thread :
    /\ pc[t] = "w_insert" => ptr[t] # 0 /\ items[t] # << >>
    /\ pc[t] = "w_next" => items[t] # << >>
    /\ pc[t] \in {"b_frozen_lock", "b_frozen"} => Len(out[t]) = 1
    /\ pc[t] \in {"f_swap", "f_pop"} => frozen # << >>
    /\ pc[t] = "f_build" => ptr[t] # 0

\* The tables a lookup goes through, newest first: the active one, the frozen
\* ones, and one that flush_last took off the list and is still writing out.
InFlight == {t \in Thread : pc[t] = "f_build"}
Order ==
  <<current>> \o frozen
    \o (IF InFlight = {} THEN << >> ELSE <<ptr[CHOOSE t \in InFlight : TRUE]>>)

View(k) ==
  LET p == FirstHit(Order, k) IN IF p = 0 THEN sst[k] ELSE Found(p, k)

\* No write is lost and none is undone: what the tables and the SSTs hold for
\* a key, newest table first, is the last thing written to it, whatever writes,
\* freezes, flushes and clears have happened and wherever they stand.
NoLostWrite == \A k \in Key \ {0} : View(k) = latest[k]

\* The table a writer is about to write to is the active one, never one that
\* another path has frozen, flushed or freed since the pointer was read.
WriterOnActiveTable == \A t \in Thread : pc[t] = "w_insert" => ptr[t] = current

Resolve(e, k) == IF e # None THEN e ELSE sst[k]

\* get and get_batch are linearizable key by key although they drop cur_mtx
\* before they take frozen_mtx, and although get reads the value with no lock
\* held: a result, completed from the SSTs, is the last write to that key at
\* some moment of the call.
ReadsAreRecent ==
  \A t \in Thread : pc[t] = "g_done" =>
    \A k \in keys[t] \ {0} : \E m \in seen[t] : Resolve(out[t][1][k], k) = m[k]

\* A range scan is a snapshot: the newest copies of all its keys are the last
\* writes at one single moment of the call (a key it misses was unwritten then,
\* or is left to the SSTs).
ScansAreSnapshots ==
  \A t \in Thread : pc[t] = "s_done" =>
    \E m \in seen[t] : \A k \in keys[t] :
      LET hits == {i \in DOMAIN out[t] : out[t][i][k] # None}
      IN  IF hits = {} THEN m[k] = None \/ sst[k] # None
          ELSE out[t][Min(hits)][k] = m[k]

\* frozen_bytes, kept by additions when a table is frozen and subtractions when
\* it is flushed, is the size of the tables on the list.
FrozenBytesExact ==
  frozen_bytes = MapThenSumSet(LAMBDA i : tables[frozen[i]].bytes, DOMAIN frozen) % SizeMod

\* get_total_size adds up two numbers of the same moment.
TotalSizeIsAtomic ==
  \A t \in Thread : pc[t] = "t_return" =>
    size[t] = (frozen_bytes + tables[current].bytes) % SizeMod

\* Every call returns: the order in which the mutexes are taken, cur_mtx first,
\* leaves no cycle of waiting threads.
CallsReturn == \A t \in Thread : (pc[t] # "idle") ~> (pc[t] = "idle")
==============================================================================
