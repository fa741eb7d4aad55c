---------------------------- MODULE MemTableProofs ----------------------------
(***************************************************************************)
(* Proofs about MemTable, in three parts.                                  *)
(*                                                                         *)
(* The mutexes are held as the code takes them, and every value has its    *)
(* type, for every set of threads, keys, values and batches and every size *)
(* limit.  Types alone are not inductive: an insertion needs a table and   *)
(* an item, the second half of get_batch the answers of the first, and     *)
(* flush_last a frozen table to take.  The invariant adds InHand for       *)
(* these, and LockInv, because it is frozen_mtx that keeps clear and a     *)
(* second flush_last from emptying the list in between.                    *)
(*                                                                         *)
(* No write is lost, for every instance in which no thread flushes while   *)
(* another one writes; get_total_size is of one moment, for every          *)
(* instance; frozen_bytes is exact as long as nobody clears.               *)
(*                                                                         *)
(* get, get_batch and the scans answer with what was last written at some  *)
(* moment of the call, for every instance in which no thread flushes while *)
(* another one writes.  A lookup drops cur_mtx before it takes frozen_mtx, *)
(* so what it has seen of the active table may since have been written     *)
(* over, frozen, flushed or cleared.  The invariant says what the lookup   *)
(* can still rely on: all that such steps bring up is a value the key has  *)
(* had since the call began.                                               *)
(***************************************************************************)
EXTENDS MemTable, CommonTheorems, SequenceTheorems

-----------------------------------------------------------------------------
(* The mutexes.                                                            *)

LockInv ==
  /\ pc \in [Thread -> PCs]
  /\ cur_mtx \in MutexType
  /\ frozen_mtx \in MutexType
  /\ LockDiscipline

(***************************************************************************)
(* What a step does to the four claims a thread may have.  One lemma per   *)
(* lock operation: if the step moves the thread between points of its code *)
(* whose claims differ by just that operation, LockInv is kept.            *)
(***************************************************************************)
Claims(p, cur, frz, scur, sfrz) ==
  /\ p \in Holding <=> cur
  /\ p \in HoldingFrozen <=> frz
  /\ p \in Sharing <=> scur
  /\ p \in SharingFrozen <=> sfrz

\* A step that leaves both mutexes alone.
LEMMA LocalMove ==
  ASSUME LockInv, NEW t \in Thread, NEW from, NEW to \in PCs, Goto(t, from, to),
         Claims(to, from \in Holding, from \in HoldingFrozen,
                from \in Sharing, from \in SharingFrozen), UNCHANGED locks
  PROVE  LockInv'
  BY DEF LockInv, LockDiscipline, Goto, Claims, locks, MutexType

\* cur_mtx taken exclusively.
LEMMA OwnCurMove ==
  ASSUME LockInv, NoThread \notin Thread, NEW t \in Thread, NEW from, NEW to \in PCs,
         Goto(t, from, to),
         Claims(from, FALSE, FALSE, FALSE, FALSE), Claims(to, TRUE, FALSE, FALSE, FALSE),
         CanOwn(cur_mtx), cur_mtx' = Own(cur_mtx, t), UNCHANGED frozen_mtx
  PROVE  LockInv'
  BY DEF LockInv, LockDiscipline, Goto, Claims, MutexType, CanOwn, CanShare, Own, Disown, Share, Unshare

\* frozen_mtx taken exclusively, with or without cur_mtx.
LEMMA OwnFrozenMove ==
  ASSUME LockInv, NoThread \notin Thread, NEW t \in Thread, NEW from, NEW to \in PCs,
         Goto(t, from, to),
         Claims(from, from \in Holding, FALSE, FALSE, FALSE),
         Claims(to, from \in Holding, TRUE, FALSE, FALSE),
         CanOwn(frozen_mtx), frozen_mtx' = Own(frozen_mtx, t), UNCHANGED cur_mtx
  PROVE  LockInv'
  BY DEF LockInv, LockDiscipline, Goto, Claims, MutexType, CanOwn, CanShare, Own, Disown, Share, Unshare

\* cur_mtx released.
LEMMA DisownCurMove ==
  ASSUME LockInv, NoThread \notin Thread, NEW t \in Thread, NEW from, NEW to \in PCs,
         Goto(t, from, to),
         Claims(from, TRUE, FALSE, FALSE, FALSE), Claims(to, FALSE, FALSE, FALSE, FALSE),
         cur_mtx' = Disown(cur_mtx), UNCHANGED frozen_mtx
  PROVE  LockInv'
  BY DEF LockInv, LockDiscipline, Goto, Claims, MutexType, CanOwn, CanShare, Own, Disown, Share, Unshare

\* frozen_mtx released.
LEMMA DisownFrozenMove ==
  ASSUME LockInv, NoThread \notin Thread, NEW t \in Thread, NEW from, NEW to \in PCs,
         Goto(t, from, to),
         Claims(from, FALSE, TRUE, FALSE, FALSE), Claims(to, FALSE, FALSE, FALSE, FALSE),
         frozen_mtx' = Disown(frozen_mtx), UNCHANGED cur_mtx
  PROVE  LockInv'
  BY DEF LockInv, LockDiscipline, Goto, Claims, MutexType, CanOwn, CanShare, Own, Disown, Share, Unshare

\* Both released by the thread that owns them.
LEMMA DisownBothMove ==
  ASSUME LockInv, NoThread \notin Thread, NEW t \in Thread, NEW from, NEW to \in PCs,
         Goto(t, from, to),
         Claims(from, TRUE, TRUE, FALSE, FALSE), Claims(to, FALSE, FALSE, FALSE, FALSE),
         cur_mtx' = Disown(cur_mtx), frozen_mtx' = Disown(frozen_mtx)
  PROVE  LockInv'
  BY DEF LockInv, LockDiscipline, Goto, Claims, MutexType, CanOwn, CanShare, Own, Disown, Share, Unshare

\* cur_mtx taken shared.
LEMMA ShareCurMove ==
  ASSUME LockInv, NoThread \notin Thread, NEW t \in Thread, NEW from, NEW to \in PCs,
         Goto(t, from, to),
         Claims(from, FALSE, FALSE, FALSE, FALSE), Claims(to, FALSE, FALSE, TRUE, FALSE),
         CanShare(cur_mtx), cur_mtx' = Share(cur_mtx, t), UNCHANGED frozen_mtx
  PROVE  LockInv'
  BY DEF LockInv, LockDiscipline, Goto, Claims, MutexType, CanOwn, CanShare, Own, Disown, Share, Unshare

\* frozen_mtx taken shared, with or without cur_mtx.
LEMMA ShareFrozenMove ==
  ASSUME LockInv, NoThread \notin Thread, NEW t \in Thread, NEW from, NEW to \in PCs,
         Goto(t, from, to),
         Claims(from, FALSE, FALSE, from \in Sharing, FALSE),
         Claims(to, FALSE, FALSE, from \in Sharing, TRUE),
         CanShare(frozen_mtx), frozen_mtx' = Share(frozen_mtx, t), UNCHANGED cur_mtx
  PROVE  LockInv'
  BY DEF LockInv, LockDiscipline, Goto, Claims, MutexType, CanOwn, CanShare, Own, Disown, Share, Unshare

\* A reader leaves cur_mtx.
LEMMA UnshareCurMove ==
  ASSUME LockInv, NoThread \notin Thread, NEW t \in Thread, NEW from, NEW to \in PCs,
         Goto(t, from, to),
         Claims(from, FALSE, FALSE, TRUE, FALSE), Claims(to, FALSE, FALSE, FALSE, FALSE),
         cur_mtx' = Unshare(cur_mtx, t), UNCHANGED frozen_mtx
  PROVE  LockInv'
  BY DEF LockInv, LockDiscipline, Goto, Claims, MutexType, CanOwn, CanShare, Own, Disown, Share, Unshare

\* A reader leaves frozen_mtx.
LEMMA UnshareFrozenMove ==
  ASSUME LockInv, NoThread \notin Thread, NEW t \in Thread, NEW from, NEW to \in PCs,
         Goto(t, from, to),
         Claims(from, FALSE, FALSE, FALSE, TRUE), Claims(to, FALSE, FALSE, FALSE, FALSE),
         frozen_mtx' = Unshare(frozen_mtx, t), UNCHANGED cur_mtx
  PROVE  LockInv'
  BY DEF LockInv, LockDiscipline, Goto, Claims, MutexType, CanOwn, CanShare, Own, Disown, Share, Unshare

\* A reader leaves both.
LEMMA UnshareBothMove ==
  ASSUME LockInv, NoThread \notin Thread, NEW t \in Thread, NEW from, NEW to \in PCs,
         Goto(t, from, to),
         Claims(from, FALSE, FALSE, TRUE, TRUE), Claims(to, FALSE, FALSE, FALSE, FALSE),
         cur_mtx' = Unshare(cur_mtx, t), frozen_mtx' = Unshare(frozen_mtx, t)
  PROVE  LockInv'
  BY DEF LockInv, LockDiscipline, Goto, Claims, MutexType, CanOwn, CanShare, Own, Disown, Share, Unshare

\* No step breaks the lock discipline.
LEMMA LockStep == LockInv /\ [Next]_vars => LockInv'
<1> SUFFICES ASSUME LockInv, [Next]_vars PROVE LockInv'
  OBVIOUS
<1> USE MemTableAssumption DEF Claims, PCs, Reading, Holding, HoldingFrozen, Sharing, SharingFrozen
<1>1. CASE UNCHANGED vars
  BY <1>1 DEF vars, locks, LockInv, LockDiscipline, MutexType
<1>2. ASSUME NEW t \in Thread, Step(t) PROVE LockInv'
  <2>1. CASE Write(t)
    <3>1. CASE put(t)
      BY <3>1, LocalMove DEF put, StartWrite, Call, shared, locks
    <3>2. CASE put_batch(t)
      BY <3>2, LocalMove DEF put_batch, StartWrite, Call, locks
    <3>3. CASE remove(t)
      BY <3>3, LocalMove DEF remove, StartWrite, Call, locks
    <3>4. CASE remove_batch(t)
      BY <3>4, LocalMove DEF remove_batch, StartWrite, Call, locks
    <3>5. CASE WriteLock(t)
      BY <3>5, OwnCurMove DEF WriteLock
    <3>6. CASE WriteInsert(t)
      BY <3>6, LocalMove DEF WriteInsert, locks
    <3>7. CASE WriteNext(t)
      BY <3>7, LocalMove DEF WriteNext, locks
    <3>8. CASE WriteReturn(t)
      BY <3>8, DisownCurMove DEF WriteReturn
    <3>9. CASE WriteFull(t)
      BY <3>9, LocalMove DEF WriteFull, locks
    <3> QED BY <2>1, <3>1, <3>2, <3>3, <3>4, <3>5, <3>6, <3>7, <3>8, <3>9 DEF Write
  <2>2. CASE FreezeStep(t)
    <3>1. CASE frozen_cur_table(t)
      BY <3>1, LocalMove DEF frozen_cur_table, Call, locks
    <3>2. CASE FreezeCurLock(t)
      BY <3>2, OwnCurMove DEF FreezeCurLock
    <3>3. CASE FreezeLock(t)
      BY <3>3, OwnFrozenMove DEF FreezeLock
    <3>4. CASE Freeze(t)
      BY <3>4, DisownBothMove DEF Freeze
    <3> QED BY <2>2, <3>1, <3>2, <3>3, <3>4 DEF FreezeStep
  <2>3. CASE ClearStep(t)
    <3>1. CASE clear(t)
      BY <3>1, LocalMove DEF clear, Call, locks
    <3>2. CASE ClearCurLock(t)
      BY <3>2, OwnCurMove DEF ClearCurLock
    <3>3. CASE ClearFrozenLock(t)
      BY <3>3, OwnFrozenMove DEF ClearFrozenLock
    <3>4. CASE ClearTables(t)
      BY <3>4, DisownBothMove DEF ClearTables
    <3> QED BY <2>3, <3>1, <3>2, <3>3, <3>4 DEF ClearStep
  <2>4. CASE Get(t)
    <3>1. CASE get(t)
      BY <3>1, LocalMove DEF get, StartRead, Call, locks
    <3>2. CASE ShareCur(t, "g_lock", "g_cur")
      BY <3>2, ShareCurMove DEF ShareCur
    <3>3. CASE GetCur(t)
      BY <3>3, UnshareCurMove DEF GetCur
    <3>4. CASE ShareFrozen(t, "g_frozen_lock", "g_frozen")
      BY <3>4, ShareFrozenMove DEF ShareFrozen
    <3>5. CASE GetFrozen(t)
      BY <3>5, UnshareFrozenMove DEF GetFrozen
    <3>6. CASE GetDeref(t)
      BY <3>6, LocalMove DEF GetDeref, locks
    <3>7. CASE ReadReturn(t, "g_done")
      BY <3>7, LocalMove DEF ReadReturn, locks
    <3> QED BY <2>4, <3>1, <3>2, <3>3, <3>4, <3>5, <3>6, <3>7 DEF Get
  <2>5. CASE GetBatch(t)
    <3>1. CASE get_batch(t)
      BY <3>1, LocalMove DEF get_batch, StartRead, Call, locks
    <3>2. CASE ShareCur(t, "b_lock", "b_cur")
      BY <3>2, ShareCurMove DEF ShareCur
    <3>3. CASE BatchCur(t)
      BY <3>3, UnshareCurMove DEF BatchCur
    <3>4. CASE ShareFrozen(t, "b_frozen_lock", "b_frozen")
      BY <3>4, ShareFrozenMove DEF ShareFrozen
    <3>5. CASE BatchFrozen(t)
      BY <3>5, UnshareFrozenMove DEF BatchFrozen
    <3> QED BY <2>5, <3>1, <3>2, <3>3, <3>4, <3>5 DEF GetBatch
  <2>6. CASE Scan(t)
    <3>1. CASE begin(t)
      BY <3>1, LocalMove DEF begin, StartRead, Call, locks
    <3>2. CASE iters_range(t)
      BY <3>2, LocalMove DEF iters_range, StartRead, Call, locks
    <3>3. CASE ShareCur(t, "s_lock", "s_frozen_lock")
      BY <3>3, ShareCurMove DEF ShareCur
    <3>4. CASE ShareFrozen(t, "s_frozen_lock", "s_snapshot")
      BY <3>4, ShareFrozenMove DEF ShareFrozen
    <3>5. CASE ScanSnapshot(t)
      BY <3>5, UnshareBothMove DEF ScanSnapshot
    <3>6. CASE ReadReturn(t, "s_done")
      BY <3>6, LocalMove DEF ReadReturn, locks
    <3> QED BY <2>6, <3>1, <3>2, <3>3, <3>4, <3>5, <3>6 DEF Scan
  <2>7. CASE TotalSize(t)
    <3>1. CASE get_total_size(t)
      BY <3>1, LocalMove DEF get_total_size, Call, locks
    <3>2. CASE ShareCur(t, "t_lock", "t_frozen_lock")
      BY <3>2, ShareCurMove DEF ShareCur
    <3>3. CASE ShareFrozen(t, "t_frozen_lock", "t_frozen")
      BY <3>3, ShareFrozenMove DEF ShareFrozen
    <3>4. CASE SizeFrozen(t)
      BY <3>4, LocalMove DEF SizeFrozen, locks
    <3>5. CASE SizeCur(t)
      BY <3>5, LocalMove DEF SizeCur, locks
    <3>6. CASE SizeReturn(t)
      BY <3>6, UnshareBothMove DEF SizeReturn
    <3> QED BY <2>7, <3>1, <3>2, <3>3, <3>4, <3>5, <3>6 DEF TotalSize
  <2>8. CASE Flush(t)
    <3>1. CASE flush_last(t)
      BY <3>1, LocalMove DEF flush_last, Call, locks
    <3>2. CASE FlushLock(t)
      BY <3>2, OwnFrozenMove DEF FlushLock
    <3>3. CASE FlushNothing(t)
      BY <3>3, DisownFrozenMove DEF FlushNothing
    <3>4. CASE FlushPush(t)
      BY <3>4, LocalMove DEF FlushPush, locks
    <3>5. CASE FlushSwap(t)
      BY <3>5, LocalMove DEF FlushSwap, locks
    <3>6. CASE FlushPop(t)
      BY <3>6, LocalMove DEF FlushPop, locks
    <3>7. CASE FlushBuild(t)
      BY <3>7, DisownFrozenMove DEF FlushBuild
    <3> QED BY <2>8, <3>1, <3>2, <3>3, <3>4, <3>5, <3>6, <3>7 DEF Flush
  <2> QED BY <1>2, <2>1, <2>2, <2>3, <2>4, <2>5, <2>6, <2>7, <2>8 DEF Step
<1>3. CASE AllDone /\ UNCHANGED vars
  BY <1>1, <1>3
<1> QED BY <1>1, <1>2, <1>3 DEF Next

\* Both mutexes are held by exactly the threads whose code is between taking
\* and releasing them, for any threads in any roles: no call of MemTable leaks
\* a lock or runs a critical section beside a writer.
THEOREM Locks == Spec => []LockDiscipline
<1>1. Init => LockInv
  BY MemTableAssumption DEF Init, LockInv, LockDiscipline, MutexType, Unlocked, PCs,
     Reading, Holding, HoldingFrozen, Sharing, SharingFrozen
<1>2. LockInv => LockDiscipline
  BY DEF LockInv
<1> QED BY <1>1, <1>2, LockStep, PTL DEF Spec

-----------------------------------------------------------------------------
(* Tables, sequences and lookups.                                          *)

\* A sequence over a set is one over any larger set.
LEMMA SeqGrows ==
  ASSUME NEW S, NEW T, S \subseteq T, NEW s \in Seq(S)
  PROVE  s \in Seq(T)
  OBVIOUS

\* A new table goes to the end of tables and moves none of the others.
LEMMA AppendTable ==
  ASSUME tables \in Seq(TableType), NEW x \in TableType
  PROVE  /\ Append(tables, x) \in Seq(TableType)
         /\ DOMAIN tables \subseteq DOMAIN Append(tables, x)
         /\ Len(tables) + 1 \in DOMAIN Append(tables, x)
         /\ Len(tables) \in Nat
         /\ DOMAIN tables = 1 .. Len(tables)
         /\ Len(Append(tables, x)) = Len(tables) + 1
         /\ \A i \in DOMAIN tables : Append(tables, x)[i] = tables[i]
         /\ Append(tables, x)[Len(tables) + 1] = x
  OBVIOUS

\* An empty table is a table.
LEMMA EmptyTableType == EmptyTable \in TableType
  BY DEF EmptyTable, TableType, Map

\* SkipList::put keeps a table a table, the byte count reduced modulo size_t.
LEMMA TablePutType ==
  ASSUME NEW tbl \in TableType, NEW k \in Key, NEW v \in Value, NEW t \in TrancId
  PROVE  TablePut(tbl, k, v, t) \in TableType
<1>1. CASE tbl.map[k] # None
  <2>1. tbl.map[k] \in Entry
    BY <1>1 DEF TableType, Map
  <2> DEFINE b == tbl.bytes + ValLen[v] - ValLen[tbl.map[k].value]
  <2>2. b \in Int
    <3>1. tbl.bytes \in Nat /\ tbl.map[k].value \in Value
      BY <2>1 DEF TableType, Entry
    <3>2. ValLen[v] \in Nat /\ ValLen[tbl.map[k].value] \in Nat
      BY <3>1, TableAssumption
    <3> QED BY <3>1, <3>2
  <2>3. b % SizeMod \in Nat
    BY <2>2, TableAssumption
  <2>4. [value |-> v, tranc_id |-> tbl.map[k].tranc_id] \in Entry
    BY <2>1 DEF Entry
  <2> HIDE DEF b
  <2>5. TablePut(tbl, k, v, t) =
          [map   |-> [tbl.map EXCEPT ![k] = [value |-> v, tranc_id |-> tbl.map[k].tranc_id]],
           bytes |-> b % SizeMod]
    BY <1>1 DEF TablePut, b
  <2> QED BY <2>3, <2>4, <2>5 DEF TableType, Map
<1>2. CASE tbl.map[k] = None
  <2> DEFINE b == tbl.bytes + EntryBytes(k, v)
  <2>2. b \in Int
    BY TableAssumption DEF TableType, EntryBytes
  <2>3. b % SizeMod \in Nat
    BY <2>2, TableAssumption
  <2>4. [value |-> v, tranc_id |-> t] \in Entry
    BY DEF Entry
  <2> HIDE DEF b
  <2>5. TablePut(tbl, k, v, t) =
          [map |-> [tbl.map EXCEPT ![k] = [value |-> v, tranc_id |-> t]],
           bytes |-> b % SizeMod]
    BY <1>2 DEF TablePut, b
  <2> QED BY <2>3, <2>4, <2>5 DEF TableType, Map
<1> QED BY <1>1, <1>2

\* A lookup answers with one of the tables it walks through, or with none.
LEMMA FirstHitType ==
  ASSUME NEW S, NEW order \in Seq(S), NEW k
  PROVE  FirstHit(order, k) \in S \cup {0}
<1>1. CASE Hits(order, k) = {}
  BY <1>1 DEF FirstHit
<1>2. CASE Hits(order, k) # {}
  <2>1. Hits(order, k) \in SUBSET Nat
    BY DEF Hits
  <2>2. \E i \in Hits(order, k) : \A j \in Hits(order, k) : i <= j
    BY <1>2, <2>1, Least
  <2>3. (CHOOSE i \in Hits(order, k) : \A j \in Hits(order, k) : i <= j) \in DOMAIN order
    BY <2>2 DEF Hits
  <2> QED BY <1>2, <2>3 DEF FirstHit
<1> QED BY <1>1, <1>2

-----------------------------------------------------------------------------
(* The inductive invariant, and the actions that need more than their      *)
(* definition to keep it.                                                  *)

\* TypeOK without the parts that LockInv has.
DataOK ==
  /\ tables \in Seq(TableType)
  /\ current \in DOMAIN tables
  /\ frozen \in Seq(DOMAIN tables)
  /\ frozen_bytes \in Nat
  /\ items \in [Thread -> Seq(Item)]
  /\ tranc \in [Thread -> TrancId]
  /\ keys \in [Thread -> SUBSET Key]
  /\ ptr \in [Thread -> DOMAIN tables \cup {0}]
  /\ out \in [Thread -> Seq(Map)]
  /\ size \in [Thread -> Nat]
  /\ calls \in [Thread -> Nat]
  /\ sst \in Map /\ latest \in Map
  /\ seen \in [Thread -> SUBSET Map]

TypeInv == LockInv /\ DataOK /\ InHand


\* The entry that a lookup in a table yields.
LEMMA TableGetType ==
  ASSUME NEW tbl \in TableType, NEW k \in Key
  PROVE  TableGet(tbl, k) \in Entry \cup {None}
  BY DEF TableGet, TableType, Map

\* What a lookup answers is an entry, if the table exists.
LEMMA FoundType ==
  ASSUME DataOK, NEW p \in DOMAIN tables \cup {0}, NEW k \in Key
  PROVE  Found(p, k) \in Entry \cup {None}
<1>1. CASE p = 0
  BY <1>1 DEF Found
<1>2. CASE p # 0
  <2>1. tables[p] \in TableType
    BY <1>2 DEF DataOK
  <2> QED BY <1>2, <2>1, TableGetType DEF Found
<1> QED BY <1>1, <1>2

\* The fields of a table.
LEMMA TableFields ==
  ASSUME DataOK, NEW p \in DOMAIN tables
  PROVE  tables[p].map \in Map /\ tables[p].bytes \in Nat
<1>1. tables[p] \in TableType
  BY DEF DataOK
<1> QED BY <1>1 DEF TableType

\* size_t arithmetic never leaves the naturals.
LEMMA ModNat == \A n \in Int : n % SizeMod \in Nat
  BY TableAssumption

\* A write that starts with well-typed arguments keeps the types.
LEMMA WriteArgs ==
  ASSUME TypeInv, NEW t \in Thread, NEW list \in Seq(Item), NEW id \in TrancId,
         StartWrite(t, list, id)
  PROVE  DataOK'
  BY DEF TypeInv, DataOK, StartWrite, Call, shared

\* The argument list of put and remove.
LEMMA OneItem ==
  ASSUME NEW k \in Key, NEW v \in Value
  PROVE  <<[key |-> k, value |-> v]>> \in Seq(Item)
  BY DEF Item

\* put passes one item.
LEMMA putType ==
  ASSUME TypeInv, NEW t \in Thread, put(t)
  PROVE  DataOK'
  BY WriteArgs, OneItem DEF put

\* remove passes one tombstone.
LEMMA removeType ==
  ASSUME TypeInv, NEW t \in Thread, remove(t)
  PROVE  DataOK'
  BY WriteArgs, OneItem, TableAssumption DEF remove

\* remove_batch passes a list of tombstones.
LEMMA remove_batchType ==
  ASSUME TypeInv, NEW t \in Thread, remove_batch(t)
  PROVE  DataOK'
<1>1. PICK list \in Batches, id \in TrancId :
        StartWrite(t, [i \in DOMAIN list |-> [list[i] EXCEPT !.value = 0]], id)
  BY DEF remove_batch
<1>2. list \in Seq(Item)
  BY MemTableAssumption
<1>3. ASSUME NEW i \in DOMAIN list PROVE [list[i] EXCEPT !.value = 0] \in Item
  <2>1. list[i] \in Item
    BY <1>2
  <2> QED BY <2>1, TableAssumption DEF Item
<1>4. [i \in DOMAIN list |-> [list[i] EXCEPT !.value = 0]] \in Seq(Item)
  BY <1>2, <1>3
<1> QED BY <1>1, <1>4, WriteArgs

\* The insertion through ptr changes one table, one entry of latest and the
\* views of the readers under way.
LEMMA WriteInsertType ==
  ASSUME TypeInv, NEW t \in Thread, WriteInsert(t)
  PROVE  DataOK'
<1> DEFINE k == items[t][1].key
           v == items[t][1].value
           tbl == TablePut(tables[ptr[t]], k, v, tranc[t])
<1> USE DEF TypeInv, DataOK
<1>1. ptr[t] \in DOMAIN tables /\ items[t] \in Seq(Item) /\ items[t] # << >>
  BY DEF InHand, WriteInsert, Goto
<1>2. items[t][1] \in Item /\ Tail(items[t]) \in Seq(Item)
  BY <1>1
<1>3. k \in Key /\ v \in Value
  BY <1>2 DEF Item
<1>4. tables[ptr[t]] \in TableType
  BY <1>1
<1>5. tbl \in TableType
  BY <1>3, <1>4, TablePutType
<1>6. tbl.map[k] \in Entry \cup {None}
  BY <1>3, <1>5 DEF TableType, Map
<1>7. /\ tables' = [tables EXCEPT ![ptr[t]] = tbl]
      /\ latest' = [latest EXCEPT ![k] = tbl.map[k]]
      /\ seen' = [u \in Thread |->
                    IF pc[u] \in Reading THEN seen[u] \cup {latest'} ELSE seen[u]]
      /\ items' = [items EXCEPT ![t] = Tail(@)]
      /\ UNCHANGED <<current, frozen, frozen_bytes, tranc, keys, ptr, out, size, calls, sst>>
  BY DEF WriteInsert, Observe
<1> HIDE DEF k, v, tbl
<1>8. tables' \in Seq(TableType) /\ DOMAIN tables' = DOMAIN tables
  BY <1>1, <1>5, <1>7
<1>9. latest' \in Map
  BY <1>6, <1>7, <1>3 DEF Map
<1>10. seen' \in [Thread -> SUBSET Map]
  BY <1>7, <1>9
<1>11. items' \in [Thread -> Seq(Item)]
  BY <1>2, <1>7
<1> QED BY <1>7, <1>8, <1>9, <1>10, <1>11

\* A new active table, the list of frozen tables changed or not.
LEMMA NewTableType ==
  ASSUME DataOK, tables' = Append(tables, EmptyTable), current' = Len(tables) + 1,
         frozen' \in Seq(DOMAIN tables)
  PROVE  /\ tables' \in Seq(TableType)
         /\ current' \in DOMAIN tables'
         /\ frozen' \in Seq(DOMAIN tables')
         /\ DOMAIN tables \subseteq DOMAIN tables'
<1>1. tables \in Seq(TableType)
  BY DEF DataOK
<1>2. /\ tables' \in Seq(TableType)
      /\ current' \in DOMAIN tables'
      /\ DOMAIN tables \subseteq DOMAIN tables'
  BY <1>1, AppendTable, EmptyTableType
<1>3. frozen' \in Seq(DOMAIN tables')
  BY <1>2, SeqGrows
<1> QED BY <1>2, <1>3

\* The list a freeze leaves behind.
LEMMA FrontType ==
  ASSUME DataOK
  PROVE  <<current>> \o frozen \in Seq(DOMAIN tables)
  BY DEF DataOK

\* What a freeze adds to frozen_bytes and a flush takes off it.
LEMMA BytesType ==
  ASSUME DataOK, NEW p \in DOMAIN tables
  PROVE  /\ (frozen_bytes + tables[p].bytes) % SizeMod \in Nat
         /\ (frozen_bytes - tables[p].bytes) % SizeMod \in Nat
<1>1. tables[p].bytes \in Nat /\ frozen_bytes \in Nat
  BY TableFields DEF DataOK
<1>2. frozen_bytes + tables[p].bytes \in Int /\ frozen_bytes - tables[p].bytes \in Int
  BY <1>1
<1> QED BY <1>2, ModNat

\* Freezing moves the active table and makes a new one.
LEMMA FreezeType ==
  ASSUME TypeInv, NEW t \in Thread, Freeze(t)
  PROVE  DataOK'
<1>1. DataOK /\ current \in DOMAIN tables
  BY DEF TypeInv, DataOK
<1>2. frozen_bytes' \in Nat
  BY <1>1, BytesType DEF Freeze
<1>3. frozen' \in Seq(DOMAIN tables)
  BY <1>1, FrontType DEF Freeze
<1>4. /\ tables' \in Seq(TableType)
      /\ current' \in DOMAIN tables'
      /\ frozen' \in Seq(DOMAIN tables')
      /\ DOMAIN tables \subseteq DOMAIN tables'
  BY <1>1, <1>3, NewTableType DEF Freeze
<1>5. ptr' \in [Thread -> DOMAIN tables' \cup {0}]
  BY <1>1, <1>4 DEF DataOK, Freeze
<1> QED BY <1>1, <1>2, <1>4, <1>5 DEF DataOK, Freeze, history

\* Clearing drops the frozen tables and makes a new active one.
LEMMA ClearTablesType ==
  ASSUME TypeInv, NEW t \in Thread, ClearTables(t)
  PROVE  DataOK'
<1>1. DataOK
  BY DEF TypeInv
<1>3. frozen' \in Seq(DOMAIN tables)
  BY DEF ClearTables
<1>4. /\ tables' \in Seq(TableType)
      /\ current' \in DOMAIN tables'
      /\ frozen' \in Seq(DOMAIN tables')
      /\ DOMAIN tables \subseteq DOMAIN tables'
  BY <1>1, <1>3, NewTableType DEF ClearTables
<1>5. ptr' \in [Thread -> DOMAIN tables' \cup {0}]
  BY <1>1, <1>4 DEF DataOK, ClearTables, locals
<1>6. latest' \in Map /\ seen' \in [Thread -> SUBSET Map]
  BY <1>1 DEF DataOK, ClearTables, Observe
<1> QED BY <1>1, <1>4, <1>5, <1>6 DEF DataOK, ClearTables, locals

\* The lookup in the active table answers with it or with no table.
LEMMA GetCurType ==
  ASSUME TypeInv, NEW t \in Thread, GetCur(t)
  PROVE  DataOK'
<1>1. DataOK /\ <<current>> \in Seq(DOMAIN tables)
  BY DEF TypeInv, DataOK
<1>2. FirstHit(<<current>>, Wanted(t)) \in DOMAIN tables \cup {0}
  BY <1>1, FirstHitType
<1> QED BY <1>1, <1>2 DEF DataOK, GetCur, shared, history

\* The lookup in the frozen tables answers with one of them or with none.
LEMMA GetFrozenType ==
  ASSUME TypeInv, NEW t \in Thread, GetFrozen(t)
  PROVE  DataOK'
<1>1. DataOK /\ frozen \in Seq(DOMAIN tables)
  BY DEF TypeInv, DataOK
<1>2. FirstHit(frozen, Wanted(t)) \in DOMAIN tables \cup {0}
  BY <1>1, FirstHitType
<1> QED BY <1>1, <1>2 DEF DataOK, GetFrozen, shared, history

\* A reader stores what it found.
LEMMA OutType ==
  ASSUME DataOK, NEW t \in Thread, NEW f \in Seq(Map),
         out' = [out EXCEPT ![t] = f],
         UNCHANGED <<shared, items, tranc, keys, ptr, size, calls, history>>
  PROVE  DataOK'
  BY DEF DataOK, shared, history

\* A reader that copies its answers at once has one map of them.
LEMMA OneMap ==
  ASSUME NEW m \in Map
  PROVE  <<m>> \in Seq(Map)
  OBVIOUS

\* Reading through the iterator gives an entry or none.
LEMMA GetDerefType ==
  ASSUME TypeInv, NEW t \in Thread, GetDeref(t)
  PROVE  DataOK'
<1> DEFINE m == [k \in Key |-> IF k \in keys[t] THEN Found(ptr[t], k) ELSE None]
<1>1. DataOK /\ ptr[t] \in DOMAIN tables \cup {0}
  BY DEF TypeInv, DataOK
<1>2. m \in Map
  BY <1>1, FoundType DEF Map
<1>3. <<m>> \in Seq(Map)
  BY <1>2, OneMap
<1> QED BY <1>1, <1>3, OutType DEF GetDeref

\* The first half of get_batch.
LEMMA BatchCurType ==
  ASSUME TypeInv, NEW t \in Thread, BatchCur(t)
  PROVE  DataOK'
<1> DEFINE m == [k \in Key |-> IF k \in keys[t] THEN TableGet(tables[current], k) ELSE None]
<1>1. DataOK /\ tables[current] \in TableType
  BY DEF TypeInv, DataOK
<1>2. m \in Map
  BY <1>1, TableGetType DEF Map
<1>3. <<m>> \in Seq(Map)
  BY <1>2, OneMap
<1> QED BY <1>1, <1>3, OutType DEF BatchCur

\* The second half of get_batch relies on the answers of the first.
LEMMA BatchFrozenType ==
  ASSUME TypeInv, NEW t \in Thread, BatchFrozen(t)
  PROVE  DataOK'
<1> DEFINE m == [k \in Key |-> IF k \in keys[t] /\ out[t][1][k] = None
                               THEN Found(FirstHit(frozen, k), k) ELSE out[t][1][k]]
<1>1. DataOK /\ frozen \in Seq(DOMAIN tables)
  BY DEF TypeInv, DataOK
<1>2. \A k \in Key : FirstHit(frozen, k) \in DOMAIN tables \cup {0}
  BY <1>1, FirstHitType
<1>3. out[t] \in Seq(Map) /\ Len(out[t]) = 1
  BY DEF TypeInv, DataOK, InHand, BatchFrozen, Goto
<1>4. out[t][1] \in Map
  BY <1>3
<1>5. m \in Map
  BY <1>1, <1>2, <1>4, FoundType DEF Map
<1>6. <<m>> \in Seq(Map)
  BY <1>5, OneMap
<1> QED BY <1>1, <1>6, OutType DEF BatchFrozen

\* A scan copies one map per table.
LEMMA ScanSnapshotType ==
  ASSUME TypeInv, NEW t \in Thread, ScanSnapshot(t)
  PROVE  DataOK'
<1> DEFINE order == <<current>> \o frozen
           m(i) == [k \in Key |-> IF k \in keys[t] THEN tables[order[i]].map[k] ELSE None]
           f == [i \in DOMAIN order |-> m(i)]
<1>1. DataOK /\ order \in Seq(DOMAIN tables)
  BY FrontType DEF TypeInv
<1>2. \A p \in DOMAIN tables : tables[p].map \in Map
  BY <1>1, TableFields
<1> HIDE DEF order
<1>3. ASSUME NEW i \in DOMAIN order PROVE m(i) \in Map
  <2>1. order[i] \in DOMAIN tables
    BY <1>1
  <2>2. tables[order[i]].map \in Map
    BY <1>2, <2>1
  <2> QED BY <2>2 DEF Map
<1>4. f \in Seq(Map)
  BY <1>1, <1>3
<1>5. out' = [out EXCEPT ![t] = f]
  BY DEF ScanSnapshot, order
<1> QED BY <1>1, <1>4, <1>5, OutType DEF ScanSnapshot

\* get_total_size adds up two counts.
LEMMA SizeCurType ==
  ASSUME TypeInv, NEW t \in Thread, SizeCur(t)
  PROVE  DataOK'
<1>1. DataOK /\ size[t] \in Nat /\ tables[current].bytes \in Nat
  BY TableFields DEF TypeInv, DataOK
<1>2. size[t] + tables[current].bytes \in Int
  BY <1>1
<1>3. (size[t] + tables[current].bytes) % SizeMod \in Nat
  BY <1>2, ModNat
<1> QED BY <1>1, <1>3 DEF DataOK, SizeCur, shared, history

\* flush_last freezes the active table.
LEMMA FlushPushType ==
  ASSUME TypeInv, NEW t \in Thread, FlushPush(t)
  PROVE  DataOK'
<1>1. DataOK /\ current \in DOMAIN tables
  BY DEF TypeInv, DataOK
<1>2. frozen_bytes' \in Nat
  BY <1>1, BytesType DEF FlushPush
<1>3. frozen' \in Seq(DOMAIN tables)
  BY <1>1, FrontType DEF FlushPush
<1> QED BY <1>1, <1>2, <1>3 DEF DataOK, FlushPush, locals, history

\* flush_last makes a new active table.
LEMMA FlushSwapType ==
  ASSUME TypeInv, NEW t \in Thread, FlushSwap(t)
  PROVE  DataOK'
<1>1. DataOK
  BY DEF TypeInv
<1>2. frozen' \in Seq(DOMAIN tables)
  BY <1>1 DEF DataOK, FlushSwap
<1>3. /\ tables' \in Seq(TableType)
      /\ current' \in DOMAIN tables'
      /\ frozen' \in Seq(DOMAIN tables')
      /\ DOMAIN tables \subseteq DOMAIN tables'
  BY <1>1, <1>2, NewTableType DEF FlushSwap
<1>4. ptr' \in [Thread -> DOMAIN tables' \cup {0}]
  BY <1>1, <1>3 DEF DataOK, FlushSwap, locals
<1> QED BY <1>1, <1>3, <1>4 DEF DataOK, FlushSwap, locals, history

\* flush_last takes the oldest table, which there is.
LEMMA FlushPopType ==
  ASSUME TypeInv, NEW t \in Thread, FlushPop(t)
  PROVE  DataOK'
<1>1. DataOK /\ frozen \in Seq(DOMAIN tables) /\ frozen # << >>
  BY DEF TypeInv, DataOK, InHand, FlushPop, Goto
<1>2. frozen[Len(frozen)] \in DOMAIN tables
  BY <1>1
<1>3. SubSeq(frozen, 1, Len(frozen) - 1) \in Seq(DOMAIN tables)
  BY <1>1
<1>4. frozen_bytes' \in Nat
  BY <1>1, <1>2, BytesType DEF FlushPop
<1> QED BY <1>1, <1>2, <1>3, <1>4 DEF DataOK, FlushPop, history

\* flush_last writes out the table it has taken.
LEMMA FlushBuildType ==
  ASSUME TypeInv, NEW t \in Thread, FlushBuild(t)
  PROVE  DataOK'
<1>1. DataOK /\ ptr[t] \in DOMAIN tables
  BY DEF TypeInv, DataOK, InHand, FlushBuild, Goto
<1>2. tables[ptr[t]].map \in Map
  BY <1>1, TableFields
<1>3. sst' \in Map
  BY <1>1, <1>2 DEF DataOK, FlushBuild, Map
<1> QED BY <1>1, <1>3 DEF DataOK, FlushBuild, shared

-----------------------------------------------------------------------------
\* A writer that has taken cur_mtx has the active table in hand.
LEMMA WriteLockHand ==
  ASSUME TypeInv, NEW t \in Thread, WriteLock(t)
  PROVE  InHand'
<1>1. current # 0
  BY DEF TypeInv, DataOK
<1> QED BY <1>1 DEF TypeInv, DataOK, InHand, WriteLock, Goto, shared, history

\* After an insertion a batch goes on only if items are left.
LEMMA WriteInsertHand ==
  ASSUME TypeInv, NEW t \in Thread, WriteInsert(t)
  PROVE  InHand'
<1>1. items[t] \in Seq(Item) /\ items[t] # << >>
  BY DEF TypeInv, DataOK, InHand, WriteInsert, Goto
<1>2. Len(items[t]) > 1 => Len(Tail(items[t])) # 0
  <2> DEFINE n == Len(items[t])
             m == Len(Tail(items[t]))
  <2>1. m = n - 1
    BY <1>1, HeadTailProperties
  <2>2. n \in Nat
    BY <1>1
  <2> HIDE DEF n, m
  <2>3. n > 1 => m # 0
    BY <2>1, <2>2
  <2> QED BY <2>3 DEF n, m
<1>3. Len(items[t]) > 1 => Tail(items[t]) # << >>
  BY <1>2
<1> DEFINE to == IF Len(items[t]) > 1 THEN "w_next" ELSE "w_check"
<1>4. pc' = [pc EXCEPT ![t] = to] /\ to # "w_insert"
  BY DEF WriteInsert, Goto
<1>5. to = "w_next" => Len(items[t]) > 1
  OBVIOUS
<1>6. to \in {"w_next", "w_check"}
  OBVIOUS
<1>7. items' = [items EXCEPT ![t] = Tail(items[t])]
  BY DEF WriteInsert
<1>8. UNCHANGED <<frozen, ptr, out>>
  BY DEF WriteInsert
<1> HIDE DEF to
<1> QED BY <1>3, <1>4, <1>5, <1>6, <1>7, <1>8 DEF TypeInv, LockInv, DataOK, InHand

\* The next item of a batch finds a table again.
LEMMA WriteNextHand ==
  ASSUME TypeInv, NEW t \in Thread, WriteNext(t)
  PROVE  InHand'
<1>1. current # 0
  BY DEF TypeInv, DataOK
<1> QED BY <1>1 DEF TypeInv, DataOK, InHand, WriteNext, Goto, shared, history

\* No other thread is between two steps of flush_last while t owns frozen_mtx.
LEMMA OneFlusher ==
  ASSUME LockInv, NEW t \in Thread, pc[t] \in HoldingFrozen, NEW u \in Thread, u # t
  PROVE  pc[u] \notin {"f_empty", "f_swap", "f_pop", "f_build"}
  BY DEF LockInv, LockDiscipline, HoldingFrozen

\* clear empties the list only while no flush_last is between two steps.
LEMMA ClearTablesHand ==
  ASSUME TypeInv, NEW t \in Thread, ClearTables(t)
  PROVE  InHand'
<1>1. \A u \in Thread : u # t => pc[u] \notin {"f_swap", "f_pop"}
  BY OneFlusher DEF TypeInv, ClearTables, Goto, HoldingFrozen
<1> QED BY <1>1 DEF TypeInv, LockInv, InHand, ClearTables, Goto, locals

\* The first half of get_batch leaves its answers.
LEMMA BatchCurHand ==
  ASSUME TypeInv, NEW t \in Thread, BatchCur(t)
  PROVE  InHand'
<1> DEFINE m == [k \in Key |-> IF k \in keys[t] THEN TableGet(tables[current], k) ELSE None]
<1>1. out' = [out EXCEPT ![t] = <<m>>]
  BY DEF BatchCur
<1>2. Len(<<m>>) = 1
  OBVIOUS
<1> HIDE DEF m
<1> QED BY <1>1, <1>2 DEF TypeInv, LockInv, DataOK, InHand, BatchCur, Goto, shared

\* The table flush_last takes exists, and nobody else is about to take one.
LEMMA FlushPopHand ==
  ASSUME TypeInv, NEW t \in Thread, FlushPop(t)
  PROVE  InHand'
<1>1. \A u \in Thread : u # t => pc[u] \notin {"f_swap", "f_pop"}
  BY OneFlusher DEF TypeInv, FlushPop, Goto, HoldingFrozen
<1>2. frozen \in Seq(DOMAIN tables) /\ frozen # << >>
  BY DEF TypeInv, DataOK, InHand, FlushPop, Goto
<1>3. frozen[Len(frozen)] # 0
  BY <1>2 DEF TypeInv, DataOK
<1> QED BY <1>1, <1>3 DEF TypeInv, LockInv, DataOK, InHand, FlushPop, Goto

\* A flush that ends has no table in hand any more.
LEMMA FlushBuildHand ==
  ASSUME TypeInv, NEW t \in Thread, FlushBuild(t)
  PROVE  InHand'
  BY DEF TypeInv, LockInv, DataOK, InHand, FlushBuild, Goto, shared

-----------------------------------------------------------------------------
(* All actions.                                                            *)

\* No step puts a value of the wrong type anywhere.
LEMMA TypeStep == TypeInv /\ [Next]_vars => DataOK'
<1> SUFFICES ASSUME TypeInv, [Next]_vars PROVE DataOK'
  OBVIOUS
<1> USE DEF TypeInv, DataOK, Goto, shared, locals, history
<1>1. CASE UNCHANGED vars
  BY <1>1 DEF vars
<1>2. ASSUME NEW t \in Thread, Step(t) PROVE DataOK'
  <2>1. CASE Write(t)
    <3>1. CASE put(t)
      BY <3>1, putType
    <3>2. CASE put_batch(t)
      BY <3>2, MemTableAssumption DEF put_batch, StartWrite, Call
    <3>3. CASE remove(t)
      BY <3>3, removeType
    <3>4. CASE remove_batch(t)
      BY <3>4, remove_batchType
    <3>5. CASE WriteLock(t)
      BY <3>5 DEF WriteLock
    <3>6. CASE WriteInsert(t)
      BY <3>6, WriteInsertType
    <3>7. CASE WriteNext(t)
      BY <3>7 DEF WriteNext
    <3>8. CASE WriteReturn(t)
      BY <3>8 DEF WriteReturn
    <3>9. CASE WriteFull(t)
      BY <3>9 DEF WriteFull
    <3> QED BY <2>1, <3>1, <3>2, <3>3, <3>4, <3>5, <3>6, <3>7, <3>8, <3>9 DEF Write
  <2>2. CASE FreezeStep(t)
    <3>1. CASE frozen_cur_table(t)
      BY <3>1 DEF frozen_cur_table, Call
    <3>2. CASE FreezeCurLock(t)
      BY <3>2 DEF FreezeCurLock
    <3>3. CASE FreezeLock(t)
      BY <3>3 DEF FreezeLock
    <3>4. CASE Freeze(t)
      BY <3>4, FreezeType
    <3> QED BY <2>2, <3>1, <3>2, <3>3, <3>4 DEF FreezeStep
  <2>3. CASE ClearStep(t)
    <3>1. CASE clear(t)
      BY <3>1 DEF clear, Call
    <3>2. CASE ClearCurLock(t)
      BY <3>2 DEF ClearCurLock
    <3>3. CASE ClearFrozenLock(t)
      BY <3>3 DEF ClearFrozenLock
    <3>4. CASE ClearTables(t)
      BY <3>4, ClearTablesType
    <3> QED BY <2>3, <3>1, <3>2, <3>3, <3>4 DEF ClearStep
  <2>4. CASE Get(t)
    <3>1. CASE get(t)
      BY <3>1 DEF get, StartRead, Call
    <3>2. CASE ShareCur(t, "g_lock", "g_cur")
      BY <3>2 DEF ShareCur
    <3>3. CASE GetCur(t)
      BY <3>3, GetCurType
    <3>4. CASE ShareFrozen(t, "g_frozen_lock", "g_frozen")
      BY <3>4 DEF ShareFrozen
    <3>5. CASE GetFrozen(t)
      BY <3>5, GetFrozenType
    <3>6. CASE GetDeref(t)
      BY <3>6, GetDerefType
    <3>7. CASE ReadReturn(t, "g_done")
      BY <3>7 DEF ReadReturn
    <3> QED BY <2>4, <3>1, <3>2, <3>3, <3>4, <3>5, <3>6, <3>7 DEF Get
  <2>5. CASE GetBatch(t)
    <3>1. CASE get_batch(t)
      BY <3>1, MemTableAssumption DEF get_batch, StartRead, Call
    <3>2. CASE ShareCur(t, "b_lock", "b_cur")
      BY <3>2 DEF ShareCur
    <3>3. CASE BatchCur(t)
      BY <3>3, BatchCurType
    <3>4. CASE ShareFrozen(t, "b_frozen_lock", "b_frozen")
      BY <3>4 DEF ShareFrozen
    <3>5. CASE BatchFrozen(t)
      BY <3>5, BatchFrozenType
    <3> QED BY <2>5, <3>1, <3>2, <3>3, <3>4, <3>5 DEF GetBatch
  <2>6. CASE Scan(t)
    <3>1. CASE begin(t)
      BY <3>1 DEF begin, StartRead, Call
    <3>2. CASE iters_range(t)
      BY <3>2 DEF iters_range, StartRead, Call
    <3>3. CASE ShareCur(t, "s_lock", "s_frozen_lock")
      BY <3>3 DEF ShareCur
    <3>4. CASE ShareFrozen(t, "s_frozen_lock", "s_snapshot")
      BY <3>4 DEF ShareFrozen
    <3>5. CASE ScanSnapshot(t)
      BY <3>5, ScanSnapshotType
    <3>6. CASE ReadReturn(t, "s_done")
      BY <3>6 DEF ReadReturn
    <3> QED BY <2>6, <3>1, <3>2, <3>3, <3>4, <3>5, <3>6 DEF Scan
  <2>7. CASE TotalSize(t)
    <3>1. CASE get_total_size(t)
      BY <3>1 DEF get_total_size, Call
    <3>2. CASE ShareCur(t, "t_lock", "t_frozen_lock")
      BY <3>2 DEF ShareCur
    <3>3. CASE ShareFrozen(t, "t_frozen_lock", "t_frozen")
      BY <3>3 DEF ShareFrozen
    <3>4. CASE SizeFrozen(t)
      BY <3>4 DEF SizeFrozen
    <3>5. CASE SizeCur(t)
      BY <3>5, SizeCurType
    <3>6. CASE SizeReturn(t)
      BY <3>6 DEF SizeReturn
    <3> QED BY <2>7, <3>1, <3>2, <3>3, <3>4, <3>5, <3>6 DEF TotalSize
  <2>8. CASE Flush(t)
    <3>1. CASE flush_last(t)
      BY <3>1 DEF flush_last, Call
    <3>2. CASE FlushLock(t)
      BY <3>2 DEF FlushLock
    <3>3. CASE FlushNothing(t)
      BY <3>3 DEF FlushNothing
    <3>4. CASE FlushPush(t)
      BY <3>4, FlushPushType
    <3>5. CASE FlushSwap(t)
      BY <3>5, FlushSwapType
    <3>6. CASE FlushPop(t)
      BY <3>6, FlushPopType
    <3>7. CASE FlushBuild(t)
      BY <3>7, FlushBuildType
    <3> QED BY <2>8, <3>1, <3>2, <3>3, <3>4, <3>5, <3>6, <3>7 DEF Flush
  <2> QED BY <1>2, <2>1, <2>2, <2>3, <2>4, <2>5, <2>6, <2>7, <2>8 DEF Step
<1>3. CASE AllDone /\ UNCHANGED vars
  BY <1>1, <1>3
<1> QED BY <1>1, <1>2, <1>3 DEF Next

\* No step takes away what a thread has in hand.
LEMMA HandStep == TypeInv /\ [Next]_vars => InHand'
<1> SUFFICES ASSUME TypeInv, [Next]_vars PROVE InHand'
  OBVIOUS
<1> USE DEF TypeInv, InHand, Goto, shared, locals, history
<1>1. CASE UNCHANGED vars
  BY <1>1 DEF vars
<1>2. ASSUME NEW t \in Thread, Step(t) PROVE InHand'
  <2>1. CASE Write(t)
    <3>1. CASE put(t)
      BY <3>1 DEF put, StartWrite, Call
    <3>2. CASE put_batch(t)
      BY <3>2 DEF put_batch, StartWrite, Call
    <3>3. CASE remove(t)
      BY <3>3 DEF remove, StartWrite, Call
    <3>4. CASE remove_batch(t)
      BY <3>4 DEF remove_batch, StartWrite, Call
    <3>5. CASE WriteLock(t)
      BY <3>5, WriteLockHand
    <3>6. CASE WriteInsert(t)
      BY <3>6, WriteInsertHand
    <3>7. CASE WriteNext(t)
      BY <3>7, WriteNextHand
    <3>8. CASE WriteReturn(t)
      BY <3>8 DEF WriteReturn
    <3>9. CASE WriteFull(t)
      BY <3>9 DEF WriteFull
    <3> QED BY <2>1, <3>1, <3>2, <3>3, <3>4, <3>5, <3>6, <3>7, <3>8, <3>9 DEF Write
  <2>2. CASE FreezeStep(t)
    <3>1. CASE frozen_cur_table(t)
      BY <3>1 DEF frozen_cur_table, Call
    <3>2. CASE FreezeCurLock(t)
      BY <3>2 DEF FreezeCurLock
    <3>3. CASE FreezeLock(t)
      BY <3>3 DEF FreezeLock
    <3>4. CASE Freeze(t)
      BY <3>4 DEF Freeze
    <3> QED BY <2>2, <3>1, <3>2, <3>3, <3>4 DEF FreezeStep
  <2>3. CASE ClearStep(t)
    <3>1. CASE clear(t)
      BY <3>1 DEF clear, Call
    <3>2. CASE ClearCurLock(t)
      BY <3>2 DEF ClearCurLock
    <3>3. CASE ClearFrozenLock(t)
      BY <3>3 DEF ClearFrozenLock
    <3>4. CASE ClearTables(t)
      BY <3>4, ClearTablesHand
    <3> QED BY <2>3, <3>1, <3>2, <3>3, <3>4 DEF ClearStep
  <2>4. CASE Get(t)
    <3>1. CASE get(t)
      BY <3>1 DEF get, StartRead, Call
    <3>2. CASE ShareCur(t, "g_lock", "g_cur")
      BY <3>2 DEF ShareCur
    <3>3. CASE GetCur(t)
      BY <3>3 DEF GetCur
    <3>4. CASE ShareFrozen(t, "g_frozen_lock", "g_frozen")
      BY <3>4 DEF ShareFrozen
    <3>5. CASE GetFrozen(t)
      BY <3>5 DEF GetFrozen
    <3>6. CASE GetDeref(t)
      BY <3>6 DEF GetDeref
    <3>7. CASE ReadReturn(t, "g_done")
      BY <3>7 DEF ReadReturn
    <3> QED BY <2>4, <3>1, <3>2, <3>3, <3>4, <3>5, <3>6, <3>7 DEF Get
  <2>5. CASE GetBatch(t)
    <3>1. CASE get_batch(t)
      BY <3>1 DEF get_batch, StartRead, Call
    <3>2. CASE ShareCur(t, "b_lock", "b_cur")
      BY <3>2 DEF ShareCur
    <3>3. CASE BatchCur(t)
      BY <3>3, BatchCurHand
    <3>4. CASE ShareFrozen(t, "b_frozen_lock", "b_frozen")
      BY <3>4 DEF ShareFrozen
    <3>5. CASE BatchFrozen(t)
      BY <3>5 DEF BatchFrozen
    <3> QED BY <2>5, <3>1, <3>2, <3>3, <3>4, <3>5 DEF GetBatch
  <2>6. CASE Scan(t)
    <3>1. CASE begin(t)
      BY <3>1 DEF begin, StartRead, Call
    <3>2. CASE iters_range(t)
      BY <3>2 DEF iters_range, StartRead, Call
    <3>3. CASE ShareCur(t, "s_lock", "s_frozen_lock")
      BY <3>3 DEF ShareCur
    <3>4. CASE ShareFrozen(t, "s_frozen_lock", "s_snapshot")
      BY <3>4 DEF ShareFrozen
    <3>5. CASE ScanSnapshot(t)
      BY <3>5 DEF ScanSnapshot
    <3>6. CASE ReadReturn(t, "s_done")
      BY <3>6 DEF ReadReturn
    <3> QED BY <2>6, <3>1, <3>2, <3>3, <3>4, <3>5, <3>6 DEF Scan
  <2>7. CASE TotalSize(t)
    <3>1. CASE get_total_size(t)
      BY <3>1 DEF get_total_size, Call
    <3>2. CASE ShareCur(t, "t_lock", "t_frozen_lock")
      BY <3>2 DEF ShareCur
    <3>3. CASE ShareFrozen(t, "t_frozen_lock", "t_frozen")
      BY <3>3 DEF ShareFrozen
    <3>4. CASE SizeFrozen(t)
      BY <3>4 DEF SizeFrozen
    <3>5. CASE SizeCur(t)
      BY <3>5 DEF SizeCur
    <3>6. CASE SizeReturn(t)
      BY <3>6 DEF SizeReturn
    <3> QED BY <2>7, <3>1, <3>2, <3>3, <3>4, <3>5, <3>6 DEF TotalSize
  <2>8. CASE Flush(t)
    <3>1. CASE flush_last(t)
      BY <3>1 DEF flush_last, Call
    <3>2. CASE FlushLock(t)
      BY <3>2 DEF FlushLock
    <3>3. CASE FlushNothing(t)
      BY <3>3 DEF FlushNothing
    <3>4. CASE FlushPush(t)
      BY <3>4 DEF FlushPush
    <3>5. CASE FlushSwap(t)
      BY <3>5 DEF FlushSwap
    <3>6. CASE FlushPop(t)
      BY <3>6, FlushPopHand
    <3>7. CASE FlushBuild(t)
      BY <3>7, FlushBuildHand
    <3> QED BY <2>8, <3>1, <3>2, <3>3, <3>4, <3>5, <3>6, <3>7 DEF Flush
  <2> QED BY <1>2, <2>1, <2>2, <2>3, <2>4, <2>5, <2>6, <2>7, <2>8 DEF Step
<1>3. CASE AllDone /\ UNCHANGED vars
  BY <1>1, <1>3
<1> QED BY <1>1, <1>2, <1>3 DEF Next

-----------------------------------------------------------------------------
(* The theorems.                                                           *)

\* The state MemTable is constructed in.
LEMMA TypeInit == Init => TypeInv
<1>1. ASSUME Init PROVE LockInv
  BY <1>1, MemTableAssumption DEF Init, LockInv, LockDiscipline, MutexType, Unlocked,
     PCs, Reading, Holding, HoldingFrozen, Sharing, SharingFrozen
<1>2. ASSUME Init PROVE DataOK
  BY <1>2, TableAssumption, MemTableAssumption, EmptyTableType
     DEF Init, DataOK, NoEntries, Map
<1>3. ASSUME Init PROVE InHand
  BY <1>3 DEF Init, InHand
<1> QED BY <1>1, <1>2, <1>3 DEF TypeInv

\* The inductive invariant holds throughout.
THEOREM TypeInvariant == Spec => []TypeInv
<1>1. TypeInv /\ [Next]_vars => TypeInv'
  BY LockStep, TypeStep, HandStep DEF TypeInv
<1> QED BY <1>1, TypeInit, PTL DEF Spec

\* Every value has its type and no pointer dangles, for every set of threads,
\* keys and batches and every size limit, even while flush_last swaps the active
\* table without cur_mtx.
THEOREM Types == Spec => []TypeOK
<1>1. TypeInv => TypeOK
  BY DEF TypeInv, LockInv, DataOK, TypeOK
<1> QED BY <1>1, TypeInvariant, PTL

\* Where the code relies on what a thread has in hand, it has it: put_ never
\* goes through a null pointer, flush_last never takes the last table of an
\* empty list, get_batch never completes answers it does not have.
THEOREM Hands == Spec => []InHand
<1>1. TypeInv => InHand
  BY DEF TypeInv
<1> QED BY <1>1, TypeInvariant, PTL

\* The callers' side of the bargain: flush_last replaces the active table
\* without cur_mtx, so it may run beside readers, freezers, cleaners and other
\* flushers, not beside a writer.
NoRacingFlush == \A f \in Flushers, w \in Writers : f = w

-----------------------------------------------------------------------------
(* What a search through a list of tables answers.                         *)

HitsIn(T, order, k) == {i \in DOMAIN order : T[order[i]].map[k] # None}

\* The entry in the first table that has one, and otherwise the one in s.
ValueIn(T, order, s, k) ==
  IF HitsIn(T, order, k) = {} THEN s[k]
  ELSE T[order[CHOOSE i \in HitsIn(T, order, k) :
                          \A j \in HitsIn(T, order, k) : i <= j]].map[k]

NoHit(T, order, k) == \A j \in DOMAIN order : T[order[j]].map[k] = None

FirstAt(T, order, k, i) ==
  /\ T[order[i]].map[k] # None
  /\ \A j \in DOMAIN order : j < i => T[order[j]].map[k] = None

\* The search stops at the first hit.
LEMMA ValueIs ==
  ASSUME NEW T, NEW S, NEW order \in Seq(S), NEW s, NEW k, NEW i \in DOMAIN order,
         FirstAt(T, order, k, i)
  PROVE  ValueIn(T, order, s, k) = T[order[i]].map[k]
<1> DEFINE H == HitsIn(T, order, k)
           c == CHOOSE x \in H : \A j \in H : x <= j
<1>1. i \in H /\ H \subseteq DOMAIN order /\ DOMAIN order \subseteq Nat
  BY DEF HitsIn, FirstAt
<1>2. \A j \in H : i <= j
  BY <1>1 DEF HitsIn, FirstAt
<1>3. c \in H /\ \A j \in H : c <= j
  BY <1>1, <1>2
<1>4. c \in Nat /\ i \in Nat /\ c <= i /\ i <= c
  BY <1>1, <1>2, <1>3
<1>5. c = i
  <2> HIDE DEF c
  <2> QED BY <1>4
<1>6. H # {}
  BY <1>1
<1> QED BY <1>5, <1>6 DEF ValueIn

\* Without a hit the answer comes from s.
LEMMA ValueNone ==
  ASSUME NEW T, NEW order, NEW s, NEW k, NoHit(T, order, k)
  PROVE  ValueIn(T, order, s, k) = s[k]
  BY DEF ValueIn, HitsIn, NoHit

\* There is a first hit or none.
LEMMA FirstOrNone ==
  ASSUME NEW T, NEW S, NEW order \in Seq(S), NEW k
  PROVE  NoHit(T, order, k) \/ \E i \in DOMAIN order : FirstAt(T, order, k, i)
<1> DEFINE H == HitsIn(T, order, k)
<1>1. CASE H = {}
  BY <1>1 DEF HitsIn, NoHit
<1>2. CASE H # {}
  <2>1. H \in SUBSET Nat
    BY DEF HitsIn
  <2>2. PICK i \in H : \A j \in H : i <= j
    BY <1>2, <2>1, Least
  <2>3. i \in DOMAIN order /\ T[order[i]].map[k] # None
    BY DEF HitsIn
  <2>4. ASSUME NEW j \in DOMAIN order, j < i PROVE T[order[j]].map[k] = None
    <3>1. j \in Nat /\ i \in Nat /\ ~(i <= j)
      BY <2>1, <2>4
    <3>2. j \notin H
      BY <2>2, <3>1
    <3> QED BY <3>2 DEF HitsIn
  <2> QED BY <2>3, <2>4 DEF FirstAt
<1> QED BY <1>1, <1>2

Agree(T, U, order, k) ==
  \A i \in DOMAIN order : T[order[i]].map[k] = U[order[i]].map[k]

\* Only what the tables say about the key matters.
LEMMA ValueSame ==
  ASSUME NEW T, NEW U, NEW S, NEW order \in Seq(S), NEW s, NEW r, NEW k,
         Agree(T, U, order, k), s[k] = r[k]
  PROVE  ValueIn(T, order, s, k) = ValueIn(U, order, r, k)
<1>1. CASE NoHit(T, order, k)
  <2>1. NoHit(U, order, k)
    BY <1>1 DEF NoHit, Agree
  <2> QED BY <1>1, <2>1, ValueNone
<1>2. ASSUME NEW i \in DOMAIN order, FirstAt(T, order, k, i)
      PROVE  ValueIn(T, order, s, k) = ValueIn(U, order, r, k)
  <2>1. ValueIn(T, order, s, k) = T[order[i]].map[k]
    BY <1>2, ValueIs
  <2>2. FirstAt(U, order, k, i)
    BY <1>2 DEF FirstAt, Agree
  <2>3. ValueIn(U, order, r, k) = U[order[i]].map[k]
    BY <2>2, ValueIs
  <2> QED BY <1>2, <2>1, <2>3 DEF Agree
<1> QED BY <1>1, <1>2, FirstOrNone

\* The entry of a key in one table.
At(T, p, k) == T[p].map[k]

\* A hit in the table in front ends the search.
LEMMA ValueFront ==
  ASSUME NEW T, NEW S, NEW p \in S, NEW order \in Seq(S), NEW s, NEW k,
         At(T, p, k) # None
  PROVE  ValueIn(T, <<p>> \o order, s, k) = At(T, p, k)
<1> DEFINE o == <<p>> \o order
<1>1. o \in Seq(S) /\ 1 \in DOMAIN o /\ o[1] = p /\ \A j \in DOMAIN o : ~(j < 1)
  OBVIOUS
<1> HIDE DEF o
<1>2. FirstAt(T, o, k, 1)
  BY <1>1 DEF FirstAt, At
<1>3. ValueIn(T, o, s, k) = T[o[1]].map[k]
  BY <1>1, <1>2, ValueIs
<1> QED BY <1>1, <1>3 DEF o, At

\* A table without the key in front changes nothing.
LEMMA ValueSkip ==
  ASSUME NEW T, NEW S, NEW p \in S, NEW order \in Seq(S), NEW s, NEW k,
         At(T, p, k) = None
  PROVE  ValueIn(T, <<p>> \o order, s, k) = ValueIn(T, order, s, k)
<1> DEFINE o == <<p>> \o order
<1>0. /\ o \in Seq(S)
      /\ Len(o) = Len(order) + 1
      /\ Len(order) \in Nat
      /\ DOMAIN o = 1 .. Len(order) + 1
      /\ DOMAIN order = 1 .. Len(order)
      /\ o[1] = p
      /\ \A i \in DOMAIN order : o[i + 1] = order[i]
  OBVIOUS
<1> HIDE DEF o
<1>1. \A j \in DOMAIN o : j = 1 \/ (j - 1 \in DOMAIN order /\ o[j] = order[j - 1])
  <2> TAKE j \in DOMAIN o
  <2>1. j # 1 => j - 1 \in DOMAIN order /\ j = (j - 1) + 1
    BY <1>0
  <2> QED BY <1>0, <2>1
<1>2. CASE NoHit(T, order, k)
  <2>1. NoHit(T, o, k)
    BY <1>0, <1>1, <1>2 DEF NoHit, At
  <2>2. ValueIn(T, o, s, k) = s[k]
    BY <2>1, ValueNone
  <2>3. ValueIn(T, order, s, k) = s[k]
    BY <1>2, ValueNone
  <2> QED BY <2>2, <2>3 DEF o
<1>3. ASSUME NEW i \in DOMAIN order, FirstAt(T, order, k, i)
      PROVE  ValueIn(T, o, s, k) = ValueIn(T, order, s, k)
  <2>1. i + 1 \in DOMAIN o /\ o[i + 1] = order[i] /\ i \in Nat
    BY <1>0
  <2>2. ASSUME NEW j \in DOMAIN o, j < i + 1 PROVE T[o[j]].map[k] = None
    <3>1. CASE j = 1
      BY <1>0, <3>1 DEF At
    <3>2. CASE j - 1 \in DOMAIN order /\ o[j] = order[j - 1]
      <4>1. j - 1 < i
        BY <2>1, <2>2, <1>0
      <4>2. T[order[j - 1]].map[k] = None
        BY <1>3, <3>2, <4>1 DEF FirstAt
      <4> QED BY <3>2, <4>2
    <3> QED BY <1>1, <3>1, <3>2
  <2>5. FirstAt(T, o, k, i + 1)
    BY <1>3, <2>1, <2>2 DEF FirstAt
  <2>3. ValueIn(T, o, s, k) = T[o[i + 1]].map[k]
    BY <1>0, <2>1, <2>5, ValueIs
  <2>4. ValueIn(T, order, s, k) = T[order[i]].map[k]
    BY <1>3, ValueIs
  <2> QED BY <2>1, <2>3, <2>4
<1> QED BY <1>2, <1>3, FirstOrNone DEF o

\* r has for k what table p adds to s.
Merged(T, p, s, r, k) ==
  r[k] = IF T[p].map[k] # None THEN T[p].map[k] ELSE s[k]

\* The last table of the list may as well be merged into s.
LEMMA ValueBack ==
  ASSUME NEW T, NEW S, NEW p \in S, NEW order \in Seq(S), NEW s, NEW r, NEW k,
         Merged(T, p, s, r, k)
  PROVE  ValueIn(T, order \o <<p>>, s, k) = ValueIn(T, order, r, k)
<1> DEFINE o == order \o <<p>>
           n == Len(order) + 1
<1>0. /\ o \in Seq(S)
      /\ Len(order) \in Nat
      /\ DOMAIN o = 1 .. Len(order) + 1
      /\ DOMAIN order = 1 .. Len(order)
      /\ o[Len(order) + 1] = p
      /\ \A i \in DOMAIN order : i \in DOMAIN o /\ o[i] = order[i]
  OBVIOUS
<1> HIDE DEF o
<1>1. n \in DOMAIN o /\ o[n] = p /\ \A j \in DOMAIN o : j = n \/ (j \in DOMAIN order /\ j < n)
  BY <1>0
<1>2. CASE NoHit(T, order, k)
  <2>1. ValueIn(T, order, r, k) = r[k]
    BY <1>2, ValueNone
  <2>2. \A j \in DOMAIN o : j # n => T[o[j]].map[k] = None
    BY <1>0, <1>1, <1>2 DEF NoHit
  <2>3. CASE T[p].map[k] = None
    <3>1. NoHit(T, o, k)
      BY <1>1, <2>2, <2>3 DEF NoHit
    <3> QED BY <2>1, <2>3, <3>1, ValueNone DEF o, Merged
  <2>4. CASE T[p].map[k] # None
    <3>1. FirstAt(T, o, k, n)
      BY <1>0, <1>1, <2>2, <2>4 DEF FirstAt
    <3>2. ValueIn(T, o, s, k) = T[o[n]].map[k]
      <4> HIDE DEF n
      <4> QED BY <1>0, <1>1, <3>1, ValueIs
    <3> QED BY <1>1, <2>1, <2>4, <3>2 DEF o, Merged
  <2> QED BY <2>3, <2>4
<1>3. ASSUME NEW i \in DOMAIN order, FirstAt(T, order, k, i)
      PROVE  ValueIn(T, o, s, k) = ValueIn(T, order, r, k)
  <2>1. i \in DOMAIN o /\ o[i] = order[i]
    BY <1>0
  <2>2. \A j \in DOMAIN o : j < i => j \in DOMAIN order /\ o[j] = order[j]
    BY <1>0
  <2>5. FirstAt(T, o, k, i)
    BY <1>3, <2>1, <2>2 DEF FirstAt
  <2>3. ValueIn(T, o, s, k) = T[o[i]].map[k]
    BY <1>0, <2>1, <2>5, ValueIs
  <2>4. ValueIn(T, order, r, k) = T[order[i]].map[k]
    BY <1>3, ValueIs
  <2> QED BY <2>1, <2>3, <2>4
<1> QED BY <1>2, <1>3, FirstOrNone DEF o

-----------------------------------------------------------------------------
(* The order of the search, with and without a flush at its last step.     *)

\* Nobody is writing a table out.
LEMMA OrderAtRest ==
  ASSUME DataOK, \A u \in Thread : pc[u] # "f_build"
  PROVE  Order = <<current>> \o frozen
<1>1. InFlight = {}
  BY DEF InFlight
<1>2. <<current>> \o frozen \in Seq(DOMAIN tables)
  BY FrontType
<1>3. (<<current>> \o frozen) \o << >> = <<current>> \o frozen
  BY <1>2
<1> QED BY <1>1, <1>3 DEF Order

\* A thread that holds frozen_mtx is the only one that can be.
LEMMA OrderHeld ==
  ASSUME TypeInv, NEW t \in Thread, pc[t] \in HoldingFrozen, pc[t] # "f_build"
  PROVE  Order = <<current>> \o frozen
<1>1. \A u \in Thread : u # t => pc[u] # "f_build"
  BY OneFlusher DEF TypeInv
<1> QED BY <1>1, OrderAtRest DEF TypeInv

\* One thread is.
LEMMA OrderFlushing ==
  ASSUME TypeInv, NEW t \in Thread, pc[t] = "f_build"
  PROVE  Order = (<<current>> \o frozen) \o <<ptr[t]>>
<1>1. \A u \in Thread : u # t => pc[u] # "f_build"
  BY OneFlusher DEF TypeInv, HoldingFrozen
<1>2. InFlight = {t}
  BY <1>1 DEF InFlight
<1>3. (CHOOSE u \in InFlight : TRUE) = t
  BY <1>2
<1> QED BY <1>2, <1>3 DEF Order

-----------------------------------------------------------------------------
(* The inductive invariant.                                                *)

\* What a search through the order finds, by the value it comes to.
Kept == \A k \in Key : ValueIn(tables, Order, sst, k) = latest[k]

\* Who is where, as far as the swap of the active table is concerned.
Roles ==
  \A t \in Thread :
    /\ pc[t] \in {"w_lock", "w_insert", "w_next"} => t \in Writers
    /\ pc[t] \in {"f_lock", "f_empty", "f_swap"} => t \in Flushers

\* flush_last between its look at the list and the swap.
Swapping ==
  \A t \in Thread :
    /\ pc[t] = "f_empty" => frozen = << >>
    /\ pc[t] = "f_swap" => frozen = <<current>>

SafeInv == TypeInv /\ Roles /\ Swapping /\ WriterOnActiveTable /\ Kept

\* What get_total_size has added up so far.
Adding ==
  \A t \in Thread :
    /\ pc[t] = "t_cur" => size[t] = frozen_bytes
    /\ pc[t] = "t_return" => size[t] = (frozen_bytes + tables[current].bytes) % SizeMod

\* A step of t that leaves the tables, the SSTs and the other threads alone and
\* does not end where one of the invariants asks for more than it did before.
Quiet(t) ==
  /\ UNCHANGED <<shared, sst, latest>>
  /\ \A u \in Thread : u # t => pc'[u] = pc[u] /\ ptr'[u] = ptr[u] /\ size'[u] = size[u]
  /\ pc[t] # "f_build" /\ pc'[t] \notin {"f_build", "f_swap"}
  /\ pc'[t] \in {"w_lock", "w_insert", "w_next"} =>
       t \in Writers \/ pc[t] \in {"w_lock", "w_insert", "w_next"}
  /\ pc'[t] \in {"f_lock", "f_empty"} => t \in Flushers \/ pc[t] = "f_lock"
  /\ pc'[t] = "f_empty" => frozen = << >>
  /\ pc'[t] = "w_insert" => ptr'[t] = current
  /\ pc'[t] = "t_cur" => size'[t] = frozen_bytes
  /\ pc'[t] = "t_return" =>
       pc[t] = "t_cur" /\ size'[t] = (size[t] + tables[current].bytes) % SizeMod

\* The seven steps that move data.
Busy(t) ==
  \/ WriteInsert(t) \/ Freeze(t) \/ ClearTables(t)
  \/ FlushPush(t) \/ FlushSwap(t) \/ FlushPop(t) \/ FlushBuild(t)

\* All others are quiet.
LEMMA QuietOrBusy ==
  ASSUME TypeInv, NEW t \in Thread, Step(t)
  PROVE  Quiet(t) \/ Busy(t)
<1> SUFFICES ASSUME ~Busy(t) PROVE Quiet(t)
  OBVIOUS
<1> USE DEF TypeInv, LockInv, DataOK, Quiet, Goto, shared, locals, history
<1>1. CASE Write(t)
  <2>1. CASE put(t) \/ put_batch(t) \/ remove(t) \/ remove_batch(t)
    <3>1. /\ t \in Writers
          /\ pc' = [pc EXCEPT ![t] = "w_lock"] /\ pc[t] = "idle"
          /\ UNCHANGED <<shared, sst, latest, ptr, size>>
      BY <2>1 DEF put, put_batch, remove, remove_batch, StartWrite, Call
    <3> QED BY <3>1
  <2>2. CASE WriteLock(t)
    BY <2>2 DEF WriteLock
  <2>3. CASE WriteNext(t)
    BY <2>3 DEF WriteNext
  <2>4. CASE WriteReturn(t)
    BY <2>4 DEF WriteReturn
  <2>5. CASE WriteFull(t)
    BY <2>5 DEF WriteFull
  <2> QED BY <1>1, <2>1, <2>2, <2>3, <2>4, <2>5 DEF Write, Busy
<1>2. CASE FreezeStep(t)
  BY <1>2 DEF FreezeStep, Busy, frozen_cur_table, Call, FreezeCurLock, FreezeLock
<1>3. CASE ClearStep(t)
  BY <1>3 DEF ClearStep, Busy, clear, Call, ClearCurLock, ClearFrozenLock
<1>4. CASE Get(t)
  <2>1. CASE get(t)
    BY <2>1 DEF get, StartRead, Call
  <2>2. CASE ShareCur(t, "g_lock", "g_cur")
    BY <2>2 DEF ShareCur
  <2>3. CASE GetCur(t)
    <3> DEFINE p == FirstHit(<<current>>, Wanted(t))
               to == IF p # 0 THEN "g_deref" ELSE "g_frozen_lock"
    <3>1. /\ pc' = [pc EXCEPT ![t] = to] /\ pc[t] = "g_cur"
          /\ to \in {"g_deref", "g_frozen_lock"}
          /\ ptr' = [ptr EXCEPT ![t] = p]
          /\ UNCHANGED <<shared, sst, latest, size>>
      BY <2>3 DEF GetCur
    <3> HIDE DEF p, to
    <3> QED BY <3>1
  <2>4. CASE ShareFrozen(t, "g_frozen_lock", "g_frozen")
    BY <2>4 DEF ShareFrozen
  <2>5. CASE GetFrozen(t)
    BY <2>5 DEF GetFrozen
  <2>6. CASE GetDeref(t)
    BY <2>6 DEF GetDeref
  <2>7. CASE ReadReturn(t, "g_done")
    BY <2>7 DEF ReadReturn
  <2> QED BY <1>4, <2>1, <2>2, <2>3, <2>4, <2>5, <2>6, <2>7 DEF Get
<1>5. CASE GetBatch(t)
  <2>1. CASE get_batch(t)
    BY <2>1 DEF get_batch, StartRead, Call
  <2>2. CASE ShareCur(t, "b_lock", "b_cur")
    BY <2>2 DEF ShareCur
  <2>3. CASE BatchCur(t)
    <3>1. PICK to \in {"g_done", "b_frozen_lock"} :
            /\ pc' = [pc EXCEPT ![t] = to] /\ pc[t] = "b_cur"
            /\ UNCHANGED <<shared, sst, latest, ptr, size>>
      BY <2>3 DEF BatchCur
    <3> QED BY <3>1
  <2>4. CASE ShareFrozen(t, "b_frozen_lock", "b_frozen")
    BY <2>4 DEF ShareFrozen
  <2>5. CASE BatchFrozen(t)
    BY <2>5 DEF BatchFrozen
  <2> QED BY <1>5, <2>1, <2>2, <2>3, <2>4, <2>5 DEF GetBatch
<1>6. CASE Scan(t)
  <2>1. CASE begin(t) \/ iters_range(t)
    BY <2>1 DEF begin, iters_range, StartRead, Call
  <2>2. CASE ShareCur(t, "s_lock", "s_frozen_lock")
    BY <2>2 DEF ShareCur
  <2>3. CASE ShareFrozen(t, "s_frozen_lock", "s_snapshot")
    BY <2>3 DEF ShareFrozen
  <2>4. CASE ScanSnapshot(t)
    BY <2>4 DEF ScanSnapshot
  <2>5. CASE ReadReturn(t, "s_done")
    BY <2>5 DEF ReadReturn
  <2> QED BY <1>6, <2>1, <2>2, <2>3, <2>4, <2>5 DEF Scan
<1>7. CASE TotalSize(t)
  <2>1. CASE get_total_size(t)
    BY <2>1 DEF get_total_size, Call
  <2>2. CASE ShareCur(t, "t_lock", "t_frozen_lock")
    BY <2>2 DEF ShareCur
  <2>3. CASE ShareFrozen(t, "t_frozen_lock", "t_frozen")
    BY <2>3 DEF ShareFrozen
  <2>4. CASE SizeFrozen(t)
    BY <2>4 DEF SizeFrozen
  <2>5. CASE SizeCur(t)
    BY <2>5 DEF SizeCur
  <2>6. CASE SizeReturn(t)
    BY <2>6 DEF SizeReturn
  <2> QED BY <1>7, <2>1, <2>2, <2>3, <2>4, <2>5, <2>6 DEF TotalSize
<1>8. CASE Flush(t)
  <2>1. CASE flush_last(t)
    BY <2>1 DEF flush_last, Call
  <2>2. CASE FlushLock(t)
    BY <2>2 DEF FlushLock
  <2>3. CASE FlushNothing(t)
    BY <2>3 DEF FlushNothing
  <2> QED BY <1>8, <2>1, <2>2, <2>3 DEF Flush, Busy
<1> QED BY <1>1, <1>2, <1>3, <1>4, <1>5, <1>6, <1>7, <1>8 DEF Step

-----------------------------------------------------------------------------
(* get_total_size, whoever else runs.                                      *)

\* While a thread adds up the sizes nobody owns either mutex.
LEMMA NobodyOwns ==
  ASSUME LockInv, NEW t \in Thread, pc[t] \in {"t_cur", "t_return"}, NEW u \in Thread
  PROVE  pc[u] \notin Holding \cup HoldingFrozen
<1>1. t \in cur_mtx.readers /\ t \in frozen_mtx.readers
  BY DEF LockInv, LockDiscipline, Sharing, SharingFrozen
<1>2. cur_mtx.writer = NoThread /\ frozen_mtx.writer = NoThread
  BY <1>1 DEF LockInv, LockDiscipline
<1> QED BY <1>2, MemTableAssumption DEF LockInv, LockDiscipline

\* A busy step is one of a thread that owns a mutex, and none that adds sizes.
LEMMA BusyOwns ==
  ASSUME LockInv, NEW t \in Thread, Busy(t)
  PROVE  /\ pc[t] \in Holding \cup HoldingFrozen
         /\ \A u \in Thread : u # t => pc'[u] = pc[u]
         /\ pc'[t] \notin {"t_cur", "t_return"}
<1>1. PICK to \in {"w_next", "w_check", "idle", "f_swap", "f_pop", "f_build"} :
        pc' = [pc EXCEPT ![t] = to]
  BY DEF Busy, WriteInsert, Freeze, ClearTables, FlushPush, FlushSwap, FlushPop,
     FlushBuild, Goto
<1>2. pc[t] \in Holding \cup HoldingFrozen
  BY DEF Busy, WriteInsert, Freeze, ClearTables, FlushPush, FlushSwap, FlushPop,
     FlushBuild, Goto, Holding, HoldingFrozen
<1> QED BY <1>1, <1>2 DEF LockInv

\* The sum is kept until it is returned.
LEMMA AddingStep == TypeInv /\ Adding /\ [Next]_vars => Adding'
<1> SUFFICES ASSUME TypeInv, Adding, [Next]_vars PROVE Adding'
  OBVIOUS
<1>1. CASE UNCHANGED vars
  BY <1>1 DEF vars, shared, locals, Adding
<1>2. ASSUME NEW t \in Thread, Step(t) PROVE Adding'
  <2>1. CASE Quiet(t)
    BY <2>1 DEF Adding, Quiet, shared
  <2>2. CASE Busy(t)
    <3>1. \A u \in Thread : pc'[u] \notin {"t_cur", "t_return"}
      BY <2>2, BusyOwns, NobodyOwns DEF TypeInv
    <3> QED BY <3>1 DEF Adding
  <2> QED BY <1>2, <2>1, <2>2, QuietOrBusy
<1>3. CASE AllDone /\ UNCHANGED vars
  BY <1>1, <1>3
<1> QED BY <1>1, <1>2, <1>3 DEF Next

\* get_total_size adds two numbers of the same moment, for any threads in any
\* roles, flush_last included: whoever changes a size owns one of the mutexes
\* that the call holds shared, although it looks at the two sizes one by one.
THEOREM TotalSizes == Spec => []TotalSizeIsAtomic
<1>1. Init => Adding
  BY DEF Init, Adding
<1>2. Adding => TotalSizeIsAtomic
  BY DEF Adding, TotalSizeIsAtomic
<1> QED BY <1>1, <1>2, AddingStep, TypeInvariant, PTL DEF Spec

-----------------------------------------------------------------------------
(* Lost writes.                                                            *)

\* The search order after a step that leaves nobody writing a table out.
LEMMA NextOrderAtRest ==
  ASSUME NEW S, current' \in S, frozen' \in Seq(S), \A u \in Thread : pc'[u] # "f_build"
  PROVE  Order' = <<current'>> \o frozen'
<1>1. InFlight' = {}
  BY DEF InFlight
<1>2. (<<current'>> \o frozen') \o << >> = <<current'>> \o frozen'
  OBVIOUS
<1> QED BY <1>1, <1>2 DEF Order

\* The search order after a step that none of its parts notices.
LEMMA SameOrder ==
  ASSUME UNCHANGED <<current, frozen>>, NEW t \in Thread, pc[t] # "f_build", pc'[t] # "f_build",
         \A u \in Thread : u # t => pc'[u] = pc[u] /\ ptr'[u] = ptr[u]
  PROVE  Order' = Order
<1>1. InFlight' = InFlight /\ t \notin InFlight
  BY DEF InFlight
<1>2. CASE InFlight = {}
  BY <1>1, <1>2 DEF Order
<1>3. CASE InFlight # {}
  <2> DEFINE u == CHOOSE u \in InFlight : TRUE
  <2>1. u \in Thread /\ u # t
    BY <1>1, <1>3 DEF InFlight
  <2>2. ptr'[u] = ptr[u]
    BY <2>1
  <2> QED BY <1>1, <2>2 DEF Order
<1> QED BY <1>2, <1>3

\* The active table comes first.
LEMMA OrderFront ==
  ASSUME TypeInv
  PROVE  \E rest \in Seq(DOMAIN tables) : Order = <<current>> \o rest
<1>0. current \in DOMAIN tables /\ frozen \in Seq(DOMAIN tables)
  BY DEF TypeInv, DataOK
<1>1. CASE \A u \in Thread : pc[u] # "f_build"
  BY <1>0, <1>1, OrderAtRest DEF TypeInv
<1>2. ASSUME NEW t \in Thread, pc[t] = "f_build"
      PROVE  \E rest \in Seq(DOMAIN tables) : Order = <<current>> \o rest
  <2>1. ptr[t] \in DOMAIN tables
    BY <1>2 DEF TypeInv, DataOK, InHand
  <2>2. frozen \o <<ptr[t]>> \in Seq(DOMAIN tables)
    BY <1>0, <2>1
  <2>3. (<<current>> \o frozen) \o <<ptr[t]>> = <<current>> \o (frozen \o <<ptr[t]>>)
    BY <1>0, <2>1
  <2> QED BY <1>2, <2>2, <2>3, OrderFlushing
<1> QED BY <1>1, <1>2

\* put leaves an entry under its key and the others as they were.
LEMMA PutGet ==
  ASSUME NEW tbl \in TableType, NEW k \in Key, NEW v \in Value, NEW id \in TrancId
  PROVE  /\ TablePut(tbl, k, v, id).map[k] # None
         /\ \A j \in Key : j # k => TablePut(tbl, k, v, id).map[j] = tbl.map[j]
<1>1. [value |-> v, tranc_id |-> id] # None
  BY TableAssumption DEF Entry
<1>2. CASE tbl.map[k] = None
  BY <1>1, <1>2 DEF TablePut, TableType, Map
<1>3. CASE tbl.map[k] # None
  <2>1. tbl.map[k].tranc_id \in TrancId
    BY <1>3 DEF TableType, Map, Entry
  <2>2. [value |-> v, tranc_id |-> tbl.map[k].tranc_id] # None
    BY <2>1, TableAssumption DEF Entry
  <2> QED BY <1>3, <2>2 DEF TablePut, TableType, Map
<1> QED BY <1>2, <1>3

\* A new table at the end of tables, in front of a list that was searched before.
LEMMA NewInFront ==
  ASSUME DataOK, NEW order \in Seq(DOMAIN tables), NEW s, NEW k \in Key
  PROVE  ValueIn(Append(tables, EmptyTable), <<Len(tables) + 1>> \o order, s, k) =
           ValueIn(tables, order, s, k)
<1> DEFINE T == Append(tables, EmptyTable)
           p == Len(tables) + 1
<1>1. /\ DOMAIN tables \subseteq DOMAIN T
      /\ p \in DOMAIN T
      /\ \A i \in DOMAIN tables : T[i] = tables[i]
      /\ T[p] = EmptyTable
  BY AppendTable, EmptyTableType DEF DataOK
<1>2. At(T, p, k) = None
  BY <1>1 DEF EmptyTable, At
<1>3. order \in Seq(DOMAIN T)
  BY <1>1, SeqGrows
<1>4. \A i \in DOMAIN order : order[i] \in DOMAIN tables
  OBVIOUS
<1>5. Agree(tables, T, order, k)
  BY <1>1, <1>4 DEF Agree
<1> HIDE DEF T, p
<1>6. ValueIn(T, <<p>> \o order, s, k) = ValueIn(T, order, s, k)
  BY <1>1, <1>2, <1>3, ValueSkip
<1>7. ValueIn(tables, order, s, k) = ValueIn(T, order, s, k)
  BY <1>5, ValueSame
<1> QED BY <1>6, <1>7 DEF T, p

\* A quiet step changes nothing a search could see.
LEMMA QuietSafe ==
  ASSUME SafeInv, NEW t \in Thread, Quiet(t)
  PROVE  Roles' /\ Swapping' /\ WriterOnActiveTable' /\ Kept'
<1>1. Roles'
  BY DEF SafeInv, Roles, Quiet
<1>2. Swapping'
  BY DEF SafeInv, Swapping, Quiet, shared
<1>3. WriterOnActiveTable'
  BY DEF SafeInv, WriterOnActiveTable, Quiet, shared
<1>4. Order' = Order
  BY SameOrder DEF Quiet, shared
<1>5. Kept'
  BY <1>4 DEF SafeInv, Kept, Quiet, shared
<1> QED BY <1>1, <1>2, <1>3, <1>5

\* The control part of the invariant, for the steps that move data.
LEMMA BusyControl ==
  ASSUME NoRacingFlush, SafeInv, NEW t \in Thread, Busy(t)
  PROVE  Roles' /\ Swapping' /\ WriterOnActiveTable'
<1> USE DEF SafeInv, TypeInv, LockInv, Goto
<1>1. Roles'
  <2>1. PICK to \in {"w_next", "w_check", "idle", "f_swap", "f_pop", "f_build"} :
          /\ pc' = [pc EXCEPT ![t] = to]
          /\ to = "w_next" => pc[t] = "w_insert"
          /\ to = "f_swap" => pc[t] = "f_empty"
    BY DEF Busy, WriteInsert, Freeze, ClearTables, FlushPush, FlushSwap, FlushPop, FlushBuild
  <2> QED BY <2>1 DEF Roles
<1>2. CASE WriteInsert(t)
  <2>1. PICK to \in {"w_next", "w_check"} : pc' = [pc EXCEPT ![t] = to]
    BY <1>2 DEF WriteInsert
  <2>2. UNCHANGED <<current, frozen, ptr>>
    BY <1>2 DEF WriteInsert
  <2> QED BY <1>1, <2>1, <2>2 DEF Swapping, WriterOnActiveTable
<1>3. CASE Freeze(t) \/ ClearTables(t)
  <2>1. \A u \in Thread : u # t => pc[u] \notin {"f_empty", "f_swap"}
    BY <1>3, OneFlusher DEF Freeze, ClearTables, HoldingFrozen
  <2>2. \A u \in Thread : u # t => pc[u] # "w_insert"
    BY <1>3 DEF Freeze, ClearTables, LockDiscipline, Holding
  <2>3. pc' = [pc EXCEPT ![t] = "idle"]
    BY <1>3 DEF Freeze, ClearTables
  <2> QED BY <1>1, <2>1, <2>2, <2>3 DEF Swapping, WriterOnActiveTable
<1>4. CASE FlushPush(t) \/ FlushSwap(t) \/ FlushPop(t) \/ FlushBuild(t)
  <2>1. \A u \in Thread : u # t => pc[u] \notin {"f_empty", "f_swap"}
    BY <1>4, OneFlusher DEF FlushPush, FlushSwap, FlushPop, FlushBuild, HoldingFrozen
  <2>2. PICK to \in {"f_swap", "f_pop", "f_build", "idle"} : pc' = [pc EXCEPT ![t] = to]
    BY <1>4 DEF FlushPush, FlushSwap, FlushPop, FlushBuild
  <2>3. Swapping'
    <3>1. CASE FlushPush(t)
      <4>1. frozen = << >> /\ current' = current
        BY <3>1 DEF Swapping, FlushPush
      <4>2. frozen' = <<current>>
        BY <3>1, <4>1 DEF FlushPush
      <4>3. pc' = [pc EXCEPT ![t] = "f_swap"]
        BY <3>1 DEF FlushPush
      <4> QED BY <2>1, <4>1, <4>2, <4>3 DEF Swapping
    <3>2. CASE FlushSwap(t) \/ FlushPop(t) \/ FlushBuild(t)
      <4>1. pc'[t] \notin {"f_empty", "f_swap"}
        BY <3>2 DEF FlushSwap, FlushPop, FlushBuild
      <4> QED BY <2>1, <2>2, <4>1 DEF Swapping
    <3> QED BY <1>4, <3>1, <3>2
  <2>4. WriterOnActiveTable'
    <3>1. CASE FlushSwap(t)
      <4>1. t \in Flushers
        BY <3>1 DEF FlushSwap, Roles
      <4>2. \A u \in Thread : pc[u] = "w_insert" => u = t
        BY <4>1 DEF NoRacingFlush, Roles
      <4>3. \A u \in Thread : pc'[u] # "w_insert"
        BY <2>2, <3>1, <4>2 DEF FlushSwap
      <4> QED BY <4>3 DEF WriterOnActiveTable
    <3>2. CASE FlushPush(t) \/ FlushPop(t) \/ FlushBuild(t)
      <4>1. UNCHANGED current /\ \A u \in Thread : u # t => ptr'[u] = ptr[u]
        BY <3>2 DEF FlushPush, FlushPop, FlushBuild, shared, locals, DataOK
      <4> QED BY <2>2, <4>1 DEF WriterOnActiveTable
    <3> QED BY <1>4, <3>1, <3>2
  <2> QED BY <1>1, <2>3, <2>4
<1> QED BY <1>2, <1>3, <1>4 DEF Busy

\* A write is the first thing the next search finds.
LEMMA WriteInsertKept ==
  ASSUME SafeInv, NEW t \in Thread, WriteInsert(t)
  PROVE  Kept'
<1> DEFINE k == items[t][1].key
           v == items[t][1].value
           tbl == TablePut(tables[current], k, v, tranc[t])
<1>1. /\ pc[t] = "w_insert" /\ ptr[t] = current /\ current \in DOMAIN tables
      /\ items[t] \in Seq(Item) /\ items[t] # << >> /\ tables \in Seq(TableType)
      /\ tranc[t] \in TrancId /\ latest \in Map
  BY DEF SafeInv, TypeInv, DataOK, InHand, WriterOnActiveTable, WriteInsert, Goto
<1>2. items[t][1] \in Item
  BY <1>1
<1>3. k \in Key /\ v \in Value
  BY <1>2 DEF Item
<1>4. tables[current] \in TableType
  BY <1>1
<1>5. /\ tables' = [tables EXCEPT ![current] = tbl]
      /\ latest' = [latest EXCEPT ![k] = tbl.map[k]]
      /\ UNCHANGED <<current, frozen, ptr, sst>>
  BY <1>1 DEF WriteInsert
<1>6. Order' = Order
  <2>1. PICK to \in {"w_next", "w_check"} : pc' = [pc EXCEPT ![t] = to]
    BY DEF WriteInsert, Goto
  <2>2. /\ pc[t] # "f_build" /\ pc'[t] # "f_build"
        /\ \A u \in Thread : u # t => pc'[u] = pc[u] /\ ptr'[u] = ptr[u]
    BY <1>1, <1>5, <2>1 DEF SafeInv, TypeInv, LockInv
  <2> QED BY <1>5, <2>2, SameOrder
<1>7. PICK rest \in Seq(DOMAIN tables) : Order = <<current>> \o rest
  BY OrderFront DEF SafeInv
<1>8. /\ tbl.map[k] # None
      /\ \A j \in Key : j # k => tbl.map[j] = tables[current].map[j]
  BY <1>1, <1>3, <1>4, PutGet
<1> HIDE DEF k, v, tbl
<1>9. tables'[current] = tbl /\ \A i \in DOMAIN tables : i # current => tables'[i] = tables[i]
  BY <1>1, <1>5
<1>10. ASSUME NEW j \in Key PROVE ValueIn(tables', Order, sst, j) = latest'[j]
  <2>1. CASE j = k
    <3>1. tables'[current].map[j] # None
      BY <1>8, <1>9, <1>10, <2>1
    <3>2. ValueIn(tables', <<current>> \o rest, sst, j) = tables'[current].map[j]
      <4> DEFINE T == tables'
                 S == DOMAIN tables
      <4>1. current \in S /\ rest \in Seq(S) /\ At(T, current, j) # None
        BY <1>1, <1>7, <3>1 DEF At
      <4> HIDE DEF T, S
      <4>2. ValueIn(T, <<current>> \o rest, sst, j) = At(T, current, j)
        BY <4>1, ValueFront
      <4> QED BY <4>2 DEF T, At
    <3>3. latest'[j] = tbl.map[k]
      BY <1>1, <1>3, <1>5, <2>1 DEF Map
    <3> QED BY <1>7, <1>8, <1>9, <1>10, <2>1, <3>2, <3>3
  <2>2. CASE j # k
    <3>1. \A i \in DOMAIN tables : tables[i].map[j] = tables'[i].map[j]
      BY <1>8, <1>9, <1>10, <2>2
    <3>2. Order \in Seq(DOMAIN tables)
      BY <1>1, <1>7
    <3>3. \A i \in DOMAIN Order : Order[i] \in DOMAIN tables
      BY <3>2
    <3>4. Agree(tables, tables', Order, j)
      BY <3>1, <3>3 DEF Agree
    <3>5. ValueIn(tables, Order, sst, j) = ValueIn(tables', Order, sst, j)
      BY <3>2, <3>4, ValueSame
    <3>6. latest'[j] = latest[j]
      BY <1>1, <1>5, <2>2 DEF Map
    <3> QED BY <1>10, <3>5, <3>6 DEF SafeInv, Kept
  <2> QED BY <2>1, <2>2
<1> QED BY <1>5, <1>6, <1>10 DEF Kept

\* A freeze puts an empty table before the list that was searched so far.
LEMMA FreezeKept ==
  ASSUME SafeInv, NEW t \in Thread, Freeze(t)
  PROVE  Kept'
<1>1. TypeInv /\ DataOK /\ current \in DOMAIN tables /\ frozen \in Seq(DOMAIN tables)
  BY DEF SafeInv, TypeInv, DataOK
<1>2. pc[t] = "z_freeze" /\ pc' = [pc EXCEPT ![t] = "idle"]
  BY DEF Freeze, Goto
<1>3. Order = <<current>> \o frozen
  BY <1>1, <1>2, OrderHeld DEF HoldingFrozen
<1>4. \A u \in Thread : pc'[u] # "f_build"
  BY <1>1, <1>2, OneFlusher DEF TypeInv, LockInv, HoldingFrozen
<1>5. /\ tables' = Append(tables, EmptyTable) /\ current' = Len(tables) + 1
      /\ frozen' = <<current>> \o frozen /\ UNCHANGED <<sst, latest>>
  BY DEF Freeze, history
<1>6. frozen' \in Seq(DOMAIN tables)
  BY <1>1, <1>5, FrontType
<1>7. Order' = <<current'>> \o frozen'
  BY <1>1, <1>4, <1>5, <1>6, NewTableType, NextOrderAtRest
<1>8. \A k \in Key : ValueIn(tables', Order', sst', k) = ValueIn(tables, frozen', sst, k)
  BY <1>1, <1>5, <1>6, <1>7, NewInFront
<1> QED BY <1>3, <1>5, <1>8 DEF SafeInv, Kept

\* After clear only the SSTs are left, and that is what clear leaves to find.
LEMMA ClearTablesKept ==
  ASSUME SafeInv, NEW t \in Thread, ClearTables(t)
  PROVE  Kept'
<1>1. TypeInv /\ DataOK
  BY DEF SafeInv, TypeInv
<1>2. pc[t] = "c_clear" /\ pc' = [pc EXCEPT ![t] = "idle"]
  BY DEF ClearTables, Goto
<1>4. \A u \in Thread : pc'[u] # "f_build"
  BY <1>1, <1>2, OneFlusher DEF TypeInv, LockInv, HoldingFrozen
<1>5. /\ tables' = Append(tables, EmptyTable) /\ current' = Len(tables) + 1
      /\ frozen' = << >> /\ latest' = sst /\ sst' = sst
  BY DEF ClearTables
<1>6. frozen' \in Seq(DOMAIN tables)
  BY <1>5
<1>7. Order' = <<current'>> \o frozen'
  BY <1>1, <1>4, <1>5, <1>6, NewTableType, NextOrderAtRest
<1>8. \A k \in Key : ValueIn(tables', Order', sst', k) = ValueIn(tables, frozen', sst, k)
  BY <1>1, <1>5, <1>6, <1>7, NewInFront
<1>9. \A k \in Key : ValueIn(tables, << >>, sst, k) = sst[k]
  BY ValueNone DEF NoHit
<1> QED BY <1>5, <1>8, <1>9 DEF Kept

\* A list of one table that is searched twice.
LEMMA ValueTwice ==
  ASSUME NEW T, NEW S, NEW p \in S, NEW s, NEW k
  PROVE  ValueIn(T, <<p>> \o <<p>>, s, k) = ValueIn(T, <<p>> \o << >>, s, k)
<1> DEFINE e == << >>
           o == <<p>> \o e
<1>0. e \in Seq(S) /\ o \in Seq(S)
  OBVIOUS
<1>3. o = <<p>>
  OBVIOUS
<1> HIDE DEF e, o
<1>1. CASE T[p].map[k] = None
  <2>1. NoHit(T, <<p>> \o <<p>>, k) /\ NoHit(T, <<p>> \o << >>, k)
    BY <1>1 DEF NoHit
  <2> QED BY <2>1, ValueNone
<1>2. CASE T[p].map[k] # None
  <2>0. At(T, p, k) # None
    BY <1>2 DEF At
  <2>1. ValueIn(T, <<p>> \o o, s, k) = At(T, p, k)
    BY <1>0, <2>0, ValueFront
  <2>2. ValueIn(T, <<p>> \o e, s, k) = At(T, p, k)
    BY <1>0, <2>0, ValueFront
  <2> QED BY <1>3, <2>1, <2>2 DEF e
<1> QED BY <1>1, <1>2

\* flush_last lists the active table a second time, at the front.
LEMMA FlushPushKept ==
  ASSUME SafeInv, NEW t \in Thread, FlushPush(t)
  PROVE  Kept'
<1>1. TypeInv /\ DataOK /\ current \in DOMAIN tables
  BY DEF SafeInv, TypeInv, DataOK
<1>2. pc[t] = "f_empty" /\ pc' = [pc EXCEPT ![t] = "f_swap"] /\ frozen = << >>
  BY DEF FlushPush, Goto, SafeInv, Swapping
<1>3. Order = <<current>> \o << >>
  BY <1>1, <1>2, OrderHeld DEF HoldingFrozen
<1>4. \A u \in Thread : pc'[u] # "f_build"
  BY <1>1, <1>2, OneFlusher DEF TypeInv, LockInv, HoldingFrozen
<1>5. UNCHANGED <<tables, current, sst, latest>>
  BY DEF FlushPush, history
<1>6. frozen' = <<current>> /\ <<current>> \in Seq(DOMAIN tables)
  BY <1>1, <1>2 DEF FlushPush
<1>7. Order' = <<current>> \o <<current>>
  BY <1>1, <1>4, <1>5, <1>6, NextOrderAtRest
<1>8. \A k \in Key : ValueIn(tables, Order', sst, k) = ValueIn(tables, Order, sst, k)
  BY <1>1, <1>3, <1>7, ValueTwice
<1> QED BY <1>5, <1>8 DEF SafeInv, Kept

\* and puts a new one before it.
LEMMA FlushSwapKept ==
  ASSUME SafeInv, NEW t \in Thread, FlushSwap(t)
  PROVE  Kept'
<1>1. TypeInv /\ DataOK /\ current \in DOMAIN tables
  BY DEF SafeInv, TypeInv, DataOK
<1>2. pc[t] = "f_swap" /\ pc' = [pc EXCEPT ![t] = "f_pop"] /\ frozen = <<current>>
  BY DEF FlushSwap, Goto, SafeInv, Swapping
<1>3. Order = <<current>> \o <<current>>
  BY <1>1, <1>2, OrderHeld DEF HoldingFrozen
<1>4. \A u \in Thread : pc'[u] # "f_build"
  BY <1>1, <1>2, OneFlusher DEF TypeInv, LockInv, HoldingFrozen
<1>5. /\ tables' = Append(tables, EmptyTable) /\ current' = Len(tables) + 1
      /\ frozen' = frozen /\ UNCHANGED <<sst, latest>>
  BY DEF FlushSwap, history
<1>6. frozen' \in Seq(DOMAIN tables) /\ frozen' = <<current>> \o << >>
  BY <1>1, <1>2, <1>5
<1>7. Order' = <<current'>> \o frozen'
  BY <1>1, <1>4, <1>5, <1>6, NewTableType, NextOrderAtRest
<1>8. \A k \in Key : ValueIn(tables', Order', sst', k) = ValueIn(tables, frozen', sst, k)
  BY <1>1, <1>5, <1>6, <1>7, NewInFront
<1>9. \A k \in Key : ValueIn(tables, Order, sst, k) = ValueIn(tables, frozen', sst, k)
  BY <1>1, <1>3, <1>6, ValueTwice
<1> QED BY <1>5, <1>8, <1>9 DEF SafeInv, Kept

\* The oldest table leaves the list and is searched all the same.
LEMMA FlushPopKept ==
  ASSUME SafeInv, NEW t \in Thread, FlushPop(t)
  PROVE  Kept'
<1> DEFINE last == frozen[Len(frozen)]
           rest == SubSeq(frozen, 1, Len(frozen) - 1)
<1>1. /\ TypeInv /\ current \in DOMAIN tables
      /\ frozen \in Seq(DOMAIN tables) /\ frozen # << >>
      /\ ptr \in [Thread -> DOMAIN tables \cup {0}]
  BY DEF SafeInv, TypeInv, DataOK, InHand, FlushPop, Goto
<1>2. pc[t] = "f_pop" /\ pc' = [pc EXCEPT ![t] = "f_build"]
  BY DEF FlushPop, Goto
<1>3. Order = <<current>> \o frozen
  BY <1>1, <1>2, OrderHeld DEF HoldingFrozen
<1>4. frozen = rest \o <<last>> /\ rest \in Seq(DOMAIN tables) /\ last \in DOMAIN tables
  BY <1>1, SplitLast
<1>5. /\ UNCHANGED <<tables, current, sst, latest>>
      /\ frozen' = rest /\ ptr' = [ptr EXCEPT ![t] = last]
  BY DEF FlushPop, history
<1> HIDE DEF last, rest
<1>6. \A u \in Thread : u # t => pc'[u] # "f_build"
  BY <1>1, <1>2, OneFlusher DEF TypeInv, LockInv, HoldingFrozen
<1>7. InFlight' = {t}
  BY <1>1, <1>2, <1>6 DEF InFlight, TypeInv, LockInv
<1>8. (CHOOSE u \in InFlight' : TRUE) = t
  BY <1>7
<1>9. Order' = (<<current>> \o rest) \o <<last>>
  <2>1. ptr'[t] = last
    BY <1>1, <1>5
  <2> QED BY <1>5, <1>7, <1>8, <2>1 DEF Order
<1>10. (<<current>> \o rest) \o <<last>> = <<current>> \o (rest \o <<last>>)
  BY <1>1, <1>4
<1>11. Order' = Order
  BY <1>3, <1>4, <1>9, <1>10
<1> QED BY <1>5, <1>11 DEF SafeInv, Kept

\* What the last table of the order held is in the SSTs now.
LEMMA FlushBuildKept ==
  ASSUME SafeInv, NEW t \in Thread, FlushBuild(t)
  PROVE  Kept'
<1>1. /\ TypeInv /\ current \in DOMAIN tables /\ frozen \in Seq(DOMAIN tables)
      /\ ptr[t] \in DOMAIN tables
  BY DEF SafeInv, TypeInv, DataOK, InHand, FlushBuild, Goto
<1>2. pc[t] = "f_build" /\ pc' = [pc EXCEPT ![t] = "idle"]
  BY DEF FlushBuild, Goto
<1>3. Order = (<<current>> \o frozen) \o <<ptr[t]>>
  BY <1>1, <1>2, OrderFlushing
<1>4. \A u \in Thread : pc'[u] # "f_build"
  BY <1>1, <1>2, OneFlusher DEF TypeInv, LockInv, HoldingFrozen
<1>5. UNCHANGED <<tables, current, frozen, latest>>
  BY DEF FlushBuild, shared
<1>6. Order' = <<current>> \o frozen
  BY <1>1, <1>4, <1>5, NextOrderAtRest
<1>7. <<current>> \o frozen \in Seq(DOMAIN tables)
  BY <1>1
<1>8. ASSUME NEW k \in Key
      PROVE  ValueIn(tables, Order', sst', k) = ValueIn(tables, Order, sst, k)
  <2>1. sst'[k] = IF tables[ptr[t]].map[k] # None
                  THEN tables[ptr[t]].map[k] ELSE sst[k]
    BY <1>8 DEF FlushBuild
  <2> DEFINE o == <<current>> \o frozen
             S == DOMAIN tables
             p == ptr[t]
             r == sst'
  <2>2. o \in Seq(S) /\ p \in S /\ Merged(tables, p, sst, r, k)
    BY <1>1, <1>7, <2>1 DEF Merged
  <2> HIDE DEF o, S, p, r
  <2>3. ValueIn(tables, o \o <<p>>, sst, k) = ValueIn(tables, o, r, k)
    BY <2>2, ValueBack
  <2> QED BY <1>3, <1>5, <1>6, <2>3 DEF o, p, r
<1> QED BY <1>5, <1>8 DEF SafeInv, Kept

\* The invariant is kept by every step.
LEMMA SafeStep ==
  ASSUME NoRacingFlush
  PROVE  SafeInv /\ [Next]_vars => SafeInv'
<1> SUFFICES ASSUME SafeInv, [Next]_vars PROVE SafeInv'
  OBVIOUS
<1>0. TypeInv'
  BY LockStep, TypeStep, HandStep DEF SafeInv, TypeInv
<1>1. CASE UNCHANGED vars
  <2>1. Order' = Order
    BY <1>1 DEF vars, shared, locals, Order, InFlight
  <2> QED BY <1>0, <1>1, <2>1 DEF vars, shared, locals, history, SafeInv, Roles,
            Swapping, WriterOnActiveTable, Kept
<1>2. ASSUME NEW t \in Thread, Step(t) PROVE SafeInv'
  <2>1. CASE Quiet(t)
    BY <1>0, <2>1, QuietSafe DEF SafeInv
  <2>2. CASE Busy(t)
    <3>1. Kept'
      BY <2>2, WriteInsertKept, FreezeKept, ClearTablesKept, FlushPushKept, FlushSwapKept,
         FlushPopKept, FlushBuildKept DEF Busy
    <3> QED BY <1>0, <2>2, <3>1, BusyControl DEF SafeInv
  <2> QED BY <1>2, <2>1, <2>2, QuietOrBusy DEF SafeInv
<1>3. CASE AllDone /\ UNCHANGED vars
  BY <1>1, <1>3
<1> QED BY <1>1, <1>2, <1>3 DEF Next

\* A MemTable starts with nothing to find.
LEMMA SafeInit == Init => SafeInv
<1> SUFFICES ASSUME Init PROVE SafeInv
  OBVIOUS
<1>1. TypeInv /\ DataOK
  BY TypeInit DEF TypeInv
<1>2. Roles /\ Swapping /\ WriterOnActiveTable
  BY DEF Init, Roles, Swapping, WriterOnActiveTable
<1>3. Order = <<1>> \o << >>
  BY <1>1, OrderAtRest DEF Init
<1>4. <<1>> \o << >> = <<1>>
  OBVIOUS
<1>5. \A k \in Key : NoHit(tables, <<1>>, k)
  BY DEF Init, NoHit, EmptyTable
<1>6. \A k \in Key : ValueIn(tables, Order, sst, k) = sst[k]
  BY <1>3, <1>4, <1>5, ValueNone
<1>7. Kept
  BY <1>6 DEF Kept, Init
<1> QED BY <1>1, <1>2, <1>7 DEF SafeInv

\* The search of the model and the search above find the same.
LEMMA ViewIsValue ==
  ASSUME TypeInv, NEW k \in Key \ {0}
  PROVE  View(k) = ValueIn(tables, Order, sst, k)
<1> DEFINE H == HitsIn(tables, Order, k)
           c == CHOOSE i \in H : \A j \in H : i <= j
<1>1. Hits(Order, k) = H
  BY DEF Hits, HitsIn, TableGet
<1>2. CASE H = {}
  BY <1>1, <1>2 DEF View, FirstHit, ValueIn
<1>3. CASE H # {}
  <2>1. \E rest \in Seq(DOMAIN tables) : Order = <<current>> \o rest
    BY OrderFront
  <2>2. Order \in Seq(DOMAIN tables)
    BY <2>1 DEF TypeInv, DataOK
  <2>3. H \in SUBSET Nat
    BY <2>2 DEF HitsIn
  <2>4. \E i \in H : \A j \in H : i <= j
    BY <1>3, <2>3, Least
  <2>5. c \in DOMAIN Order
    BY <2>4 DEF HitsIn
  <2>6. Order[c] \in DOMAIN tables
    BY <2>2, <2>5
  <2>7. Order[c] # 0
    BY <2>6 DEF TypeInv, DataOK
  <2>8. FirstHit(Order, k) = Order[c] /\ ValueIn(tables, Order, sst, k) = tables[Order[c]].map[k]
    BY <1>1, <1>3 DEF FirstHit, ValueIn
  <2> HIDE DEF c
  <2> QED BY <2>7, <2>8 DEF View, Found, TableGet
<1> QED BY <1>2, <1>3

\* No write is lost, for any number of readers, freezers, cleaners, flushers and
\* writers, any batches and any size limit, as long as no thread runs
\* flush_last while another one writes.
THEOREM NoWriteLost ==
  ASSUME NoRacingFlush
  PROVE  Spec => []NoLostWrite
<1>1. SafeInv => NoLostWrite
  BY ViewIsValue DEF SafeInv, Kept, NoLostWrite
<1> QED BY <1>1, SafeInit, SafeStep, PTL DEF Spec

\* Under the same condition a writer never inserts into a table that has been
\* frozen, flushed or dropped since it read current_table.
THEOREM WritersOnActiveTable ==
  ASSUME NoRacingFlush
  PROVE  Spec => []WriterOnActiveTable
<1>1. SafeInv => WriterOnActiveTable
  BY DEF SafeInv
<1> QED BY <1>1, SafeInit, SafeStep, PTL DEF Spec

-----------------------------------------------------------------------------
(* The bytes of the frozen tables.                                         *)

Sizes(T, order) == [i \in DOMAIN order |-> T[order[i]].bytes]

ListBytes(T, order) == SeqSum(Sizes(T, order))

\* Tables with sizes.
Sized(T, S) == \A p \in S : T[p].bytes \in Int

\* The sizes of a list of tables are a sequence of numbers.
LEMMA SizesType ==
  ASSUME NEW T, NEW S, Sized(T, S), NEW order \in Seq(S)
  PROVE  /\ Sizes(T, order) \in Seq(Int)
         /\ DOMAIN Sizes(T, order) = DOMAIN order
         /\ Len(Sizes(T, order)) = Len(order)
<1>1. \A i \in 1 .. Len(order) : order[i] \in S
  OBVIOUS
<1>2. Len(order) \in Nat /\ DOMAIN order = 1 .. Len(order)
  OBVIOUS
<1>3. Sizes(T, order) = [i \in 1 .. Len(order) |-> T[order[i]].bytes]
  BY <1>2 DEF Sizes
<1>4. \A i \in 1 .. Len(order) : T[order[i]].bytes \in Int
  BY <1>1 DEF Sized
<1> QED BY <1>2, <1>3, <1>4

\* The sum in FrozenBytesExact is the sum of that sequence.
LEMMA ListBytesIs ==
  ASSUME NEW T, NEW S, Sized(T, S), NEW order \in Seq(S)
  PROVE  MapThenSumSet(LAMBDA i : T[order[i]].bytes, DOMAIN order) = ListBytes(T, order)
<1> DEFINE f == Sizes(T, order)
           D == DOMAIN order
           R(g) == g = [s \in SUBSET D |->
             IF s = {} THEN 0
             ELSE T[order[CHOOSE x \in s : TRUE]].bytes + g[s \ {CHOOSE x \in s : TRUE}]]
           h == CHOOSE g : R(g)
<1>1. f \in Seq(Int) /\ DOMAIN f = D /\ IsFiniteSet(D)
  <2>1. D = 1 .. Len(order) /\ Len(order) \in Nat
    OBVIOUS
  <2>2. IsFiniteSet(1 .. Len(order))
    BY <2>1, FS_Interval
  <2> QED BY <2>1, <2>2, SizesType
<1>2. \A x \in D : f[x] \in Int
  BY <1>1
<1>3. PICK e : IsSum(f, D, e) /\ SumOver(f, D) = e[D]
  <2> HIDE DEF f, D
  <2> QED BY <1>1, <1>2, SumOverIs
<1>4. ASSUME NEW g PROVE R(g) <=> IsSum(f, D, g)
  <2>1. \A s \in SUBSET D : s # {} => f[Pick(s)] = T[order[Pick(s)]].bytes
    BY PickIn DEF Sizes
  <2> DEFINE a == [s \in SUBSET D |-> IF s = {} THEN 0
                     ELSE T[order[Pick(s)]].bytes + g[s \ {Pick(s)}]]
             b == [s \in SUBSET D |-> IF s = {} THEN 0 ELSE f[Pick(s)] + g[s \ {Pick(s)}]]
  <2>2. a = b
    <3> HIDE DEF f, D
    <3> QED BY <2>1
  <2>3. R(g) <=> g = a
    BY DEF Pick
  <2>4. IsSum(f, D, g) <=> g = b
    BY DEF IsSum
  <2> HIDE DEF a, b, R
  <2> QED BY <2>2, <2>3, <2>4
<1>5. R(h)
  <2> HIDE DEF R
  <2>1. R(e)
    BY <1>3, <1>4
  <2> QED BY <2>1
<1>6. IsSum(f, D, h)
  <2> HIDE DEF R
  <2> QED BY <1>4, <1>5
<1>7. MapThenSumSet(LAMBDA i : T[order[i]].bytes, DOMAIN order) = h[D]
  BY DEF MapThenSumSet, MapThenFoldSet
<1>8. h[D] = e[D]
  <2> HIDE DEF h, f, D
  <2> QED BY <1>1, <1>3, <1>6, SumUnique
<1> QED BY <1>1, <1>3, <1>7, <1>8 DEF ListBytes, SeqSum

\* Only the sizes of the listed tables matter.
LEMMA ListBytesSame ==
  ASSUME NEW T, NEW U, NEW order, \A i \in DOMAIN order : T[order[i]].bytes = U[order[i]].bytes
  PROVE  ListBytes(T, order) = ListBytes(U, order)
<1>1. Sizes(T, order) = Sizes(U, order)
  BY DEF Sizes
<1> QED BY <1>1 DEF ListBytes

\* No table, no bytes.
LEMMA ListBytesEmpty ==
  ASSUME NEW T
  PROVE  ListBytes(T, << >>) = 0
<1> DEFINE e == << >>
           s == Sizes(T, e)
<1>1. DOMAIN e = {}
  OBVIOUS
<1>2. DOMAIN s = {}
  BY <1>1 DEF Sizes
<1> HIDE DEF s
<1>3. SeqSum(s) = 0
  BY <1>2, SumOverEmpty DEF SeqSum
<1> QED BY <1>3 DEF ListBytes, s

\* One table more in front,
LEMMA ListBytesFront ==
  ASSUME NEW T, NEW S, Sized(T, S), NEW p \in S, NEW order \in Seq(S)
  PROVE  /\ ListBytes(T, order) \in Int
         /\ ListBytes(T, <<p>> \o order) = T[p].bytes + ListBytes(T, order)
<1> DEFINE o == <<p>> \o order
           s == Sizes(T, order)
           x == T[p].bytes
           a == Sizes(T, o)
           b == <<x>> \o s
<1>1. /\ o \in Seq(S) /\ Len(o) = Len(order) + 1 /\ Len(order) \in Nat /\ o[1] = p
      /\ \A i \in 2 .. Len(order) + 1 : o[i] = order[i - 1] /\ i - 1 \in DOMAIN order
  OBVIOUS
<1>2. s \in Seq(Int) /\ Len(s) = Len(order) /\ x \in Int
  BY SizesType DEF Sized
<1> HIDE DEF o
<1>3. a \in Seq(Int) /\ Len(a) = Len(order) + 1
  BY <1>1, SizesType
<1>4. \A i \in DOMAIN o : a[i] = T[o[i]].bytes
  BY DEF Sizes
<1>5. \A i \in DOMAIN order : s[i] = T[order[i]].bytes
  BY DEF Sizes
<1> HIDE DEF s, a, x
<1>6. b \in Seq(Int) /\ Len(b) = Len(order) + 1 /\ b[1] = x
      /\ \A i \in 2 .. Len(order) + 1 : b[i] = s[i - 1]
  BY <1>1, <1>2
<1> HIDE DEF b
<1>7. \A i \in 1 .. Len(order) + 1 : a[i] = b[i]
  <2> TAKE i \in 1 .. Len(order) + 1
  <2>1. i \in DOMAIN o
    BY <1>1
  <2>2. CASE i = 1
    BY <1>1, <1>4, <1>6, <2>1, <2>2 DEF x
  <2>3. CASE i # 1
    <3>1. i \in 2 .. Len(order) + 1
      BY <2>3, <1>1
    <3> QED BY <1>1, <1>4, <1>5, <1>6, <2>1, <3>1
  <2> QED BY <2>2, <2>3
<1>8. a = b
  BY <1>1, <1>3, <1>6, <1>7, SeqEqual
<1>9. SeqSum(b) = x + SeqSum(s) /\ SeqSum(s) \in Int
  BY <1>2, SeqSumFront, SeqSumBack DEF b
<1> QED BY <1>8, <1>9 DEF ListBytes, a, s, x, o

\* and at the back.
LEMMA ListBytesBack ==
  ASSUME NEW T, NEW S, Sized(T, S), NEW p \in S, NEW order \in Seq(S)
  PROVE  ListBytes(T, order \o <<p>>) = ListBytes(T, order) + T[p].bytes
<1> DEFINE o == order \o <<p>>
           n == Len(order)
           s == Sizes(T, order)
           x == T[p].bytes
           a == Sizes(T, o)
           b == s \o <<x>>
<1>1. /\ o \in Seq(S) /\ Len(o) = n + 1 /\ n \in Nat /\ o[n + 1] = p
      /\ \A i \in 1 .. n : o[i] = order[i] /\ i \in DOMAIN order
  OBVIOUS
<1>2. s \in Seq(Int) /\ Len(s) = n /\ x \in Int
  BY SizesType DEF Sized
<1> HIDE DEF o
<1>3. a \in Seq(Int) /\ Len(a) = n + 1
  BY <1>1, SizesType
<1>4. \A i \in DOMAIN o : a[i] = T[o[i]].bytes
  BY DEF Sizes
<1>5. \A i \in DOMAIN order : s[i] = T[order[i]].bytes
  BY DEF Sizes
<1> HIDE DEF s, a, x, n
<1>6. b \in Seq(Int) /\ Len(b) = n + 1 /\ b[n + 1] = x
      /\ \A i \in 1 .. n : b[i] = s[i]
  BY <1>1, <1>2
<1> HIDE DEF b
<1>7. \A i \in 1 .. n + 1 : a[i] = b[i]
  <2> TAKE i \in 1 .. n + 1
  <2>1. i \in DOMAIN o
    BY <1>1
  <2>2. CASE i = n + 1
    BY <1>1, <1>4, <1>6, <2>1, <2>2 DEF x
  <2>3. CASE i # n + 1
    <3>1. i \in 1 .. n
      BY <2>3, <1>1
    <3> QED BY <1>1, <1>4, <1>5, <1>6, <2>1, <3>1
  <2> QED BY <2>2, <2>3
<1>8. a = b
  BY <1>1, <1>3, <1>6, <1>7, SeqEqual
<1>9. SeqSum(b) = SeqSum(s) + x
  BY <1>2, SeqSumBack DEF b
<1> QED BY <1>8, <1>9 DEF ListBytes, a, s, x, o

-----------------------------------------------------------------------------
(* frozen_bytes.                                                           *)

Clearing == {"c_lock", "c_frozen_lock", "c_clear"}

\* The active table is not on the list, except while flush_last is replacing it.
Apart ==
  (\A t \in Thread : pc[t] # "f_swap") => \A i \in DOMAIN frozen : frozen[i] # current

\* Nobody clears.
NoClear == \A t \in Thread : pc[t] \notin Clearing

FrozenInv ==
  /\ SafeInv
  /\ NoClear
  /\ Apart
  /\ frozen_bytes = ListBytes(tables, frozen) % SizeMod

\* The two places in a call that matter here: only the swap leaves the one, only
\* clear enters the other.
LEMMA StepPlaces ==
  ASSUME TypeInv, NEW t \in Thread, Step(t), ~ClearStep(t), ~FlushSwap(t)
  PROVE  pc[t] # "f_swap" /\ \A u \in Thread : pc'[u] \in Clearing => pc[u] \in Clearing
<1> SUFFICES \E from, to : /\ from # "f_swap" /\ to \notin Clearing /\ Goto(t, from, to)
  BY DEF Goto, TypeInv, LockInv
<1> USE DEF Clearing, Goto
<1>1. CASE Write(t)
  BY <1>1 DEF Write, put, put_batch, remove, remove_batch, StartWrite, Call, WriteLock,
     WriteInsert, WriteNext, WriteReturn, WriteFull
<1>2. CASE FreezeStep(t)
  BY <1>2 DEF FreezeStep, frozen_cur_table, Call, FreezeCurLock, FreezeLock, Freeze
<1>3. CASE Get(t)
  BY <1>3 DEF Get, get, StartRead, Call, ShareCur, GetCur, ShareFrozen, GetFrozen, GetDeref,
     ReadReturn
<1>4. CASE GetBatch(t)
  BY <1>4 DEF GetBatch, get_batch, StartRead, Call, ShareCur, BatchCur, ShareFrozen,
     BatchFrozen
<1>5. CASE Scan(t)
  BY <1>5 DEF Scan, begin, iters_range, StartRead, Call, ShareCur, ShareFrozen,
     ScanSnapshot, ReadReturn
<1>6. CASE TotalSize(t)
  BY <1>6 DEF TotalSize, get_total_size, Call, ShareCur, ShareFrozen, SizeFrozen, SizeCur,
     SizeReturn
<1>7. CASE Flush(t)
  BY <1>7 DEF Flush, flush_last, Call, FlushLock, FlushNothing, FlushPush, FlushPop, FlushBuild
<1> QED BY <1>1, <1>2, <1>3, <1>4, <1>5, <1>6, <1>7 DEF Step

\* Without cleaners nobody clears.
LEMMA NoClearStep ==
  ASSUME Cleaners = {}, NoClear, NEW t \in Thread
  PROVE  ~ClearStep(t)
  BY DEF NoClear, Clearing, ClearStep, clear, ClearCurLock, ClearFrozenLock, ClearTables, Goto

\* The tables have sizes.
LEMMA TablesSized ==
  ASSUME DataOK
  PROVE  Sized(tables, DOMAIN tables)
  BY TableFields DEF Sized

\* What a step of a thread that owns frozen_mtx finds.
LEMMA FrozenFacts ==
  ASSUME FrozenInv, NEW t \in Thread
  PROVE  /\ TypeInv /\ DataOK
         /\ current \in DOMAIN tables /\ frozen \in Seq(DOMAIN tables)
         /\ Sized(tables, DOMAIN tables)
         /\ SizeMod \in Nat \ {0}
         /\ ListBytes(tables, frozen) \in Int
         /\ tables[current].bytes \in Int
         /\ tables \in Seq(TableType)
<1>1. /\ TypeInv /\ DataOK
      /\ current \in DOMAIN tables /\ frozen \in Seq(DOMAIN tables)
      /\ tables \in Seq(TableType)
  BY DEF FrozenInv, SafeInv, TypeInv, DataOK
<1>2. Sized(tables, DOMAIN tables)
  BY <1>1, TablesSized
<1>3. ListBytes(tables, frozen) \in Int
  BY <1>1, <1>2, ListBytesFront
<1> QED BY <1>1, <1>2, <1>3, TableAssumption DEF Sized

\* A table more at the end of tables changes no list.
LEMMA ListBytesGrown ==
  ASSUME NEW T, NEW S, T \in Seq(S), NEW x, NEW order \in Seq(DOMAIN T)
  PROVE  ListBytes(Append(T, x), order) = ListBytes(T, order)
<1>1. \A p \in DOMAIN T : Append(T, x)[p] = T[p]
  OBVIOUS
<1>2. \A i \in DOMAIN order : order[i] \in DOMAIN T
  OBVIOUS
<1> QED BY <1>1, <1>2, ListBytesSame

\* A write changes the size of the active table, which is not on the list.
LEMMA WriteInsertFrozen ==
  ASSUME NoRacingFlush, FrozenInv, NEW t \in Thread, WriteInsert(t)
  PROVE  frozen_bytes' = ListBytes(tables', frozen') % SizeMod /\ Apart'
<1>1. /\ TypeInv /\ frozen \in Seq(DOMAIN tables) /\ ptr[t] = current
      /\ pc[t] = "w_insert" /\ tables \in Seq(TableType)
  BY FrozenFacts DEF FrozenInv, SafeInv, WriterOnActiveTable, WriteInsert, Goto
<1>2. \A u \in Thread : pc[u] # "f_swap"
  BY <1>1 DEF NoRacingFlush, FrozenInv, SafeInv, Roles
<1>3. \A i \in DOMAIN frozen : frozen[i] # current
  BY <1>2 DEF FrozenInv, Apart
<1>4. \A p \in DOMAIN tables : p # current => tables'[p] = tables[p]
  BY <1>1 DEF WriteInsert
<1>5. \A i \in DOMAIN frozen : tables'[frozen[i]].bytes = tables[frozen[i]].bytes
  BY <1>1, <1>3, <1>4
<1>6. ListBytes(tables', frozen) = ListBytes(tables, frozen)
  BY <1>5, ListBytesSame
<1>7. UNCHANGED <<frozen, frozen_bytes, current>>
  BY DEF WriteInsert
<1> QED BY <1>3, <1>6, <1>7 DEF FrozenInv, Apart

\* A freeze adds what it puts in front.
LEMMA FreezeFrozen ==
  ASSUME FrozenInv, NEW t \in Thread, Freeze(t)
  PROVE  frozen_bytes' = ListBytes(tables', frozen') % SizeMod /\ Apart'
<1> DEFINE S == DOMAIN tables
           o == <<current>> \o frozen
           a == ListBytes(tables, frozen)
           b == tables[current].bytes
<1>1. /\ current \in S /\ frozen \in Seq(S) /\ Sized(tables, S)
      /\ SizeMod \in Nat \ {0} /\ a \in Int /\ b \in Int /\ tables \in Seq(TableType)
  BY FrozenFacts
<1>2. /\ tables' = Append(tables, EmptyTable) /\ current' = Len(tables) + 1
      /\ frozen' = o /\ frozen_bytes' = (frozen_bytes + b) % SizeMod
  BY DEF Freeze
<1>3. o \in Seq(S)
  BY <1>1, FrontType DEF FrozenInv, SafeInv, TypeInv
<1>4. ListBytes(tables', o) = ListBytes(tables, o)
  BY <1>1, <1>2, <1>3, ListBytesGrown
<1>5. \A i \in DOMAIN o : o[i] # current'
  BY <1>1, <1>2, <1>3
<1>6. frozen_bytes = a % SizeMod
  BY DEF FrozenInv
<1> HIDE DEF S, o, a, b
<1>7. ListBytes(tables, o) = b + a
  BY <1>1, ListBytesFront DEF o, a, b
<1>8. ((a % SizeMod) + b) % SizeMod = (a + b) % SizeMod
  BY <1>1, ModAdd
<1>9. a + b = b + a
  BY <1>1
<1> QED BY <1>2, <1>4, <1>5, <1>6, <1>7, <1>8, <1>9 DEF Apart

\* So does flush_last,
LEMMA FlushPushFrozen ==
  ASSUME FrozenInv, NEW t \in Thread, FlushPush(t)
  PROVE  frozen_bytes' = ListBytes(tables', frozen') % SizeMod /\ Apart'
<1> DEFINE S == DOMAIN tables
           o == <<current>> \o frozen
           a == ListBytes(tables, frozen)
           b == tables[current].bytes
<1>1. /\ current \in S /\ frozen \in Seq(S) /\ Sized(tables, S)
      /\ SizeMod \in Nat \ {0} /\ a \in Int /\ b \in Int
  BY FrozenFacts
<1>2. tables' = tables /\ frozen' = o /\ frozen_bytes' = (frozen_bytes + b) % SizeMod
  BY DEF FlushPush
<1>3. pc'[t] = "f_swap"
  BY DEF FlushPush, Goto, FrozenInv, SafeInv, TypeInv, LockInv
<1>6. frozen_bytes = a % SizeMod
  BY DEF FrozenInv
<1> HIDE DEF S, o, a, b
<1>7. ListBytes(tables, o) = b + a
  BY <1>1, ListBytesFront DEF o, a, b
<1>8. ((a % SizeMod) + b) % SizeMod = (a + b) % SizeMod
  BY <1>1, ModAdd
<1>9. a + b = b + a
  BY <1>1
<1> QED BY <1>2, <1>3, <1>6, <1>7, <1>8, <1>9 DEF Apart

\* whose new active table is on no list,
LEMMA FlushSwapFrozen ==
  ASSUME FrozenInv, NEW t \in Thread, FlushSwap(t)
  PROVE  frozen_bytes' = ListBytes(tables', frozen') % SizeMod /\ Apart'
<1>1. frozen \in Seq(DOMAIN tables) /\ tables \in Seq(TableType)
  BY FrozenFacts
<1>2. /\ tables' = Append(tables, EmptyTable) /\ current' = Len(tables) + 1
      /\ UNCHANGED <<frozen, frozen_bytes>>
  BY DEF FlushSwap
<1>3. ListBytes(tables', frozen) = ListBytes(tables, frozen)
  BY <1>1, <1>2, ListBytesGrown
<1>4. \A i \in DOMAIN frozen : frozen[i] # current'
  BY <1>1, <1>2
<1> QED BY <1>2, <1>3, <1>4 DEF FrozenInv, Apart

\* and which subtracts what it takes from the back.
LEMMA FlushPopFrozen ==
  ASSUME FrozenInv, NEW t \in Thread, FlushPop(t)
  PROVE  frozen_bytes' = ListBytes(tables', frozen') % SizeMod /\ Apart'
<1> DEFINE S == DOMAIN tables
           last == frozen[Len(frozen)]
           rest == SubSeq(frozen, 1, Len(frozen) - 1)
           a == ListBytes(tables, frozen)
           b == tables[last].bytes
           c == ListBytes(tables, rest)
<1>1. /\ TypeInv /\ frozen \in Seq(S) /\ Sized(tables, S) /\ SizeMod \in Nat \ {0} /\ a \in Int
  BY FrozenFacts
<1>2. pc[t] = "f_pop" /\ frozen # << >>
  BY DEF FlushPop, Goto, FrozenInv, SafeInv, TypeInv, InHand
<1>3. /\ frozen = rest \o <<last>> /\ rest \in Seq(S) /\ last \in S
      /\ Len(rest) = Len(frozen) - 1
  BY <1>1, <1>2, SplitLast
<1>4. /\ UNCHANGED <<tables, current>> /\ frozen' = rest
      /\ frozen_bytes' = (frozen_bytes - b) % SizeMod
  BY DEF FlushPop
<1>5. frozen_bytes = a % SizeMod
  BY DEF FrozenInv
<1>6. \A u \in Thread : pc[u] # "f_swap"
  BY <1>1, <1>2, OneFlusher DEF TypeInv, HoldingFrozen
<1>7. \A i \in DOMAIN frozen : frozen[i] # current
  BY <1>6 DEF FrozenInv, Apart
<1>8. \A i \in DOMAIN rest : rest[i] # current
  BY <1>1, <1>2, <1>7
<1> HIDE DEF S, last, rest
<1>9. c \in Int /\ ListBytes(tables, rest \o <<last>>) = c + tables[last].bytes
  BY <1>1, <1>3, ListBytesFront, ListBytesBack
<1>10. a = c + b /\ b \in Int
  BY <1>1, <1>3, <1>9 DEF Sized
<1> HIDE DEF a, b, c
<1>11. -b \in Int /\ ((a % SizeMod) + (-b)) % SizeMod = (a + (-b)) % SizeMod
  <2>1. -b \in Int
    BY <1>10
  <2> QED BY <1>1, <2>1, ModAdd
<1>12. a + (-b) = c
  BY <1>9, <1>10
<1>13. a % SizeMod \in Int
  BY <1>1, ModDef
<1>14. (a % SizeMod) + (-b) = (a % SizeMod) - b
  BY <1>10, <1>13
<1>15. frozen_bytes' = c % SizeMod
  BY <1>4, <1>5, <1>11, <1>12, <1>14
<1> QED BY <1>4, <1>8, <1>15 DEF Apart, c

\* The invariant is kept by every step.
LEMMA FrozenStep ==
  ASSUME NoRacingFlush, Cleaners = {}
  PROVE  FrozenInv /\ [Next]_vars => FrozenInv'
<1> SUFFICES ASSUME FrozenInv, [Next]_vars PROVE FrozenInv'
  OBVIOUS
<1>0. SafeInv' /\ TypeInv
  BY SafeStep DEF FrozenInv, SafeInv
<1>1. CASE UNCHANGED vars
  BY <1>0, <1>1 DEF vars, shared, FrozenInv, NoClear, Apart
<1>2. ASSUME NEW t \in Thread, Step(t) PROVE FrozenInv'
  <2>1. ~ClearStep(t)
    BY NoClearStep DEF FrozenInv
  <2>2. NoClear'
    <3>1. CASE FlushSwap(t)
      BY <1>0, <3>1 DEF FlushSwap, Goto, FrozenInv, NoClear, Clearing, TypeInv, LockInv
    <3>2. CASE ~FlushSwap(t)
      BY <1>0, <1>2, <2>1, <3>2, StepPlaces DEF FrozenInv, NoClear
    <3> QED BY <3>1, <3>2
  <2>3. frozen_bytes' = ListBytes(tables', frozen') % SizeMod /\ Apart'
    <3>1. CASE WriteInsert(t)
      BY <3>1, WriteInsertFrozen
    <3>2. CASE Freeze(t)
      BY <3>2, FreezeFrozen
    <3>3. CASE FlushPush(t)
      BY <3>3, FlushPushFrozen
    <3>4. CASE FlushSwap(t)
      BY <3>4, FlushSwapFrozen
    <3>5. CASE FlushPop(t)
      BY <3>5, FlushPopFrozen
    <3>6. CASE (FlushBuild(t) \/ Quiet(t)) /\ ~FlushSwap(t)
      <4>1. UNCHANGED shared
        BY <3>6 DEF FlushBuild, Quiet
      <4>2. pc[t] # "f_swap"
        BY <1>0, <1>2, <2>1, <3>6, StepPlaces
      <4>3. \A u \in Thread : u # t => pc'[u] = pc[u]
        BY <1>0, <3>6 DEF FlushBuild, Quiet, Goto, TypeInv, LockInv
      <4>4. (\A u \in Thread : pc'[u] # "f_swap") => \A u \in Thread : pc[u] # "f_swap"
        BY <4>2, <4>3
      <4> QED BY <4>1, <4>4 DEF shared, FrozenInv, Apart
    <3>7. ~ClearTables(t)
      BY <2>1 DEF ClearStep
    <3> QED BY <1>0, <1>2, <3>1, <3>2, <3>3, <3>4, <3>5, <3>6, <3>7, QuietOrBusy DEF Busy
  <2> QED BY <1>0, <2>2, <2>3 DEF FrozenInv
<1>3. CASE AllDone /\ UNCHANGED vars
  BY <1>1, <1>3
<1> QED BY <1>1, <1>2, <1>3 DEF Next

\* A MemTable starts with no frozen table.
LEMMA FrozenInit == Init => FrozenInv
<1> SUFFICES ASSUME Init PROVE FrozenInv
  OBVIOUS
<1>1. SafeInv
  BY SafeInit
<1>2. NoClear /\ Apart
  BY DEF Init, NoClear, Clearing, Apart
<1>3. ListBytes(tables, frozen) = 0
  BY ListBytesEmpty DEF Init
<1>4. 0 % SizeMod = 0
  BY TableAssumption
<1>5. frozen_bytes = 0
  BY DEF Init
<1> QED BY <1>1, <1>2, <1>3, <1>4, <1>5 DEF FrozenInv

\* frozen_bytes, kept by additions and subtractions that wrap around, is the size
\* of the tables on the list, for any threads, keys, batches and limits, as
\* long as no thread clears and none runs flush_last while another one writes.
THEOREM FrozenBytes ==
  ASSUME NoRacingFlush, Cleaners = {}
  PROVE  Spec => []FrozenBytesExact
<1>1. FrozenInv => FrozenBytesExact
  <2> SUFFICES ASSUME FrozenInv PROVE FrozenBytesExact
    OBVIOUS
  <2>1. DataOK /\ frozen \in Seq(DOMAIN tables)
    BY DEF FrozenInv, SafeInv, TypeInv, DataOK
  <2> DEFINE S == DOMAIN tables
  <2>2. Sized(tables, S) /\ frozen \in Seq(S)
    BY <2>1, TablesSized
  <2> HIDE DEF S
  <2>3. MapThenSumSet(LAMBDA i : tables[frozen[i]].bytes, DOMAIN frozen)
          = ListBytes(tables, frozen)
    BY <2>2, ListBytesIs
  <2> QED BY <2>3 DEF FrozenInv, FrozenBytesExact
<1> QED BY <1>1, FrozenInit, FrozenStep, PTL DEF Spec

-----------------------------------------------------------------------------
(* The inductive invariant.                                                *)

\* What a lookup goes through after the active table.
Rest ==
  frozen \o (IF InFlight = {} THEN << >> ELSE <<ptr[CHOOSE t \in InFlight : TRUE]>>)

Entries(T, order, k) == {At(T, order[i], k) : i \in DOMAIN order}

\* What a lookup finds for a key that the active table does not have.
Below(k) == ValueIn(tables, Rest, sst, k)

\* The values a key has had since the call of t began.
Recent(t, k) == {m[k] : m \in seen[t]}

\* The active table had no entry for the key when t looked.
HalfMissed(t, k) ==
  /\ At(tables, current, k) \in Recent(t, k) \cup {None}
  /\ Below(k) \in Recent(t, k)

\* No table had an entry for the key when t looked.
Missed(t, k) ==
  /\ At(tables, current, k) \in Recent(t, k) \cup {None}
  /\ Entries(tables, Rest, k) \subseteq Recent(t, k) \cup {None}
  /\ sst[k] \in Recent(t, k)

\* The tables o hold for the keys K what one of the maps in M holds, as far as it
\* is not left to the SSTs s.
CopyOf(M, K, o, s) ==
  \E m \in M : \A k \in K :
    LET hits == {i \in DOMAIN o : o[i][k] # None}
    IN  IF hits = {} THEN m[k] = None \/ s[k] # None ELSE o[Min(hits)][k] = m[k]

\* The scan of t has copied what was there at one moment of its call.
Snapshot(t) == CopyOf(seen[t], keys[t], out[t], sst)

Looking == {"g_lock", "g_cur", "g_frozen_lock", "g_frozen", "g_deref"}

\* What t can rely on, by where it is in its call.
Reliable(t) ==
  /\ pc[t] \in Reading => latest \in seen[t]
  /\ pc[t] \in Looking => \E k \in Key : keys[t] = {k}
  /\ pc[t] \in {"g_frozen_lock", "g_frozen"} =>
       \A k \in keys[t] \ {0} : HalfMissed(t, k)
  /\ pc[t] = "g_deref" =>
       \A k \in keys[t] \ {0} :
         IF ptr[t] = 0 THEN Missed(t, k)
         ELSE At(tables, ptr[t], k) \in Recent(t, k) \ {None}
  /\ pc[t] \in {"b_frozen_lock", "b_frozen"} =>
       \A k \in keys[t] \ {0} :
         IF out[t][1][k] = None THEN HalfMissed(t, k) ELSE out[t][1][k] \in Recent(t, k)
  /\ pc[t] = "g_done" =>
       \A k \in keys[t] \ {0} :
         IF out[t][1][k] = None THEN Missed(t, k) ELSE out[t][1][k] \in Recent(t, k)
  /\ pc[t] = "s_done" => Snapshot(t)

ReadInv == SafeInv /\ \A t \in Thread : Reliable(t)

-----------------------------------------------------------------------------
(* Searches.                                                               *)

\* Tables in which a key keeps its entry or gets the one entry w.
Written(T, U, order, k, w) ==
  /\ w # None
  /\ \A i \in DOMAIN order :
       At(U, order[i], k) = At(T, order[i], k) \/ At(U, order[i], k) = w

\* A search finds what it found before, or w.
LEMMA ValueWritten ==
  ASSUME NEW T, NEW U, NEW S, NEW order \in Seq(S), NEW s, NEW k, NEW w,
         Written(T, U, order, k, w)
  PROVE  ValueIn(U, order, s, k) \in {ValueIn(T, order, s, k), w}
<1>1. CASE NoHit(U, order, k)
  <2>1. NoHit(T, order, k)
    BY <1>1 DEF NoHit, Written, At
  <2> QED BY <1>1, <2>1, ValueNone
<1>2. ASSUME NEW i \in DOMAIN order, FirstAt(U, order, k, i)
      PROVE  ValueIn(U, order, s, k) \in {ValueIn(T, order, s, k), w}
  <2>1. ValueIn(U, order, s, k) = U[order[i]].map[k]
    BY <1>2, ValueIs
  <2>2. CASE U[order[i]].map[k] = w
    BY <2>1, <2>2
  <2>3. CASE U[order[i]].map[k] # w
    <3>1. FirstAt(T, order, k, i)
      BY <1>2, <2>3 DEF FirstAt, Written, At
    <3>2. ValueIn(T, order, s, k) = T[order[i]].map[k]
      BY <3>1, ValueIs
    <3>3. U[order[i]].map[k] = T[order[i]].map[k]
      BY <2>3 DEF Written, At
    <3> QED BY <2>1, <3>2, <3>3
  <2> QED BY <2>2, <2>3
<1> QED BY <1>1, <1>2, FirstOrNone

\* A search through one table more, in front.
LEMMA ValueCons ==
  ASSUME NEW T, NEW S, NEW p \in S, NEW order \in Seq(S), NEW s, NEW k
  PROVE  ValueIn(T, <<p>> \o order, s, k) =
           IF At(T, p, k) # None THEN At(T, p, k) ELSE ValueIn(T, order, s, k)
<1>1. CASE At(T, p, k) # None
  BY <1>1, ValueFront
<1>2. CASE At(T, p, k) = None
  BY <1>2, ValueSkip
<1> QED BY <1>1, <1>2

\* The entries of one table more, in front or at the back.
LEMMA EntriesCons ==
  ASSUME NEW T, NEW S, NEW p \in S, NEW order \in Seq(S), NEW k
  PROVE  Entries(T, <<p>> \o order, k) = {At(T, p, k)} \cup Entries(T, order, k)
<1> DEFINE o == <<p>> \o order
           n == Len(order)
<1>1. /\ n \in Nat /\ DOMAIN order = 1 .. n /\ DOMAIN o = 1 .. n + 1
      /\ o[1] = p
      /\ \A i \in 1 .. n : o[i + 1] = order[i]
  OBVIOUS
<1> HIDE DEF o, n
<1>2. ASSUME NEW i \in DOMAIN o PROVE At(T, o[i], k) \in {At(T, p, k)} \cup Entries(T, order, k)
  <2>1. CASE i = 1
    BY <1>1, <2>1
  <2>2. CASE i # 1
    <3>1. i - 1 \in 1 .. n /\ (i - 1) + 1 = i
      BY <1>1, <2>2
    <3>2. o[i] = order[i - 1]
      BY <1>1, <3>1
    <3> QED BY <1>1, <3>1, <3>2 DEF Entries
  <2> QED BY <2>1, <2>2
<1>3. ASSUME NEW i \in DOMAIN order PROVE At(T, order[i], k) \in Entries(T, o, k)
  <2>1. i + 1 \in DOMAIN o /\ o[i + 1] = order[i]
    BY <1>1
  <2> QED BY <2>1 DEF Entries
<1>4. At(T, p, k) \in Entries(T, o, k)
  BY <1>1 DEF Entries
<1> QED BY <1>2, <1>3, <1>4 DEF Entries, o

\* The entries of a list are among those of a longer one.
LEMMA EntriesFrontPart ==
  ASSUME NEW T, NEW S, NEW p \in S, NEW order \in Seq(S), NEW k
  PROVE  /\ Entries(T, order, k) \subseteq Entries(T, order \o <<p>>, k)
         /\ At(T, p, k) \in Entries(T, order \o <<p>>, k)
<1> DEFINE o == order \o <<p>>
           n == Len(order)
<1>1. /\ n \in Nat /\ DOMAIN order = 1 .. n /\ n + 1 \in DOMAIN o /\ o[n + 1] = p
      /\ \A i \in 1 .. n : i \in DOMAIN o /\ o[i] = order[i]
  OBVIOUS
<1> HIDE DEF o, n
<1>2. \A i \in DOMAIN order : i \in DOMAIN o /\ At(T, o[i], k) = At(T, order[i], k)
  BY <1>1
<1>3. Entries(T, order, k) \subseteq Entries(T, o, k)
  BY <1>2 DEF Entries
<1>4. At(T, p, k) \in Entries(T, o, k)
  BY <1>1 DEF Entries
<1> QED BY <1>3, <1>4 DEF o

\* No tables, no entries.
LEMMA EntriesNone ==
  ASSUME NEW T, NEW k
  PROVE  Entries(T, << >>, k) = {}
<1>1. DOMAIN << >> = {}
  OBVIOUS
<1> QED BY <1>1 DEF Entries

\* What get finds is what the search finds, unless it finds nothing.
LEMMA HitIs ==
  ASSUME DataOK, NEW order \in Seq(DOMAIN tables), NEW s, NEW k \in Key \ {0}
  PROVE  \/ /\ FirstHit(order, k) = 0
            /\ ValueIn(tables, order, s, k) = s[k]
            /\ Entries(tables, order, k) \subseteq {None}
         \/ /\ FirstHit(order, k) \in DOMAIN tables
            /\ FirstHit(order, k) # 0
            /\ At(tables, FirstHit(order, k), k) # None
            /\ ValueIn(tables, order, s, k) = At(tables, FirstHit(order, k), k)
<1> DEFINE H == HitsIn(tables, order, k)
           c == CHOOSE i \in H : \A j \in H : i <= j
<1>1. Hits(order, k) = H
  BY DEF Hits, HitsIn, TableGet
<1>2. CASE H = {}
  <2>1. Entries(tables, order, k) \subseteq {None}
    BY <1>2 DEF HitsIn, Entries, At
  <2> QED BY <1>1, <1>2, <2>1 DEF FirstHit, ValueIn
<1>3. CASE H # {}
  <2>1. H \in SUBSET Nat
    BY DEF HitsIn
  <2>2. \E i \in H : \A j \in H : i <= j
    BY <1>3, <2>1, Least
  <2>3. c \in DOMAIN order /\ tables[order[c]].map[k] # None
    BY <2>2 DEF HitsIn
  <2>4. order[c] \in DOMAIN tables
    BY <2>3
  <2>5. order[c] # 0
    BY <2>4 DEF DataOK
  <2>6. FirstHit(order, k) = order[c] /\ ValueIn(tables, order, s, k) = tables[order[c]].map[k]
    BY <1>1, <1>3 DEF FirstHit, ValueIn
  <2> HIDE DEF c
  <2> QED BY <2>3, <2>4, <2>5, <2>6 DEF At
<1> QED BY <1>2, <1>3

-----------------------------------------------------------------------------
(* The tables below the active one.                                        *)

\* Nobody is writing a table out.
LEMMA RestAtRest ==
  ASSUME DataOK, \A u \in Thread : pc[u] # "f_build"
  PROVE  Rest = frozen
<1>1. InFlight = {}
  BY DEF InFlight
<1>2. frozen \o << >> = frozen
  BY DEF DataOK
<1> QED BY <1>1, <1>2 DEF Rest

\* The same after a step.
LEMMA NextRestAtRest ==
  ASSUME NEW S, frozen' \in Seq(S), \A u \in Thread : pc'[u] # "f_build"
  PROVE  Rest' = frozen'
<1>1. InFlight' = {}
  BY DEF InFlight
<1>2. frozen' \o << >> = frozen'
  OBVIOUS
<1> QED BY <1>1, <1>2 DEF Rest

\* A thread that owns frozen_mtx is the only one that can be.
LEMMA RestHeld ==
  ASSUME TypeInv, NEW t \in Thread, pc[t] \in HoldingFrozen, pc[t] # "f_build"
  PROVE  Rest = frozen
<1>1. \A u \in Thread : u # t => pc[u] # "f_build"
  BY OneFlusher DEF TypeInv
<1> QED BY <1>1, RestAtRest DEF TypeInv

\* While a reader is inside frozen_mtx nobody is.
LEMMA RestShared ==
  ASSUME TypeInv, NEW t \in Thread, pc[t] \in SharingFrozen
  PROVE  Rest = frozen
<1>1. t \in frozen_mtx.readers
  BY DEF TypeInv, LockInv, LockDiscipline
<1>2. frozen_mtx.writer = NoThread
  BY <1>1 DEF TypeInv, LockInv, LockDiscipline
<1>3. \A u \in Thread : pc[u] # "f_build"
  BY <1>2, MemTableAssumption DEF TypeInv, LockInv, LockDiscipline, HoldingFrozen
<1> QED BY <1>3, RestAtRest DEF TypeInv

\* One thread is.
LEMMA RestFlushing ==
  ASSUME TypeInv, NEW t \in Thread, pc[t] = "f_build"
  PROVE  Rest = frozen \o <<ptr[t]>>
<1>1. \A u \in Thread : u # t => pc[u] # "f_build"
  BY OneFlusher DEF TypeInv, HoldingFrozen
<1>2. InFlight = {t}
  BY <1>1 DEF InFlight
<1>3. (CHOOSE u \in InFlight : TRUE) = t
  BY <1>2
<1> QED BY <1>2, <1>3 DEF Rest

\* A step that none of its parts notices.
LEMMA SameRest ==
  ASSUME UNCHANGED frozen, NEW t \in Thread, pc[t] # "f_build", pc'[t] # "f_build",
         \A u \in Thread : u # t => pc'[u] = pc[u] /\ ptr'[u] = ptr[u]
  PROVE  Rest' = Rest
<1>1. InFlight' = InFlight /\ t \notin InFlight
  BY DEF InFlight
<1>2. CASE InFlight = {}
  BY <1>1, <1>2 DEF Rest
<1>3. CASE InFlight # {}
  <2> DEFINE u == CHOOSE u \in InFlight : TRUE
  <2>1. u \in Thread /\ u # t
    BY <1>1, <1>3 DEF InFlight
  <2>2. ptr'[u] = ptr[u]
    BY <2>1
  <2> QED BY <1>1, <2>2 DEF Rest
<1> QED BY <1>2, <1>3

\* The search goes through the active table first and then through these.
LEMMA OrderIs ==
  ASSUME TypeInv
  PROVE  Rest \in Seq(DOMAIN tables) /\ Order = <<current>> \o Rest
<1>0. current \in DOMAIN tables /\ frozen \in Seq(DOMAIN tables)
  BY DEF TypeInv, DataOK
<1>1. CASE \A u \in Thread : pc[u] # "f_build"
  BY <1>0, <1>1, OrderAtRest, RestAtRest DEF TypeInv
<1>2. ASSUME NEW t \in Thread, pc[t] = "f_build"
      PROVE  Rest \in Seq(DOMAIN tables) /\ Order = <<current>> \o Rest
  <2>1. ptr[t] \in DOMAIN tables
    BY <1>2 DEF TypeInv, DataOK, InHand
  <2>2. frozen \o <<ptr[t]>> \in Seq(DOMAIN tables)
    BY <1>0, <2>1
  <2>3. (<<current>> \o frozen) \o <<ptr[t]>> = <<current>> \o (frozen \o <<ptr[t]>>)
    BY <1>0, <2>1
  <2> QED BY <1>2, <2>2, <2>3, OrderFlushing, RestFlushing
<1> QED BY <1>1, <1>2

\* The active table holds the last write to a key, or else the search below it
\* finds it.
LEMMA LatestIs ==
  ASSUME SafeInv, NEW k \in Key
  PROVE  latest[k] = IF At(tables, current, k) # None THEN At(tables, current, k) ELSE Below(k)
<1>1. /\ Rest \in Seq(DOMAIN tables) /\ current \in DOMAIN tables
      /\ Order = <<current>> \o Rest
  BY OrderIs DEF SafeInv, TypeInv, DataOK
<1>2. latest[k] = ValueIn(tables, <<current>> \o Rest, sst, k)
  BY <1>1 DEF SafeInv, Kept
<1> QED BY <1>1, <1>2, ValueCons DEF Below

-----------------------------------------------------------------------------
(* What the steps that move data may bring up.                             *)

Moves(k) ==
  /\ \A p \in DOMAIN tables :
       At(tables', p, k) = At(tables, p, k) \/ (At(tables', p, k) = latest'[k] /\ latest'[k] # None)
  /\ At(tables', current', k) \in {At(tables, current, k), None, latest'[k]}
  /\ Entries(tables', Rest', k) \subseteq
       Entries(tables, Rest, k) \cup {At(tables, current, k), None, latest'[k]}
  /\ sst'[k] = sst[k] \/ (sst'[k] # None /\ sst'[k] \in Entries(tables, Rest, k))
  /\ \/ Below(k)' \in {Below(k), latest'[k]}
     \/ Below(k)' = At(tables, current, k) /\ At(tables, current, k) # None

\* The entries and searches of a list do not see a new table at the end.
LEMMA NewTableUnseen ==
  ASSUME DataOK, NEW order \in Seq(DOMAIN tables), NEW s, NEW k \in Key,
         tables' = Append(tables, EmptyTable), current' = Len(tables) + 1
  PROVE  /\ \A p \in DOMAIN tables : At(tables', p, k) = At(tables, p, k)
         /\ At(tables', current', k) = None
         /\ Entries(tables', order, k) = Entries(tables, order, k)
         /\ ValueIn(tables', order, s, k) = ValueIn(tables, order, s, k)
<1>1. /\ \A i \in DOMAIN tables : tables'[i] = tables[i]
      /\ tables'[current'] = EmptyTable
  BY AppendTable, EmptyTableType DEF DataOK
<1>2. \A i \in DOMAIN order : order[i] \in DOMAIN tables
  OBVIOUS
<1>3. \A p \in DOMAIN tables : At(tables', p, k) = At(tables, p, k)
  BY <1>1 DEF At
<1>4. At(tables', current', k) = None
  BY <1>1 DEF At, EmptyTable
<1>5. Entries(tables', order, k) = Entries(tables, order, k)
  BY <1>2, <1>3 DEF Entries
<1>6. Agree(tables, tables', order, k)
  BY <1>1, <1>2 DEF Agree
<1>7. ValueIn(tables, order, s, k) = ValueIn(tables', order, s, k)
  BY <1>6, ValueSame
<1> QED BY <1>3, <1>4, <1>5, <1>7

\* A write brings up what it writes.
LEMMA WriteInsertMoves ==
  ASSUME SafeInv, NEW t \in Thread, WriteInsert(t), NEW j \in Key
  PROVE  Moves(j)
<1> DEFINE k == items[t][1].key
           v == items[t][1].value
           tbl == TablePut(tables[current], k, v, tranc[t])
<1>1. /\ pc[t] = "w_insert" /\ ptr[t] = current /\ current \in DOMAIN tables
      /\ items[t] \in Seq(Item) /\ items[t] # << >> /\ tables \in Seq(TableType)
      /\ tranc[t] \in TrancId /\ latest \in Map
  BY DEF SafeInv, TypeInv, DataOK, InHand, WriterOnActiveTable, WriteInsert, Goto
<1>2. items[t][1] \in Item
  BY <1>1
<1>3. k \in Key /\ v \in Value
  BY <1>2 DEF Item
<1>4. tables[current] \in TableType
  BY <1>1
<1>5. /\ tables' = [tables EXCEPT ![current] = tbl]
      /\ latest' = [latest EXCEPT ![k] = tbl.map[k]]
      /\ UNCHANGED <<current, frozen, ptr, sst>>
  BY <1>1 DEF WriteInsert
<1>6. Rest' = Rest
  <2>1. PICK to \in {"w_next", "w_check"} : pc' = [pc EXCEPT ![t] = to]
    BY DEF WriteInsert, Goto
  <2>2. /\ pc[t] # "f_build" /\ pc'[t] # "f_build"
        /\ \A u \in Thread : u # t => pc'[u] = pc[u] /\ ptr'[u] = ptr[u]
    BY <1>1, <1>5, <2>1 DEF SafeInv, TypeInv, LockInv
  <2> QED BY <1>5, <2>2, SameRest
<1>7. Rest \in Seq(DOMAIN tables)
  BY OrderIs DEF SafeInv
<1>8. /\ tbl.map[k] # None
      /\ \A i \in Key : i # k => tbl.map[i] = tables[current].map[i]
  BY <1>1, <1>3, <1>4, PutGet
<1> HIDE DEF k, v, tbl
<1>9. tables'[current] = tbl /\ \A i \in DOMAIN tables : i # current => tables'[i] = tables[i]
  BY <1>1, <1>5
<1>10. latest'[k] = tbl.map[k]
  BY <1>1, <1>3, <1>5 DEF Map
<1>11. CASE j = k
  <2>1. latest'[j] # None
    BY <1>8, <1>10, <1>11
  <2>2. \A p \in DOMAIN tables :
          At(tables', p, j) = At(tables, p, j) \/ At(tables', p, j) = latest'[j]
    BY <1>9, <1>10, <1>11 DEF At
  <2>3. \A i \in DOMAIN Rest : Rest[i] \in DOMAIN tables
    BY <1>7
  <2>4. Entries(tables', Rest, j) \subseteq Entries(tables, Rest, j) \cup {latest'[j]}
    BY <2>2, <2>3 DEF Entries
  <2>5. Written(tables, tables', Rest, j, latest'[j])
    BY <2>1, <2>2, <2>3 DEF Written
  <2>6. ValueIn(tables', Rest, sst, j) \in {ValueIn(tables, Rest, sst, j), latest'[j]}
    BY <1>7, <2>5, ValueWritten
  <2> QED BY <1>1, <1>5, <1>6, <2>1, <2>2, <2>4, <2>6 DEF Moves, Below
<1>12. CASE j # k
  <2>1. \A p \in DOMAIN tables : tables[p].map[j] = tables'[p].map[j]
    BY <1>8, <1>9, <1>12
  <2>2. \A p \in DOMAIN tables : At(tables', p, j) = At(tables, p, j)
    BY <2>1 DEF At
  <2>3. \A i \in DOMAIN Rest : Rest[i] \in DOMAIN tables
    BY <1>7
  <2>4. Entries(tables', Rest, j) = Entries(tables, Rest, j)
    BY <2>2, <2>3 DEF Entries
  <2>5. Agree(tables, tables', Rest, j)
    BY <2>1, <2>3 DEF Agree
  <2>6. ValueIn(tables, Rest, sst, j) = ValueIn(tables', Rest, sst, j)
    BY <1>7, <2>5, ValueSame
  <2> QED BY <1>1, <1>5, <1>6, <2>2, <2>4, <2>6 DEF Moves, Below
<1> QED BY <1>11, <1>12

\* A freeze puts the active table on the list.
LEMMA FreezeMoves ==
  ASSUME SafeInv, NEW t \in Thread, Freeze(t), NEW k \in Key
  PROVE  Moves(k)
<1>1. TypeInv /\ DataOK /\ current \in DOMAIN tables /\ frozen \in Seq(DOMAIN tables)
  BY DEF SafeInv, TypeInv, DataOK
<1>2. pc[t] = "z_freeze" /\ pc' = [pc EXCEPT ![t] = "idle"]
  BY DEF Freeze, Goto
<1>3. Rest = frozen
  BY <1>1, <1>2, RestHeld DEF HoldingFrozen
<1>4. \A u \in Thread : pc'[u] # "f_build"
  BY <1>1, <1>2, OneFlusher DEF TypeInv, LockInv, HoldingFrozen
<1>5. /\ tables' = Append(tables, EmptyTable) /\ current' = Len(tables) + 1
      /\ frozen' = <<current>> \o frozen /\ UNCHANGED <<sst, latest>>
  BY DEF Freeze, history
<1>6. frozen' \in Seq(DOMAIN tables)
  BY <1>1, <1>5, FrontType
<1>7. Rest' = frozen'
  BY <1>4, <1>6, NextRestAtRest
<1>8. /\ \A p \in DOMAIN tables : At(tables', p, k) = At(tables, p, k)
      /\ At(tables', current', k) = None
      /\ Entries(tables', frozen', k) = Entries(tables, frozen', k)
      /\ ValueIn(tables', frozen', sst, k) = ValueIn(tables, frozen', sst, k)
  BY <1>1, <1>5, <1>6, NewTableUnseen
<1>9. Entries(tables, frozen', k) = {At(tables, current, k)} \cup Entries(tables, frozen, k)
  BY <1>1, <1>5, EntriesCons
<1>10. ValueIn(tables, frozen', sst, k) =
         IF At(tables, current, k) # None THEN At(tables, current, k)
         ELSE ValueIn(tables, frozen, sst, k)
  BY <1>1, <1>5, ValueCons
<1> QED BY <1>3, <1>5, <1>7, <1>8, <1>9, <1>10 DEF Moves, Below

\* clear leaves what the SSTs hold.
LEMMA ClearTablesMoves ==
  ASSUME SafeInv, NEW t \in Thread, ClearTables(t), NEW k \in Key
  PROVE  Moves(k)
<1>1. TypeInv /\ DataOK
  BY DEF SafeInv, TypeInv
<1>2. pc[t] = "c_clear" /\ pc' = [pc EXCEPT ![t] = "idle"]
  BY DEF ClearTables, Goto
<1>4. \A u \in Thread : pc'[u] # "f_build"
  BY <1>1, <1>2, OneFlusher DEF TypeInv, LockInv, HoldingFrozen
<1>5. /\ tables' = Append(tables, EmptyTable) /\ current' = Len(tables) + 1
      /\ frozen' = << >> /\ latest' = sst /\ sst' = sst
  BY DEF ClearTables
<1>6. frozen' \in Seq(DOMAIN tables)
  BY <1>5
<1>7. Rest' = << >>
  BY <1>4, <1>5, <1>6, NextRestAtRest
<1>8. /\ \A p \in DOMAIN tables : At(tables', p, k) = At(tables, p, k)
      /\ At(tables', current', k) = None
  BY <1>1, <1>5, <1>6, NewTableUnseen
<1>9. Entries(tables', << >>, k) = {}
  BY EntriesNone
<1>10. ValueIn(tables', << >>, sst, k) = sst[k]
  BY ValueNone DEF NoHit
<1> QED BY <1>5, <1>7, <1>8, <1>9, <1>10 DEF Moves, Below

\* flush_last lists the active table where no other is listed.
LEMMA FlushPushMoves ==
  ASSUME SafeInv, NEW t \in Thread, FlushPush(t), NEW k \in Key
  PROVE  Moves(k)
<1> DEFINE e == << >>
<1>1. TypeInv /\ DataOK /\ current \in DOMAIN tables
  BY DEF SafeInv, TypeInv, DataOK
<1>2. pc[t] = "f_empty" /\ pc' = [pc EXCEPT ![t] = "f_swap"] /\ frozen = << >>
  BY DEF FlushPush, Goto, SafeInv, Swapping
<1>3. Rest = << >>
  BY <1>1, <1>2, RestHeld DEF HoldingFrozen
<1>4. \A u \in Thread : pc'[u] # "f_build"
  BY <1>1, <1>2, OneFlusher DEF TypeInv, LockInv, HoldingFrozen
<1>5. UNCHANGED <<tables, current, sst, latest>>
  BY DEF FlushPush, history
<1>6. e \in Seq(DOMAIN tables) /\ <<current>> \o e \in Seq(DOMAIN tables)
  BY <1>1
<1>7. frozen' = <<current>> \o e
  BY <1>2 DEF FlushPush
<1>11. Rest = e
  BY <1>3
<1> HIDE DEF e
<1>8. Rest' = <<current>> \o e
  BY <1>4, <1>6, <1>7, NextRestAtRest
<1>9. Entries(tables, <<current>> \o e, k) = {At(tables, current, k)} \cup Entries(tables, e, k)
  BY <1>1, <1>6, EntriesCons
<1>10. ValueIn(tables, <<current>> \o e, sst, k) =
         IF At(tables, current, k) # None THEN At(tables, current, k)
         ELSE ValueIn(tables, e, sst, k)
  BY <1>1, <1>6, ValueCons
<1> QED BY <1>11, <1>5, <1>8, <1>9, <1>10 DEF Moves, Below

\* and then makes a new one active.
LEMMA FlushSwapMoves ==
  ASSUME SafeInv, NEW t \in Thread, FlushSwap(t), NEW k \in Key
  PROVE  Moves(k)
<1>1. TypeInv /\ DataOK /\ frozen \in Seq(DOMAIN tables)
  BY DEF SafeInv, TypeInv, DataOK
<1>2. pc[t] = "f_swap" /\ pc' = [pc EXCEPT ![t] = "f_pop"]
  BY DEF FlushSwap, Goto
<1>3. Rest = frozen
  BY <1>1, <1>2, RestHeld DEF HoldingFrozen
<1>4. \A u \in Thread : pc'[u] # "f_build"
  BY <1>1, <1>2, OneFlusher DEF TypeInv, LockInv, HoldingFrozen
<1>5. /\ tables' = Append(tables, EmptyTable) /\ current' = Len(tables) + 1
      /\ frozen' = frozen /\ UNCHANGED <<sst, latest>>
  BY DEF FlushSwap, history
<1>6. Rest' = frozen
  BY <1>1, <1>4, <1>5, NextRestAtRest
<1>7. /\ \A p \in DOMAIN tables : At(tables', p, k) = At(tables, p, k)
      /\ At(tables', current', k) = None
      /\ Entries(tables', frozen, k) = Entries(tables, frozen, k)
      /\ ValueIn(tables', frozen, sst, k) = ValueIn(tables, frozen, sst, k)
  BY <1>1, <1>5, NewTableUnseen
<1> QED BY <1>3, <1>5, <1>6, <1>7 DEF Moves, Below

\* A table that leaves the list is searched all the same.
LEMMA FlushPopMoves ==
  ASSUME SafeInv, NEW t \in Thread, FlushPop(t), NEW k \in Key
  PROVE  Moves(k)
<1> DEFINE last == frozen[Len(frozen)]
           rest == SubSeq(frozen, 1, Len(frozen) - 1)
<1>1. /\ TypeInv /\ frozen \in Seq(DOMAIN tables) /\ frozen # << >>
      /\ ptr \in [Thread -> DOMAIN tables \cup {0}]
  BY DEF SafeInv, TypeInv, DataOK, InHand, FlushPop, Goto
<1>2. pc[t] = "f_pop" /\ pc' = [pc EXCEPT ![t] = "f_build"]
  BY DEF FlushPop, Goto
<1>3. Rest = frozen
  BY <1>1, <1>2, RestHeld DEF HoldingFrozen
<1>4. frozen = rest \o <<last>>
  BY <1>1, SplitLast
<1>5. /\ UNCHANGED <<tables, current, sst, latest>>
      /\ frozen' = rest /\ ptr' = [ptr EXCEPT ![t] = last]
  BY DEF FlushPop, history
<1> HIDE DEF last, rest
<1>6. \A u \in Thread : u # t => pc'[u] # "f_build"
  BY <1>1, <1>2, OneFlusher DEF TypeInv, LockInv, HoldingFrozen
<1>7. InFlight' = {t}
  BY <1>1, <1>2, <1>6 DEF InFlight, TypeInv, LockInv
<1>8. (CHOOSE u \in InFlight' : TRUE) = t
  BY <1>7
<1>9. Rest' = Rest
  <2>1. ptr'[t] = last
    BY <1>1, <1>5
  <2> QED BY <1>3, <1>4, <1>5, <1>7, <1>8, <2>1 DEF Rest
<1> QED BY <1>5, <1>9 DEF Moves, Below

\* What the SSTs get is what the table held that was written out.
LEMMA FlushBuildMoves ==
  ASSUME SafeInv, NEW t \in Thread, FlushBuild(t), NEW k \in Key
  PROVE  Moves(k)
<1>1. /\ TypeInv /\ frozen \in Seq(DOMAIN tables) /\ ptr[t] \in DOMAIN tables
  BY DEF SafeInv, TypeInv, DataOK, InHand, FlushBuild, Goto
<1>2. pc[t] = "f_build" /\ pc' = [pc EXCEPT ![t] = "idle"]
  BY DEF FlushBuild, Goto
<1>3. Rest = frozen \o <<ptr[t]>>
  BY <1>1, <1>2, RestFlushing
<1>4. \A u \in Thread : pc'[u] # "f_build"
  BY <1>1, <1>2, OneFlusher DEF TypeInv, LockInv, HoldingFrozen
<1>5. UNCHANGED <<tables, current, frozen, latest>>
  BY DEF FlushBuild, shared
<1>6. Rest' = frozen
  BY <1>1, <1>4, <1>5, NextRestAtRest
<1>7. sst'[k] = IF At(tables, ptr[t], k) # None THEN At(tables, ptr[t], k) ELSE sst[k]
  BY DEF FlushBuild, At
<1>8. ValueIn(tables, frozen \o <<ptr[t]>>, sst, k) = ValueIn(tables, frozen, sst', k)
  <2> DEFINE S == DOMAIN tables
             p == ptr[t]
             r == sst'
  <2>1. p \in S /\ frozen \in Seq(S) /\ Merged(tables, p, sst, r, k)
    BY <1>1, <1>7 DEF Merged, At
  <2> HIDE DEF S, p, r
  <2>2. ValueIn(tables, frozen \o <<p>>, sst, k) = ValueIn(tables, frozen, r, k)
    BY <2>1, ValueBack
  <2> QED BY <2>2 DEF p, r
<1>9. /\ Entries(tables, frozen, k) \subseteq Entries(tables, Rest, k)
      /\ At(tables, ptr[t], k) \in Entries(tables, Rest, k)
  BY <1>1, <1>3, EntriesFrontPart
<1> QED BY <1>3, <1>5, <1>6, <1>7, <1>8, <1>9 DEF Moves, Below

\* No step that moves data brings up anything else.
LEMMA BusyMoves ==
  ASSUME SafeInv, NEW t \in Thread, Busy(t), NEW k \in Key
  PROVE  Moves(k)
  BY WriteInsertMoves, FreezeMoves, ClearTablesMoves, FlushPushMoves, FlushSwapMoves,
     FlushPopMoves, FlushBuildMoves DEF Busy

-----------------------------------------------------------------------------
(* The steps of others.                                                    *)

\* A step that moves data leaves the readers alone, but shows them new values.
LEMMA BusySeen ==
  ASSUME TypeInv, NEW u \in Thread, Busy(u), NEW t \in Thread,
         pc'[t] \in Reading, latest \in seen[t]
  PROVE  /\ t # u
         /\ pc'[t] = pc[t] /\ keys'[t] = keys[t] /\ out'[t] = out[t] /\ ptr'[t] = ptr[t]
         /\ seen[t] \subseteq seen'[t]
         /\ latest' \in seen'[t]
<1>1. PICK to \in {"w_next", "w_check", "idle", "f_swap", "f_pop", "f_build"} :
        pc' = [pc EXCEPT ![u] = to]
  BY DEF Busy, WriteInsert, Freeze, ClearTables, FlushPush, FlushSwap, FlushPop,
     FlushBuild, Goto
<1>2. t # u /\ pc'[t] = pc[t]
  BY <1>1 DEF Reading, TypeInv, LockInv
<1>3. UNCHANGED <<keys, out>>
  BY DEF Busy, WriteInsert, Freeze, ClearTables, FlushPush, FlushSwap, FlushPop,
     FlushBuild, locals
<1>4. ptr'[t] = ptr[t]
  BY <1>2 DEF Busy, WriteInsert, Freeze, ClearTables, FlushPush, FlushSwap, FlushPop,
     FlushBuild, locals, TypeInv, DataOK
<1>5. seen[t] \subseteq seen'[t] /\ latest' \in seen'[t]
  <2>1. CASE WriteInsert(u) \/ ClearTables(u)
    <3>1. Observe(latest')
      BY <2>1 DEF WriteInsert, ClearTables
    <3>2. pc[t] \in Reading
      BY <1>2
    <3> QED BY <3>1, <3>2 DEF Observe
  <2>2. CASE ~(WriteInsert(u) \/ ClearTables(u))
    <3>1. UNCHANGED <<latest, seen>>
      BY <2>2 DEF Busy, Freeze, FlushPush, FlushSwap, FlushPop, FlushBuild, history
    <3> QED BY <3>1
  <2> QED BY <2>1, <2>2
<1> QED BY <1>2, <1>3, <1>4, <1>5

\* The values a reader may answer with become more and include the latest ones.
LEMMA RecentGrows ==
  ASSUME NEW t \in Thread, seen[t] \subseteq seen'[t], latest' \in seen'[t], NEW k
  PROVE  Recent(t, k) \subseteq Recent(t, k)' /\ latest'[k] \in Recent(t, k)'
  BY DEF Recent

\* What a reader relies on survives the steps that move data.
LEMMA HalfMissedKept ==
  ASSUME NEW t \in Thread, NEW k \in Key, Moves(k), HalfMissed(t, k),
         Recent(t, k) \subseteq Recent(t, k)', latest'[k] \in Recent(t, k)'
  PROVE  HalfMissed(t, k)'
  BY DEF HalfMissed, Moves

\* The same for a key that no table had.
LEMMA MissedKept ==
  ASSUME NEW t \in Thread, NEW k \in Key, Moves(k), Missed(t, k),
         Recent(t, k) \subseteq Recent(t, k)', latest'[k] \in Recent(t, k)'
  PROVE  Missed(t, k)'
  BY DEF Missed, Moves

\* More maps to choose from and more keys in the SSTs do no harm.
LEMMA CopyStays ==
  ASSUME NEW M, NEW N, M \subseteq N, NEW K, NEW o, NEW s, NEW r,
         \A k \in K : s[k] # None => r[k] # None, CopyOf(M, K, o, s)
  PROVE  CopyOf(N, K, o, r)
<1>1. PICK m \in M : \A k \in K :
        LET hits == {i \in DOMAIN o : o[i][k] # None}
        IN  IF hits = {} THEN m[k] = None \/ s[k] # None ELSE o[Min(hits)][k] = m[k]
  BY DEF CopyOf
<1>2. ASSUME NEW k \in K
      PROVE  LET hits == {i \in DOMAIN o : o[i][k] # None}
             IN  IF hits = {} THEN m[k] = None \/ r[k] # None ELSE o[Min(hits)][k] = m[k]
  <2> DEFINE hits == {i \in DOMAIN o : o[i][k] # None}
  <2>1. IF hits = {} THEN m[k] = None \/ s[k] # None ELSE o[Min(hits)][k] = m[k]
    BY <1>1
  <2> HIDE DEF hits
  <2>2. IF hits = {} THEN m[k] = None \/ r[k] # None ELSE o[Min(hits)][k] = m[k]
    BY <2>1
  <2> QED BY <2>2 DEF hits
<1>3. m \in N
  BY <1>1
<1> QED BY <1>2, <1>3 DEF CopyOf

\* A finished scan stays one.
LEMMA SnapshotKept ==
  ASSUME NEW t \in Thread, \A k \in Key : Moves(k), keys[t] \subseteq Key, Snapshot(t),
         seen[t] \subseteq seen'[t], keys'[t] = keys[t], out'[t] = out[t]
  PROVE  Snapshot(t)'
<1>1. \A k \in keys[t] : sst[k] # None => sst'[k] # None
  BY DEF Moves
<1>2. CopyOf(seen'[t], keys[t], out[t], sst')
  BY <1>1, CopyStays DEF Snapshot
<1> QED BY <1>2 DEF Snapshot

\* So the invariant of a reader survives them.
LEMMA BusyReliable ==
  ASSUME SafeInv, NEW u \in Thread, Busy(u), NEW t \in Thread, Reliable(t)
  PROVE  Reliable(t)'
<1>1. CASE pc'[t] \notin Reading
  BY <1>1 DEF Reliable, Reading, Looking
<1>2. CASE pc'[t] \in Reading
  <2>1. \A k \in Key : Moves(k)
    BY BusyMoves
  <2>2. pc[t] \in Reading
    <3>1. CASE t = u
      BY <1>2, <3>1, BusyOwns DEF SafeInv, TypeInv, LockInv, Busy, WriteInsert, Freeze,
         ClearTables, FlushPush, FlushSwap, FlushPop, FlushBuild, Goto, Reading
    <3>2. CASE t # u
      BY <1>2, <3>2, BusyOwns DEF SafeInv, TypeInv
    <3> QED BY <3>1, <3>2
  <2>3. /\ pc'[t] = pc[t] /\ keys'[t] = keys[t] /\ out'[t] = out[t] /\ ptr'[t] = ptr[t]
        /\ seen[t] \subseteq seen'[t] /\ latest' \in seen'[t]
    BY <1>2, <2>2, BusySeen DEF SafeInv, Reliable
  <2>4. \A k : Recent(t, k) \subseteq Recent(t, k)' /\ latest'[k] \in Recent(t, k)'
    BY <2>3, RecentGrows
  <2>5. keys[t] \subseteq Key /\ ptr[t] \in DOMAIN tables \cup {0}
    BY DEF SafeInv, TypeInv, DataOK
  <2>6. \A k \in keys[t] : HalfMissed(t, k) => HalfMissed(t, k)'
    BY <2>1, <2>4, <2>5, HalfMissedKept
  <2>7. \A k \in keys[t] : Missed(t, k) => Missed(t, k)'
    BY <2>1, <2>4, <2>5, MissedKept
  <2>8. \A k \in keys[t] : ptr[t] # 0 /\ At(tables, ptr[t], k) \in Recent(t, k) \ {None}
          => At(tables', ptr[t], k) \in Recent(t, k)' \ {None}
    BY <2>1, <2>4, <2>5 DEF Moves
  <2>9. Snapshot(t) => Snapshot(t)'
    BY <2>1, <2>3, <2>5, SnapshotKept
  <2> QED BY <2>3, <2>4, <2>6, <2>7, <2>8, <2>9 DEF Reliable
<1> QED BY <1>1, <1>2

\* A step that moves no data leaves what the other threads go by alone.
LEMMA QuietLocal ==
  ASSUME TypeInv, NEW u \in Thread, Step(u), ~Busy(u), NEW t \in Thread, t # u
  PROVE  keys'[t] = keys[t] /\ out'[t] = out[t] /\ seen'[t] = seen[t]
<1> USE DEF TypeInv, DataOK, shared, locals, history
<1>1. CASE Write(u)
  <2>1. CASE put(u) \/ put_batch(u) \/ remove(u) \/ remove_batch(u)
    BY <2>1 DEF put, put_batch, remove, remove_batch, StartWrite
  <2>2. CASE WriteLock(u) \/ WriteNext(u) \/ WriteReturn(u) \/ WriteFull(u)
    BY <2>2 DEF WriteLock, WriteNext, WriteReturn, WriteFull
  <2> QED BY <1>1, <2>1, <2>2 DEF Write, Busy
<1>2. CASE FreezeStep(u)
  BY <1>2 DEF FreezeStep, Busy, frozen_cur_table, FreezeCurLock, FreezeLock
<1>3. CASE ClearStep(u)
  BY <1>3 DEF ClearStep, Busy, clear, ClearCurLock, ClearFrozenLock
<1>4. CASE Get(u)
  <2>1. CASE get(u)
    BY <2>1 DEF get, StartRead
  <2>2. CASE ShareCur(u, "g_lock", "g_cur") \/ ShareFrozen(u, "g_frozen_lock", "g_frozen")
    BY <2>2 DEF ShareCur, ShareFrozen
  <2>3. CASE GetCur(u) \/ GetFrozen(u)
    BY <2>3 DEF GetCur, GetFrozen
  <2>4. CASE GetDeref(u)
    BY <2>4 DEF GetDeref
  <2>5. CASE ReadReturn(u, "g_done")
    BY <2>5 DEF ReadReturn
  <2> QED BY <1>4, <2>1, <2>2, <2>3, <2>4, <2>5 DEF Get
<1>5. CASE GetBatch(u)
  <2>1. CASE get_batch(u)
    BY <2>1 DEF get_batch, StartRead
  <2>2. CASE ShareCur(u, "b_lock", "b_cur") \/ ShareFrozen(u, "b_frozen_lock", "b_frozen")
    BY <2>2 DEF ShareCur, ShareFrozen
  <2>3. CASE BatchCur(u) \/ BatchFrozen(u)
    BY <2>3 DEF BatchCur, BatchFrozen
  <2> QED BY <1>5, <2>1, <2>2, <2>3 DEF GetBatch
<1>6. CASE Scan(u)
  <2>1. CASE begin(u) \/ iters_range(u)
    BY <2>1 DEF begin, iters_range, StartRead
  <2>2. CASE ShareCur(u, "s_lock", "s_frozen_lock") \/ ShareFrozen(u, "s_frozen_lock", "s_snapshot")
    BY <2>2 DEF ShareCur, ShareFrozen
  <2>3. CASE ScanSnapshot(u)
    BY <2>3 DEF ScanSnapshot
  <2>4. CASE ReadReturn(u, "s_done")
    BY <2>4 DEF ReadReturn
  <2> QED BY <1>6, <2>1, <2>2, <2>3, <2>4 DEF Scan
<1>7. CASE TotalSize(u)
  BY <1>7 DEF TotalSize, get_total_size, ShareCur, ShareFrozen, SizeFrozen, SizeCur, SizeReturn
<1>8. CASE Flush(u)
  BY <1>8 DEF Flush, Busy, flush_last, FlushLock, FlushNothing
<1> QED BY <1>1, <1>2, <1>3, <1>4, <1>5, <1>6, <1>7, <1>8 DEF Step

\* What a reader relies on is the same after a step that moves no data, if its
\* call did not begin with it.
LEMMA QuietSame ==
  ASSUME NEW u \in Thread, Quiet(u), NEW t \in Thread, seen'[t] = seen[t], NEW k
  PROVE  /\ Recent(t, k)' = Recent(t, k)
         /\ HalfMissed(t, k)' = HalfMissed(t, k)
         /\ Missed(t, k)' = Missed(t, k)
<1>1. Rest' = Rest
  BY SameRest DEF Quiet, shared
<1>2. UNCHANGED <<tables, current, sst>>
  BY DEF Quiet, shared
<1>3. Recent(t, k)' = Recent(t, k)
  BY DEF Recent
<1> QED BY <1>1, <1>2, <1>3 DEF HalfMissed, Missed, Below

\* So the invariant of a reader survives such steps of others.
LEMMA QuietReliable ==
  ASSUME TypeInv, NEW u \in Thread, Step(u), ~Busy(u), Quiet(u),
         NEW t \in Thread, t # u, Reliable(t)
  PROVE  Reliable(t)'
<1>1. /\ keys'[t] = keys[t] /\ out'[t] = out[t] /\ seen'[t] = seen[t]
      /\ pc'[t] = pc[t] /\ ptr'[t] = ptr[t]
  BY QuietLocal DEF Quiet
<1>2. UNCHANGED <<tables, current, sst, latest>>
  BY DEF Quiet, shared
<1>3. \A k : /\ Recent(t, k)' = Recent(t, k)
             /\ HalfMissed(t, k)' = HalfMissed(t, k)
             /\ Missed(t, k)' = Missed(t, k)
  BY <1>1, QuietSame
<1>4. Snapshot(t)' = Snapshot(t)
  BY <1>1, <1>2 DEF Snapshot
<1> QED BY <1>1, <1>2, <1>3, <1>4 DEF Reliable

-----------------------------------------------------------------------------
(* The steps of a reader.                                                  *)

\* A call begins with the present values.
LEMMA StartReadReliable ==
  ASSUME TypeInv, NEW t \in Thread, NEW ks, NEW to \in {"g_lock", "b_lock", "s_lock"},
         StartRead(t, ks, to), to = "g_lock" => \E k \in Key : ks = {k}
  PROVE  Reliable(t)'
<1>1. /\ pc'[t] = to /\ keys'[t] = ks /\ seen'[t] = {latest} /\ latest' = latest
  BY DEF StartRead, Call, Goto, TypeInv, LockInv, DataOK
<1> QED BY <1>1 DEF Reliable, Looking

\* Waiting for a mutex changes nothing.
LEMMA ShareReliable ==
  ASSUME TypeInv, NEW t \in Thread, Quiet(t), Reliable(t), NEW from, NEW to,
         ShareCur(t, from, to) \/ ShareFrozen(t, from, to),
         \/ <<from, to>> \in {<<"g_lock", "g_cur">>, <<"g_frozen_lock", "g_frozen">>,
                              <<"b_lock", "b_cur">>, <<"b_frozen_lock", "b_frozen">>,
                              <<"s_lock", "s_frozen_lock">>, <<"s_frozen_lock", "s_snapshot">>}
  PROVE  Reliable(t)'
<1>1. /\ pc[t] = from /\ pc'[t] = to
      /\ UNCHANGED <<keys, out, ptr, seen, latest>>
  BY DEF ShareCur, ShareFrozen, Goto, TypeInv, LockInv, locals, history
<1>2. \A k : HalfMissed(t, k)' = HalfMissed(t, k) /\ Recent(t, k)' = Recent(t, k)
  BY <1>1, QuietSame
<1> QED BY <1>1, <1>2 DEF Reliable, Reading, Looking

\* The search of a list with the active table alone.
LEMMA HitCurrent ==
  ASSUME DataOK, NEW k \in Key \ {0}
  PROVE  FirstHit(<<current>>, k) = IF At(tables, current, k) # None THEN current ELSE 0
<1> DEFINE o == <<current>>
           H == Hits(o, k)
<1>1. DOMAIN o = {1} /\ o[1] = current
  OBVIOUS
<1>2. H = {i \in {1} : At(tables, current, k) # None}
  BY <1>1 DEF Hits, At, TableGet
<1>3. CASE At(tables, current, k) # None
  <2>1. H = {1}
    BY <1>2, <1>3
  <2>2. (CHOOSE i \in H : \A j \in H : i <= j) = 1
    BY <2>1
  <2> HIDE DEF H
  <2>3. FirstHit(o, k) = o[1]
    BY <2>1, <2>2 DEF FirstHit, H
  <2> QED BY <1>1, <1>3, <2>3
<1>4. CASE At(tables, current, k) = None
  BY <1>2, <1>4 DEF FirstHit
<1> QED BY <1>3, <1>4

\* The first half of get.
LEMMA GetCurReliable ==
  ASSUME SafeInv, NEW t \in Thread, Quiet(t), Reliable(t), GetCur(t)
  PROVE  Reliable(t)'
<1> DEFINE p == FirstHit(<<current>>, Wanted(t))
           to == IF p # 0 THEN "g_deref" ELSE "g_frozen_lock"
<1>1. /\ pc[t] = "g_cur" /\ pc'[t] = to /\ ptr'[t] = p
      /\ UNCHANGED <<tables, keys, out, seen, latest>>
  BY DEF GetCur, Goto, SafeInv, TypeInv, LockInv, DataOK, shared, history
<1>2. PICK k \in Key : keys[t] = {k}
  BY <1>1 DEF Reliable, Looking
<1>3. Wanted(t) = k
  BY <1>2 DEF Wanted
<1>4. latest \in seen[t]
  BY <1>1 DEF Reliable, Reading
<1>5. \A j : HalfMissed(t, j)' = HalfMissed(t, j) /\ Recent(t, j)' = Recent(t, j)
  BY <1>1, QuietSame
<1>6. latest[k] \in Recent(t, k)
  BY <1>4 DEF Recent
<1>7. latest[k] = IF At(tables, current, k) # None THEN At(tables, current, k) ELSE Below(k)
  BY LatestIs
<1>8. current # 0
  BY DEF SafeInv, TypeInv, DataOK
<1>9. k # 0 => p = IF At(tables, current, k) # None THEN current ELSE 0
  BY <1>3, HitCurrent DEF SafeInv, TypeInv
<1> HIDE DEF p
<1>10. k # 0 /\ p = 0 => HalfMissed(t, k)
  BY <1>6, <1>7, <1>8, <1>9 DEF HalfMissed
<1>11. k # 0 /\ p # 0 => At(tables, p, k) \in Recent(t, k) \ {None}
  BY <1>6, <1>7, <1>8, <1>9
<1> QED BY <1>1, <1>2, <1>4, <1>5, <1>10, <1>11 DEF Reliable, Reading, Looking

\* What the second half of a lookup relies on is what it needs.
LEMMA SecondHalf ==
  ASSUME SafeInv, NEW t \in Thread, pc[t] \in SharingFrozen, NEW k \in Key \ {0},
         HalfMissed(t, k)
  PROVE  \/ FirstHit(frozen, k) = 0 /\ Missed(t, k)
         \/ /\ FirstHit(frozen, k) \in DOMAIN tables \ {0}
            /\ At(tables, FirstHit(frozen, k), k) \in Recent(t, k) \ {None}
<1>1. Rest = frozen /\ frozen \in Seq(DOMAIN tables) /\ DataOK
  BY RestShared DEF SafeInv, TypeInv, DataOK
<1>2. \/ /\ FirstHit(frozen, k) = 0
         /\ ValueIn(tables, frozen, sst, k) = sst[k]
         /\ Entries(tables, frozen, k) \subseteq {None}
      \/ /\ FirstHit(frozen, k) \in DOMAIN tables
         /\ FirstHit(frozen, k) # 0
         /\ At(tables, FirstHit(frozen, k), k) # None
         /\ ValueIn(tables, frozen, sst, k) = At(tables, FirstHit(frozen, k), k)
  BY <1>1, HitIs
<1>3. ValueIn(tables, frozen, sst, k) \in Recent(t, k)
  BY <1>1 DEF HalfMissed, Below
<1> QED BY <1>1, <1>2, <1>3 DEF HalfMissed, Missed

\* The second half of get.
LEMMA GetFrozenReliable ==
  ASSUME SafeInv, NEW t \in Thread, Quiet(t), Reliable(t), GetFrozen(t)
  PROVE  Reliable(t)'
<1> DEFINE p == FirstHit(frozen, Wanted(t))
<1>1. /\ pc[t] = "g_frozen" /\ pc'[t] = "g_deref" /\ ptr'[t] = p
      /\ UNCHANGED <<tables, keys, out, seen, latest>>
  BY DEF GetFrozen, Goto, SafeInv, TypeInv, LockInv, DataOK, shared, history
<1>2. PICK k \in Key : keys[t] = {k}
  BY <1>1 DEF Reliable, Looking
<1>3. Wanted(t) = k
  BY <1>2 DEF Wanted
<1>4. latest \in seen[t]
  BY <1>1 DEF Reliable, Reading
<1>5. \A j : Missed(t, j)' = Missed(t, j) /\ Recent(t, j)' = Recent(t, j)
  BY <1>1, QuietSame
<1>6. k # 0 => HalfMissed(t, k)
  BY <1>1, <1>2 DEF Reliable
<1>7. k # 0 => \/ p = 0 /\ Missed(t, k)
               \/ p # 0 /\ At(tables, p, k) \in Recent(t, k) \ {None}
  BY <1>1, <1>3, <1>6, SecondHalf DEF SharingFrozen
<1> HIDE DEF p
<1> QED BY <1>1, <1>2, <1>4, <1>5, <1>7 DEF Reliable, Looking

\* The value is read through the iterator, with no lock held.
LEMMA GetDerefReliable ==
  ASSUME SafeInv, NEW t \in Thread, Quiet(t), Reliable(t), GetDeref(t)
  PROVE  Reliable(t)'
<1> DEFINE f == [k \in Key |-> IF k \in keys[t] THEN Found(ptr[t], k) ELSE None]
<1>1. /\ pc[t] = "g_deref" /\ pc'[t] = "g_done" /\ out' = [out EXCEPT ![t] = <<f>>]
      /\ UNCHANGED <<tables, keys, ptr, seen, latest>>
  BY DEF GetDeref, Goto, SafeInv, TypeInv, LockInv, DataOK, shared, history
<1>2. out'[t][1] = f
  BY <1>1 DEF SafeInv, TypeInv, DataOK
<1>3. latest \in seen[t] /\ keys[t] \subseteq Key
  BY <1>1 DEF Reliable, Reading, SafeInv, TypeInv, DataOK
<1>4. \A j : Missed(t, j)' = Missed(t, j) /\ Recent(t, j)' = Recent(t, j)
  BY <1>1, QuietSame
<1>5. ASSUME NEW k \in keys[t] \ {0}
      PROVE  IF f[k] = None THEN Missed(t, k) ELSE f[k] \in Recent(t, k)
  <2>1. f[k] = Found(ptr[t], k)
    BY <1>3, <1>5
  <2>2. IF ptr[t] = 0 THEN Missed(t, k)
        ELSE At(tables, ptr[t], k) \in Recent(t, k) \ {None}
    BY <1>1, <1>5 DEF Reliable
  <2>3. ptr[t] # 0 => Found(ptr[t], k) = At(tables, ptr[t], k)
    BY <1>5 DEF Found, TableGet, At
  <2>4. ptr[t] = 0 => Found(ptr[t], k) = None
    BY DEF Found
  <2> HIDE DEF f
  <2> QED BY <2>1, <2>2, <2>3, <2>4
<1> HIDE DEF f
<1> QED BY <1>1, <1>2, <1>3, <1>4, <1>5 DEF Reliable, Looking

\* The first half of get_batch.
LEMMA BatchCurReliable ==
  ASSUME SafeInv, NEW t \in Thread, Quiet(t), Reliable(t), BatchCur(t)
  PROVE  Reliable(t)'
<1> DEFINE f == [k \in Key |-> IF k \in keys[t] THEN TableGet(tables[current], k) ELSE None]
           to == IF \A k \in keys[t] : f[k] # None THEN "g_done" ELSE "b_frozen_lock"
<1>1. /\ pc[t] = "b_cur" /\ pc'[t] = to /\ out' = [out EXCEPT ![t] = <<f>>]
      /\ UNCHANGED <<tables, keys, ptr, seen, latest>>
  BY DEF BatchCur, Goto, SafeInv, TypeInv, LockInv, DataOK, shared, history
<1>2. out'[t][1] = f
  BY <1>1 DEF SafeInv, TypeInv, DataOK
<1>3. latest \in seen[t] /\ keys[t] \subseteq Key
  BY <1>1 DEF Reliable, Reading, SafeInv, TypeInv, DataOK
<1>4. \A j : HalfMissed(t, j)' = HalfMissed(t, j) /\ Recent(t, j)' = Recent(t, j)
  BY <1>1, QuietSame
<1>5. ASSUME NEW k \in keys[t] \ {0}
      PROVE  IF f[k] = None THEN HalfMissed(t, k) ELSE f[k] \in Recent(t, k)
  <2>1. f[k] = At(tables, current, k)
    BY <1>3, <1>5 DEF TableGet, At
  <2>2. latest[k] \in Recent(t, k)
    BY <1>3 DEF Recent
  <2>3. latest[k] = IF At(tables, current, k) # None THEN At(tables, current, k) ELSE Below(k)
    BY <1>3, <1>5, LatestIs
  <2> HIDE DEF f
  <2> QED BY <2>1, <2>2, <2>3 DEF HalfMissed
<1>6. to = "g_done" => \A k \in keys[t] : f[k] # None
  OBVIOUS
<1>7. to \in {"g_done", "b_frozen_lock"}
  OBVIOUS
<1> HIDE DEF f, to
<1> QED BY <1>1, <1>2, <1>3, <1>4, <1>5, <1>6, <1>7 DEF Reliable, Looking

\* The second half of get_batch.
LEMMA BatchFrozenReliable ==
  ASSUME SafeInv, NEW t \in Thread, Quiet(t), Reliable(t), BatchFrozen(t)
  PROVE  Reliable(t)'
<1> DEFINE f == [k \in Key |-> IF k \in keys[t] /\ out[t][1][k] = None
                               THEN Found(FirstHit(frozen, k), k)
                               ELSE out[t][1][k]]
<1>1. /\ pc[t] = "b_frozen" /\ pc'[t] = "g_done" /\ out' = [out EXCEPT ![t] = <<f>>]
      /\ UNCHANGED <<tables, keys, ptr, seen, latest>>
  BY DEF BatchFrozen, Goto, SafeInv, TypeInv, LockInv, DataOK, shared, history
<1>2. out'[t][1] = f
  BY <1>1 DEF SafeInv, TypeInv, DataOK
<1>3. latest \in seen[t] /\ keys[t] \subseteq Key
  BY <1>1 DEF Reliable, Reading, SafeInv, TypeInv, DataOK
<1>4. \A j : Missed(t, j)' = Missed(t, j) /\ Recent(t, j)' = Recent(t, j)
  BY <1>1, QuietSame
<1>5. ASSUME NEW k \in keys[t] \ {0}
      PROVE  IF f[k] = None THEN Missed(t, k) ELSE f[k] \in Recent(t, k)
  <2>0. k \in Key \ {0}
    BY <1>3, <1>5
  <2>1. f[k] = IF out[t][1][k] = None THEN Found(FirstHit(frozen, k), k) ELSE out[t][1][k]
    BY <1>5, <2>0
  <2>2. IF out[t][1][k] = None THEN HalfMissed(t, k) ELSE out[t][1][k] \in Recent(t, k)
    BY <1>1, <1>5 DEF Reliable
  <2> HIDE DEF f
  <2>3. CASE out[t][1][k] = None
    <3>1. \/ FirstHit(frozen, k) = 0 /\ Missed(t, k)
          \/ /\ FirstHit(frozen, k) \in DOMAIN tables \ {0}
             /\ At(tables, FirstHit(frozen, k), k) \in Recent(t, k) \ {None}
      BY <1>1, <2>0, <2>2, <2>3, SecondHalf DEF SharingFrozen
    <3>2. FirstHit(frozen, k) # 0 => f[k] = At(tables, FirstHit(frozen, k), k)
      BY <2>0, <2>1, <2>3 DEF Found, TableGet, At
    <3>3. FirstHit(frozen, k) = 0 => f[k] = None
      BY <2>1, <2>3 DEF Found
    <3> QED BY <3>1, <3>2, <3>3
  <2>4. CASE out[t][1][k] # None
    BY <2>1, <2>2, <2>4
  <2> QED BY <2>3, <2>4
<1> HIDE DEF f
<1> QED BY <1>1, <1>2, <1>3, <1>4, <1>5 DEF Reliable, Looking

\* A scan copies everything at one moment.
LEMMA ScanSnapshotReliable ==
  ASSUME SafeInv, NEW t \in Thread, Quiet(t), Reliable(t), ScanSnapshot(t)
  PROVE  Reliable(t)'
<1> DEFINE order == <<current>> \o frozen
           o == [i \in DOMAIN order |->
                   [k \in Key |-> IF k \in keys[t] THEN tables[order[i]].map[k] ELSE None]]
<1>1. /\ pc[t] = "s_snapshot" /\ pc'[t] = "s_done" /\ out' = [out EXCEPT ![t] = o]
      /\ UNCHANGED <<tables, keys, seen, latest, sst>>
  BY DEF ScanSnapshot, Goto, SafeInv, TypeInv, LockInv, DataOK, shared, history
<1>2. out'[t] = o
  BY <1>1 DEF SafeInv, TypeInv, DataOK
<1>3. latest \in seen[t] /\ keys[t] \subseteq Key
  BY <1>1 DEF Reliable, Reading, SafeInv, TypeInv, DataOK
<1>4. Order = order
  BY <1>1, OrderIs, RestShared DEF SafeInv, SharingFrozen
<1>5. order \in Seq(DOMAIN tables)
  BY FrontType DEF SafeInv, TypeInv
<1> HIDE DEF order
<1>6. ASSUME NEW k \in keys[t]
      PROVE  LET hits == {i \in DOMAIN o : o[i][k] # None}
             IN  IF hits = {} THEN latest[k] = None \/ sst[k] # None
                 ELSE o[Min(hits)][k] = latest[k]
  <2> DEFINE hits == {i \in DOMAIN o : o[i][k] # None}
             c == CHOOSE i \in hits : \A j \in hits : i <= j
  <2>1. DOMAIN o = DOMAIN order /\ \A i \in DOMAIN order : o[i][k] = tables[order[i]].map[k]
    BY <1>3, <1>6
  <2> HIDE DEF o
  <2>2. hits = HitsIn(tables, order, k)
    BY <2>1 DEF HitsIn
  <2>3. ValueIn(tables, order, sst, k) = latest[k]
    BY <1>3, <1>4, <1>6 DEF SafeInv, Kept
  <2>4. CASE hits = {}
    <3>1. latest[k] = sst[k]
      BY <2>2, <2>3, <2>4 DEF ValueIn
    <3> QED BY <2>4, <3>1
  <2>5. CASE hits # {}
    <3>1. latest[k] = tables[order[c]].map[k]
      BY <2>2, <2>3, <2>5 DEF ValueIn
    <3>2. hits \in SUBSET Nat
      BY <1>5, <2>2 DEF HitsIn
    <3>3. \E i \in hits : \A j \in hits : i <= j
      BY <2>5, <3>2, Least
    <3>4. c \in DOMAIN order
      BY <2>1, <3>3
    <3>5. Min(hits) = c
      BY DEF Min
    <3> HIDE DEF hits, c
    <3>6. o[Min(hits)][k] = latest[k]
      BY <2>1, <3>1, <3>4, <3>5
    <3> QED BY <2>5, <3>6 DEF hits
  <2> QED BY <2>4, <2>5
<1> HIDE DEF o
<1>7. CopyOf(seen[t], keys[t], o, sst)
  BY <1>3, <1>6 DEF CopyOf
<1>8. Snapshot(t)'
  BY <1>1, <1>2, <1>7 DEF Snapshot
<1> QED BY <1>1, <1>3, <1>8 DEF Reliable, Looking

-----------------------------------------------------------------------------
(* All steps.                                                              *)

\* A step of t that moves no data keeps the invariant of t.
LEMMA OwnReliable ==
  ASSUME SafeInv, NEW t \in Thread, Step(t), ~Busy(t), Quiet(t), Reliable(t)
  PROVE  Reliable(t)'
<1>0. SUFFICES ASSUME pc'[t] \in Reading PROVE Reliable(t)'
  BY DEF Reliable, Reading, Looking
<1>1. CASE Write(t) \/ FreezeStep(t) \/ ClearStep(t) \/ TotalSize(t) \/ Flush(t)
  <2>1. PICK to \in {"w_lock", "w_check", "w_insert", "idle", "z_freeze_lock", "z_lock",
                     "z_freeze", "c_lock", "c_frozen_lock", "c_clear", "t_lock",
                     "t_frozen_lock", "t_frozen", "t_cur", "t_return", "f_lock",
                     "f_empty", "f_pop"} :
          pc' = [pc EXCEPT ![t] = to]
    <3>1. CASE Write(t)
      <4>1. CASE put(t) \/ put_batch(t) \/ remove(t) \/ remove_batch(t)
        BY <4>1 DEF put, put_batch, remove, remove_batch, StartWrite, Call, Goto
      <4>2. CASE WriteLock(t) \/ WriteNext(t) \/ WriteReturn(t) \/ WriteFull(t)
        BY <4>2 DEF WriteLock, WriteNext, WriteReturn, WriteFull, Goto
      <4> QED BY <3>1, <4>1, <4>2 DEF Write, Busy
    <3>2. CASE FreezeStep(t)
      BY <3>2 DEF FreezeStep, Busy, frozen_cur_table, Call, FreezeCurLock, FreezeLock, Goto
    <3>3. CASE ClearStep(t)
      BY <3>3 DEF ClearStep, Busy, clear, Call, ClearCurLock, ClearFrozenLock, Goto
    <3>4. CASE TotalSize(t)
      BY <3>4 DEF TotalSize, get_total_size, Call, ShareCur, ShareFrozen, SizeFrozen,
         SizeCur, SizeReturn, Goto
    <3>5. CASE Flush(t)
      BY <3>5 DEF Flush, Busy, flush_last, Call, FlushLock, FlushNothing, Goto
    <3> QED BY <1>1, <3>1, <3>2, <3>3, <3>4, <3>5
  <2> QED BY <1>0, <2>1 DEF Reading, SafeInv, TypeInv, LockInv
<1>2. CASE Get(t)
  <2>1. CASE get(t)
    <3>1. PICK k \in Key : StartRead(t, {k}, "g_lock")
      BY <2>1 DEF get
    <3> QED BY <3>1, StartReadReliable DEF SafeInv
  <2>2. CASE ShareCur(t, "g_lock", "g_cur") \/ ShareFrozen(t, "g_frozen_lock", "g_frozen")
    BY <2>2, ShareReliable DEF SafeInv
  <2>3. CASE GetCur(t)
    BY <2>3, GetCurReliable
  <2>4. CASE GetFrozen(t)
    BY <2>4, GetFrozenReliable
  <2>5. CASE GetDeref(t)
    BY <2>5, GetDerefReliable
  <2>6. CASE ReadReturn(t, "g_done")
    BY <1>0, <2>6 DEF ReadReturn, Goto, Reading, SafeInv, TypeInv, LockInv
  <2> QED BY <1>2, <2>1, <2>2, <2>3, <2>4, <2>5, <2>6 DEF Get
<1>3. CASE GetBatch(t)
  <2>1. CASE get_batch(t)
    BY <2>1, StartReadReliable DEF get_batch, SafeInv
  <2>2. CASE ShareCur(t, "b_lock", "b_cur") \/ ShareFrozen(t, "b_frozen_lock", "b_frozen")
    BY <2>2, ShareReliable DEF SafeInv
  <2>3. CASE BatchCur(t)
    BY <2>3, BatchCurReliable
  <2>4. CASE BatchFrozen(t)
    BY <2>4, BatchFrozenReliable
  <2> QED BY <1>3, <2>1, <2>2, <2>3, <2>4 DEF GetBatch
<1>4. CASE Scan(t)
  <2>1. CASE begin(t) \/ iters_range(t)
    BY <2>1, StartReadReliable DEF begin, iters_range, SafeInv
  <2>2. CASE ShareCur(t, "s_lock", "s_frozen_lock") \/ ShareFrozen(t, "s_frozen_lock", "s_snapshot")
    BY <2>2, ShareReliable DEF SafeInv
  <2>3. CASE ScanSnapshot(t)
    BY <2>3, ScanSnapshotReliable
  <2>4. CASE ReadReturn(t, "s_done")
    BY <1>0, <2>4 DEF ReadReturn, Goto, Reading, SafeInv, TypeInv, LockInv
  <2> QED BY <1>4, <2>1, <2>2, <2>3, <2>4 DEF Scan
<1> QED BY <1>1, <1>2, <1>3, <1>4 DEF Step

\* The invariant is kept by every step.
LEMMA ReadStep ==
  ASSUME NoRacingFlush
  PROVE  ReadInv /\ [Next]_vars => ReadInv'
<1> SUFFICES ASSUME ReadInv, [Next]_vars PROVE ReadInv'
  OBVIOUS
<1>0. SafeInv /\ SafeInv' /\ TypeInv
  BY SafeStep DEF ReadInv, SafeInv
<1>1. CASE UNCHANGED vars
  <2>1. Rest' = Rest
    BY <1>1 DEF vars, shared, locals, Rest, InFlight
  <2>2. UNCHANGED <<tables, current, sst, latest, seen, keys, out, ptr, pc>>
    BY <1>1 DEF vars, shared, locals, history
  <2>3. \A t \in Thread : /\ \A k : Recent(t, k)' = Recent(t, k)
                          /\ \A k : HalfMissed(t, k)' = HalfMissed(t, k)
                          /\ \A k : Missed(t, k)' = Missed(t, k)
                          /\ Snapshot(t)' = Snapshot(t)
    BY <2>1, <2>2 DEF Recent, HalfMissed, Missed, Below, Snapshot
  <2>4. \A t \in Thread : Reliable(t)'
    BY <2>2, <2>3 DEF ReadInv, Reliable
  <2> QED BY <1>0, <2>4 DEF ReadInv
<1>2. ASSUME NEW u \in Thread, Step(u) PROVE ReadInv'
  <2>1. ASSUME NEW t \in Thread PROVE Reliable(t)'
    <3>1. Reliable(t)
      BY DEF ReadInv
    <3>2. CASE Busy(u)
      BY <1>0, <3>1, <3>2, BusyReliable
    <3>3. CASE ~Busy(u)
      <4>1. Quiet(u)
        BY <1>0, <1>2, <3>3, QuietOrBusy
      <4>2. CASE t = u
        BY <1>0, <1>2, <3>1, <3>3, <4>1, <4>2, OwnReliable
      <4>3. CASE t # u
        BY <1>0, <1>2, <3>1, <3>3, <4>1, <4>3, QuietReliable
      <4> QED BY <4>2, <4>3
    <3> QED BY <3>2, <3>3
  <2> QED BY <1>0, <2>1 DEF ReadInv
<1>3. CASE AllDone /\ UNCHANGED vars
  BY <1>1, <1>3
<1> QED BY <1>1, <1>2, <1>3 DEF Next

\* No reader is inside a call at the start.
LEMMA ReadInit == Init => ReadInv
<1> SUFFICES ASSUME Init PROVE ReadInv
  OBVIOUS
<1>1. \A t \in Thread : pc[t] = "idle"
  BY DEF Init
<1> QED BY <1>1, SafeInit DEF ReadInv, Reliable, Reading, Looking

\* The inductive invariant holds throughout.
THEOREM ReadInvariant ==
  ASSUME NoRacingFlush
  PROVE  Spec => []ReadInv
BY ReadInit, ReadStep, PTL DEF Spec

\* get and get_batch answer, key by key, with what was written last at some
\* moment of the call, for any threads, keys and batches, although they look at
\* the active and the frozen tables under different locks and get reads the value
\* under none, as long as no thread runs flush_last while another one writes.
THEOREM ReadsRecent ==
  ASSUME NoRacingFlush
  PROVE  Spec => []ReadsAreRecent
<1>1. ReadInv => ReadsAreRecent
  BY DEF ReadInv, Reliable, Missed, Recent, ReadsAreRecent, Resolve
<1> QED BY <1>1, ReadInvariant, PTL

\* Under the same condition what a scan has copied, newest table first, is what
\* was there at one single moment of its call.
THEOREM ScansSnapshot ==
  ASSUME NoRacingFlush
  PROVE  Spec => []ScansAreSnapshots
<1>1. ReadInv => ScansAreSnapshots
  BY DEF ReadInv, Reliable, Snapshot, CopyOf, ScansAreSnapshots
<1> QED BY <1>1, ReadInvariant, PTL
==============================================================================
