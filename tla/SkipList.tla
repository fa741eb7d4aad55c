------------------------------- MODULE SkipList -------------------------------
(***************************************************************************)
(* SkipList (src/src/skiplist/skipList.cpp): a sorted linked list with     *)
(* express lanes.  heap holds the nodes that some shared_ptr still keeps   *)
(* alive, each with its forward (owning) and backward (weak) pointers for  *)
(* the levels it takes part in; Sentinel is the head node, Nil is nullptr. *)
(* iter is one SkipListIterator held by a client while the list goes on    *)
(* changing, as MemTable::get hands one out after dropping its lock.       *)
(***************************************************************************)
EXTENDS Table, Sequences

CONSTANTS
  NodeId,    \* addresses for nodes; bounds the nodes alive at once
  Sentinel, Nil,
  MaxLevel,  \* max_level
  SeekKey    \* keys at which a client may take an iterator

ASSUME SkipListAssumption ==
  /\ MaxLevel \in Nat \ {0}
  /\ NodeId \subseteq Nat
  /\ SeekKey \subseteq Key
  /\ Sentinel \notin NodeId /\ Nil \notin NodeId /\ Sentinel # Nil

VARIABLES
  heap,           \* node address -> node
  current_level,
  size_bytes,
  iter,           \* node a client's iterator stands on
  stable          \* keys ahead of iter that were present all the time since
                  \* the iterator was made (history variable)

vars == <<heap, current_level, size_bytes, iter, stable>>

Level == 0 .. MaxLevel - 1

NewNode(k, v, t, levels) ==
  [key |-> k, value |-> v, tranc_id |-> t,
   forward  |-> [i \in 0 .. levels - 1 |-> Nil],
   backward |-> [i \in 0 .. levels - 1 |-> Nil]]

HeadNode == NewNode(0, 0, 0, MaxLevel)

-----------------------------------------------------------------------------
(* Ownership: a node lives while the head, an iterator or a live node      *)
(* points forward to it.  A weak backward pointer to a dead node expires.  *)

Successors(h, S) ==
  (UNION {{h[n].forward[i] : i \in DOMAIN h[n].forward} : n \in S}) \ {Nil}

\* The nodes that lie in every set that holds the roots and what its nodes own.
Alive(h, roots) ==
  {n \in DOMAIN h : \A S \in SUBSET DOMAIN h :
                      roots \subseteq S /\ Successors(h, S) \subseteq S => n \in S}

Release(h, it) ==
  LET alive == Alive(h, {Sentinel} \cup ({it} \ {Nil}))
      weak(n) == IF n \in alive THEN n ELSE Nil
  IN  [n \in alive |-> [h[n] EXCEPT !.backward =
                          [i \in DOMAIN h[n].backward |-> weak(h[n].backward[i])]]]

Free == NodeId \ DOMAIN heap

-----------------------------------------------------------------------------
(* Searching.                                                              *)

\* The nodes that take part in level i.
Lane(i) == {n \in DOMAIN heap : i \in DOMAIN heap[n].forward}

\* The last node reached on level i from n while the next key is one of keys.
Advance(i, n, keys) ==
  LET walk[m \in Lane(i)] ==
        LET next == heap[m].forward[i]
        IN  IF next # Nil /\ heap[next].key \in keys THEN walk[next] ELSE m
  IN  walk[n]

\* The node the descent stops at on each level; levels not yet in use give
\* the head, as SkipList::put fills in for a tower that raises current_level.
Descend(keys) ==
  LET update[i \in Level] ==
        IF i >= current_level THEN Sentinel
        ELSE Advance(i, IF i = current_level - 1 THEN Sentinel ELSE update[i+1], keys)
  IN  update

Update(k) == Descend({x \in Key : x < k})

\* First node whose key is not below k (k may be the rank of a prefix).
LowerBound(k) == heap[Update(k)[0]].forward[0]

\* The transaction id of the reader is not looked at.
get(k, tranc_id) ==
  LET n == LowerBound(k)
  IN  IF n # Nil /\ heap[n].key = k THEN n ELSE Nil

\* The nodes of level i in list order, from n up to and excluding end.
Chain(i, n, end) ==
  LET seq[m \in Lane(i) \cup {Nil, end}] ==
        IF m \in {Nil, end} THEN << >> ELSE <<m>> \o seq[heap[m].forward[i]]
  IN  seq[n]

begin == heap[Sentinel].forward[0]

\* A prefix is the interval lo .. hi-1 of the ranks it is a prefix of.
begin_preffix(p) == LowerBound(p.lo)

end_preffix(p) ==
  LET skip[m \in DOMAIN heap \cup {Nil}] ==
        IF m # Nil /\ heap[m].key >= p.lo /\ heap[m].key < p.hi
        THEN skip[heap[m].forward[0]] ELSE m
  IN  skip[LowerBound(p.lo)]

\* A monotone predicate is 1 below an interval, 0 inside it, -1 above it.
Predicate(p, k) == IF k < p.lo THEN 1 ELSE IF k < p.hi THEN 0 ELSE -1

\* The last node before the first key that the predicate does not place to the
\* left.
Before(p) == LET left == {x \in Key : Predicate(p, x) > 0}
             IN  Advance(0, Descend(left)[0], left)

\* Fault: the end of the range is its last node, not the one after it.
RangeStopsEarly(p) ==
  LET first == heap[Before(p)].forward[0]
  IN  IF first = Nil \/ Predicate(p, heap[first].key) < 0
      THEN Nil
      ELSE <<first, Advance(0, first, {x \in Key : Predicate(p, x) = 0})>>

\* << first, end >> of the keys that satisfy the predicate, or Nil (nullopt).
iters_monotony_predicate(p) ==
  LET first == heap[Before(p)].forward[0]
      last  == Advance(0, first, {x \in Key : Predicate(p, x) = 0})
  IN  IF first = Nil \/ Predicate(p, heap[first].key) < 0
      THEN Nil
      ELSE <<first, heap[last].forward[0]>>

-----------------------------------------------------------------------------
(* Operations.                                                             *)

Init ==
  /\ heap = [n \in {Sentinel} |-> HeadNode]
  /\ current_level = 1
  /\ size_bytes = 0
  /\ iter = Nil
  /\ stable = {}

\* Fault: the byte count misses the change of length.
PutExistingKeepsSize(k, v) ==
  LET n == get(k, 0) IN
  /\ n # Nil
  /\ heap' = [heap EXCEPT ![n].value = v]
  /\ UNCHANGED <<size_bytes, current_level, iter, stable>>

PutExisting(k, v) ==
  LET n == get(k, 0) IN
  /\ n # Nil
  /\ size_bytes' = (size_bytes + ValLen[v] - ValLen[heap[n].value]) % SizeMod
  /\ heap' = [heap EXCEPT ![n].value = v]
  /\ UNCHANGED <<current_level, iter, stable>>

\* Fault: the successors still point back to the predecessors.
LinkedForwardOnly(n, node, update) ==
  LET levels == DOMAIN node.forward
      new == [node EXCEPT !.forward  = [i \in levels |-> heap[update[i]].forward[i]],
                          !.backward = [i \in levels |-> update[i]]]
  IN  [m \in DOMAIN heap \cup {n} |->
         IF m = n THEN new
         ELSE [heap[m] EXCEPT
                 !.forward = [i \in DOMAIN heap[m].forward |->
                   IF i \in levels /\ update[i] = m THEN n ELSE heap[m].forward[i]]]]

\* The forward pointers of every level of the new node, then the backward
\* ones, its own and its successor's.
Linked(n, node, update) ==
  LET levels == DOMAIN node.forward
      next(i) == heap[update[i]].forward[i]
      new == [node EXCEPT !.forward  = [i \in levels |-> next(i)],
                          !.backward = [i \in levels |-> update[i]]]
  IN  [m \in DOMAIN heap \cup {n} |->
         IF m = n THEN new
         ELSE [heap[m] EXCEPT
                 !.forward  = [i \in DOMAIN heap[m].forward |->
                   IF i \in levels /\ update[i] = m THEN n ELSE heap[m].forward[i]],
                 !.backward = [i \in DOMAIN heap[m].backward |->
                   IF i \in levels /\ next(i) = m THEN n ELSE heap[m].backward[i]]]]

PutNew(k, v, t, newlevel) ==
  /\ get(k, 0) = Nil
  /\ Free # {}
  /\ heap' = Linked(Min(Free), NewNode(k, v, t, newlevel), Update(k))
  /\ current_level' = Max({current_level, newlevel})
  /\ size_bytes' = (size_bytes + EntryBytes(k, v)) % SizeMod
  /\ UNCHANGED <<iter, stable>>

put ==
  \E k \in Key, v \in Value :
    \/ PutExisting(k, v)
    \/ \E t \in TrancId, newlevel \in 1 .. MaxLevel : PutNew(k, v, t, newlevel)

\* Fault: only the bottom lane lets go of the node.
UnlinkedBottomOnly(n, update) ==
  [heap EXCEPT ![update[0]].forward[0] = heap[n].forward[0]]

\* Fault: the removed node loses its own pointers too.
UnlinkedBothWays(n, update) ==
  [m \in DOMAIN heap |->
     IF m = n THEN [heap[n] EXCEPT !.forward = [i \in DOMAIN heap[n].forward |-> Nil]]
     ELSE [heap[m] EXCEPT
             !.forward = [i \in DOMAIN heap[m].forward |->
               IF heap[m].forward[i] = n THEN heap[n].forward[i] ELSE heap[m].forward[i]],
             !.backward = [i \in DOMAIN heap[m].backward |->
               IF heap[m].backward[i] = n THEN heap[n].backward[i]
                                          ELSE heap[m].backward[i]]]]

\* Levels are unlinked from the bottom up to the first that misses the node.
Unlinked(n, update) ==
  LET levels == {i \in 0 .. current_level - 1 :
                   \A j \in 0 .. i : heap[update[j]].forward[j] = n}
  IN  [m \in DOMAIN heap |->
         [heap[m] EXCEPT
            !.forward  = [i \in DOMAIN heap[m].forward |->
              IF i \in levels /\ update[i] = m THEN heap[n].forward[i]
                                               ELSE heap[m].forward[i]],
            !.backward = [i \in DOMAIN heap[m].backward |->
              IF i \in levels /\ heap[n].forward[i] = m THEN update[i]
                                                        ELSE heap[m].backward[i]]]]

\* Fault: the last lane is given up as well.
LoweredToZero(h) ==
  Max({0} \cup {l \in 1 .. current_level : h[Sentinel].forward[l-1] # Nil})

\* current_level falls while the top lane is empty, never below one.
Lowered(h) ==
  Max({1} \cup {l \in 1 .. current_level : h[Sentinel].forward[l-1] # Nil})

remove ==
  \E k \in Key :
    LET n == get(k, 0)
        h == Unlinked(n, Update(k)) IN
    /\ n # Nil
    /\ heap' = Release(h, iter)
    /\ size_bytes' = (size_bytes - EntryBytes(k, heap[n].value)) % SizeMod
    /\ current_level' = Lowered(h)
    /\ stable' = stable \ {k}
    /\ UNCHANGED iter

\* Fault: size_bytes survives.
ClearKeepsSize ==
  /\ heap' = Release([heap EXCEPT ![Sentinel] = HeadNode], iter)
  /\ stable' = {}
  /\ UNCHANGED <<size_bytes, current_level, iter>>

\* The new head does not reset current_level.
clear ==
  /\ heap' = Release([n \in DOMAIN heap |->
                        IF n = Sentinel THEN HeadNode
                        ELSE [heap[n] EXCEPT !.backward =
                                [i \in DOMAIN heap[n].backward |->
                                   IF heap[n].backward[i] = Sentinel THEN Nil
                                   ELSE heap[n].backward[i]]]],
                     iter)
  /\ size_bytes' = 0
  /\ stable' = {}
  /\ UNCHANGED <<current_level, iter>>

\* A client takes an iterator (begin, get or begin_preffix) and keeps it.
NewIterator ==
  /\ iter = Nil
  /\ \E k \in SeekKey :
       /\ iter' = LowerBound(k)
       /\ stable' = {heap[n].key : n \in Range(Chain(0, LowerBound(k), Nil))}
  /\ UNCHANGED <<heap, current_level, size_bytes>>

\* SkipListIterator::operator++ leaves a node, which may be its last owner.
IteratorNext ==
  /\ iter # Nil
  /\ iter' = heap[iter].forward[0]
  /\ heap' = Release(heap, iter')
  /\ stable' = stable \ {heap[iter].key}
  /\ UNCHANGED <<current_level, size_bytes>>

Next == put \/ remove \/ clear \/ NewIterator \/ IteratorNext

Spec == Init /\ [][Next]_vars

-----------------------------------------------------------------------------
(* Properties.                                                             *)

Node == [key : Key \cup {0}, value : Value, tranc_id : TrancId,
         forward  : UNION {[0 .. l - 1 -> NodeId \cup {Nil}] : l \in 1 .. MaxLevel},
         backward : UNION {[0 .. l - 1 -> NodeId \cup {Sentinel, Nil}] : l \in 1 .. MaxLevel}]

\* The nodes in use are well formed and no pointer dangles.
TypeOK ==
  /\ Sentinel \in DOMAIN heap /\ DOMAIN heap \subseteq NodeId \cup {Sentinel}
  /\ \A n \in DOMAIN heap :
       /\ heap[n] \in Node
       /\ DOMAIN heap[n].forward = DOMAIN heap[n].backward
       /\ \A i \in DOMAIN heap[n].forward :
            {heap[n].forward[i], heap[n].backward[i]} \subseteq DOMAIN heap \cup {Nil}
  /\ current_level \in 1 .. MaxLevel
  /\ size_bytes \in 0 .. SizeMod - 1
  /\ iter \in DOMAIN heap \cup {Nil}
  /\ stable \subseteq Key

LevelList(i) == Chain(i, heap[Sentinel].forward[i], Nil)

\* The express lanes: every level is strictly sorted by key, holds exactly the
\* nodes of the level below that are tall enough, and is empty at and above
\* current_level, so that a search that starts at current_level - 1 and drops
\* through the lanes passes over no key (put and remove relink lane by lane,
\* clear leaves current_level where it was).
Lanes ==
  \A i \in Level :
    LET list == LevelList(i) IN
    /\ \A a, b \in DOMAIN list : a < b => heap[list[a]].key < heap[list[b]].key
    /\ Range(list) = {n \in Range(LevelList(0)) : i \in DOMAIN heap[n].forward}
    /\ i >= current_level => list = << >>

\* The backward pointers of every lane mirror its forward pointers (put sets
\* them in a second pass, remove patches only the lanes it unlinks).
BackwardMirrors ==
  \A i \in Level :
    LET list == <<Sentinel>> \o LevelList(i)
    IN  \A a \in 2 .. Len(list) : heap[list[a]].backward[i] = list[a-1]

\* The map the list stores, as SkipList::flush collects it from the bottom lane.
Contents ==
  [k \in Key |->
     LET at == {n \in Range(LevelList(0)) : heap[n].key = k}
     IN  IF at = {} THEN None
         ELSE LET n == CHOOSE n \in at : TRUE
              IN  [value |-> heap[n].value, tranc_id |-> heap[n].tranc_id]]

\* size_bytes, kept by additions and unsigned subtractions on every path of
\* put, remove and clear, is what the stored entries add up to.
SizeExact == size_bytes = MapBytes(Contents) % SizeMod

\* The searches through the lanes agree with the bottom list read from end to
\* end: get finds a key exactly when it is stored, a prefix range and the range
\* of the equivalent monotone predicate hold exactly the stored keys inside the
\* interval, and the predicate search answers nullopt exactly when there is none.
SearchesAgree ==
  LET present == {k \in Key : Contents[k] # None}
      keys(from, to) == {heap[n].key : n \in Range(Chain(0, from, to))}
  IN
  /\ \A k \in Key :
       IF k \in present THEN get(k, 0) # Nil /\ heap[get(k, 0)].key = k ELSE get(k, 0) = Nil
  /\ \A lo, hi \in Key \cup {k + 1 : k \in Key} :
       lo <= hi =>
       LET p == [lo |-> lo, hi |-> hi]
           hits == {k \in present : lo <= k /\ k < hi}
           range == iters_monotony_predicate(p)
       IN  /\ keys(begin_preffix(p), end_preffix(p)) = hits
           /\ IF hits = {} THEN range = Nil ELSE keys(range[1], range[2]) = hits

\* An iterator that outlives changes to the list, even the removal of the node
\* it stands on, still passes every key that was there all along, in order.
IteratorMissesNothing ==
  LET ahead == Chain(0, iter, Nil) IN
  /\ stable \subseteq {heap[n].key : n \in Range(ahead)}
  /\ \A a, b \in DOMAIN ahead : a < b => heap[ahead[a]].key < heap[ahead[b]].key

\* The linked structure implements the ordered map that callers without a
\* transaction rely on: the latest value of every key, and the byte count that
\* MemTable decides by.  Which id a key has, and what older versions a reader with an
\* id finds, is left open.
Abstract == INSTANCE OrderedMap WITH
              table <- [map |-> Contents, bytes |-> size_bytes]
ImplementsMap == Abstract!Spec
==============================================================================
