-------------------------- MODULE LevelIteratorProofs --------------------------
(***************************************************************************)
(* Proofs about LevelIterator.                                             *)
(***************************************************************************)
EXTENDS LevelIterator, CommonTheorems

-----------------------------------------------------------------------------
(* The invariant.                                                          *)

\* The keys of a sequence of entries, and that they rise.
Keys(s) == {e.key : e \in Range(s)}
Rising(s) == \A i, j \in DOMAIN s : i < j => s[i].key < s[j].key

\* The value that the tables have for each key.
Content == Over(memtable, Over(Level0(level0), Level0(level1)))

\* The tables store, of finitely many keys, what was last written, and the key
\* ranges of the SSTs of level 1 follow each other.
Stored ==
  /\ IsFiniteSet(Present(latest))
  /\ \A k \in Key : Content[k] = latest[k]
  /\ \A i, j \in DOMAIN level1, k, l \in Key :
        i < j /\ level1[i][k] # None /\ level1[j][l] # None => k < l

\* What the entry e stands for when the map was p: the value of its key, or a key
\* that was deleted in a newer place.
Stands(p, e) == p[e.key] # None /\ p[e.key] \in {e.value, 0}

\* The iterators of a merge that has shown the keys of shown when the map was p.
\* Of the entries of a key the one in the first iterator stands for the key.
Merges(iters, p, shown) ==
  /\ iters \in Seq(Seq(Pair))
  /\ \A i \in DOMAIN iters : Rising(iters[i])
  /\ \A i \in DOMAIN iters : \A e \in Range(iters[i]) :
        (\A j \in DOMAIN iters : j < i => e.key \notin Keys(iters[j])) => Stands(p, e)
  /\ \A k \in Key : p[k] \notin {None, 0} =>
        k \in shown \/ \E i \in DOMAIN iters : k \in Keys(iters[i])
  /\ \A i \in DOMAIN iters : \A e \in Range(iters[i]), k \in shown : k < e.key

\* The scan of the map p that has shown some entries and stands on cached.
Ahead(iters, p, shown, cached) ==
  /\ Merges(iters, p, Keys(shown))
  /\ Rising(shown)
  /\ \A e \in Range(shown) : Stands(p, e)
  /\ ~is_end(iters) => cached = Top(iters) /\ cached.value # 0

\* Of the iterator that a client holds, if it holds one.
Underway ==
  IF Scanning THEN Ahead(iter_vec, promised, emitted, cached_value) ELSE emitted = << >>

-----------------------------------------------------------------------------
(* Entries.                                                                *)

\* The fields of an entry.
LEMMA PairIs ==
  ASSUME NEW e \in Pair
  PROVE  e.key \in Key /\ e.key \in Nat /\ e.value \in Value /\ e \in [key : Key, value : Value]
  BY LevelIteratorAssumption DEF Pair

\* The members of a sequence of entries.
LEMMA RangeIs ==
  ASSUME NEW s \in Seq(Pair)
  PROVE  /\ Len(s) \in Nat /\ DOMAIN s = 1 .. Len(s) /\ \A i \in 1 .. Len(s) : s[i] \in Pair
         /\ \A e \in Range(s) : e \in Pair /\ e.key \in Nat /\ e.key \in Key /\ e.key \in Keys(s)
         /\ \A k \in Keys(s) : \E e \in Range(s) : e.key = k
         /\ \A i \in 1 .. Len(s) : s[i] \in Range(s)
         /\ s = << >> <=> Len(s) = 0
         /\ s # << >> => Head(s) = s[1]
<1>1. Len(s) \in Nat /\ DOMAIN s = 1 .. Len(s) /\ \A i \in 1 .. Len(s) : s[i] \in Pair
  OBVIOUS
<1>2. ASSUME NEW e \in Range(s)
      PROVE  e \in Pair /\ e.key \in Nat /\ e.key \in Key /\ e.key \in Keys(s)
  <2>1. e \in Pair
    BY <1>1 DEF Range
  <2> QED BY <2>1, PairIs DEF Keys
<1>3. \A k \in Keys(s) : \E e \in Range(s) : e.key = k
  BY DEF Keys
<1>4. \A i \in 1 .. Len(s) : s[i] \in Range(s)
  BY <1>1 DEF Range
<1> QED BY <1>1, <1>2, <1>3, <1>4

\* The first entry of a rising sequence and the others.
LEMMA TailIs ==
  ASSUME NEW s \in Seq(Pair), s # << >>
  PROVE  /\ Tail(s) \in Seq(Pair) /\ Len(Tail(s)) = Len(s) - 1
         /\ Head(s) = s[1] /\ s[1] \in Range(s)
         /\ Range(s) = {s[1]} \cup Range(Tail(s))
         /\ Rising(s) => /\ Rising(Tail(s))
                         /\ \A e \in Range(Tail(s)) : s[1].key < e.key
<1>1. PICK n \in Nat : n = Len(s) /\ n # 0 /\ DOMAIN s = 1 .. n
  OBVIOUS
<1>2. /\ Tail(s) \in Seq(Pair) /\ Len(Tail(s)) = n - 1 /\ DOMAIN Tail(s) = 1 .. n - 1
      /\ \A i \in 1 .. n - 1 : Tail(s)[i] = s[i + 1]
      /\ Head(s) = s[1]
  BY <1>1
<1>3. PICK t : t = Tail(s)
  OBVIOUS
<1>4. s[1] \in Range(s)
  BY <1>1 DEF Range
<1>5. Range(s) = {s[1]} \cup Range(t)
  <2>1. ASSUME NEW e \in Range(s), e # s[1] PROVE e \in Range(t)
    <3>1. PICK i \in 1 .. n : e = s[i]
      BY <1>1 DEF Range
    <3>2. i # 1
      BY <2>1, <3>1
    <3>3. PICK j \in 1 .. n - 1 : i = j + 1
      <4>1. i - 1 \in 1 .. n - 1 /\ i = (i - 1) + 1
        BY <1>1, <3>2
      <4> QED BY <4>1
    <3>4. e = t[j] /\ j \in DOMAIN t
      BY <1>2, <1>3, <3>1, <3>3
    <3> QED BY <3>4 DEF Range
  <2>2. ASSUME NEW e \in Range(t) PROVE e \in Range(s)
    <3>1. PICK j \in 1 .. n - 1 : e = t[j]
      BY <1>2, <1>3, <2>2 DEF Range
    <3>2. e = s[j + 1] /\ j + 1 \in 1 .. n
      BY <1>1, <1>2, <1>3, <3>1
    <3> QED BY <1>1, <3>2 DEF Range
  <2> QED BY <1>4, <2>1, <2>2
<1>6. ASSUME Rising(s) PROVE Rising(t) /\ \A e \in Range(t) : s[1].key < e.key
  <2>1. \A i, j \in 1 .. n : i < j => s[i].key < s[j].key
    BY <1>1, <1>6 DEF Rising
  <2>2. ASSUME NEW i \in 1 .. n - 1, NEW j \in 1 .. n - 1, i < j PROVE t[i].key < t[j].key
    <3>1. i + 1 \in 1 .. n /\ j + 1 \in 1 .. n /\ i + 1 < j + 1
      BY <1>1, <2>2
    <3>2. s[i + 1].key < s[j + 1].key
      BY <2>1, <3>1
    <3> QED BY <1>2, <1>3, <3>2
  <2>3. ASSUME NEW e \in Range(t) PROVE s[1].key < e.key
    <3>1. PICK j \in 1 .. n - 1 : e = t[j]
      BY <1>2, <1>3, <2>3 DEF Range
    <3>2. j + 1 \in 1 .. n /\ 1 < j + 1 /\ 1 \in 1 .. n
      BY <1>1
    <3>3. s[1].key < s[j + 1].key
      BY <2>1, <3>2
    <3> QED BY <1>2, <1>3, <3>1, <3>3
  <2>4. Rising(t)
    BY <1>2, <1>3, <2>2 DEF Rising
  <2> QED BY <2>3, <2>4
<1> QED BY <1>1, <1>2, <1>3, <1>4, <1>5, <1>6

\* What skip_key makes of one of its iterators.
Past(s, key) == IF s # << >> /\ Head(s).key = key THEN Tail(s) ELSE s

\* It drops one entry at most.
LEMMA PastType ==
  ASSUME NEW s \in Seq(Pair), NEW key
  PROVE  /\ Past(s, key) \in Seq(Pair) /\ Len(Past(s, key)) <= Len(s)
         /\ s # << >> /\ s[1].key = key => Len(Past(s, key)) < Len(s)
<1>1. Len(s) \in Nat
  OBVIOUS
<1>2. CASE s # << >> /\ Head(s).key = key
  <2>1. Past(s, key) = Tail(s)
    BY <1>2 DEF Past
  <2> QED BY <1>1, <1>2, <2>1, TailIs
<1>3. CASE ~(s # << >> /\ Head(s).key = key)
  <2>1. Past(s, key) = s
    BY <1>3 DEF Past
  <2>2. s # << >> => Head(s) = s[1]
    BY TailIs
  <2> QED BY <1>1, <1>3, <2>1, <2>2
<1> QED BY <1>2, <1>3

\* Of a rising sequence that has no lower key it drops the entry of the key.
LEMMA PastIs ==
  ASSUME NEW s \in Seq(Pair), Rising(s), NEW key \in Nat, \A e \in Range(s) : key <= e.key
  PROVE  /\ Rising(Past(s, key))
         /\ Range(Past(s, key)) = {e \in Range(s) : e.key # key}
<1>1. CASE s # << >> /\ Head(s).key = key
  <2>1. Past(s, key) = Tail(s)
    BY <1>1 DEF Past
  <2>2. /\ Rising(Tail(s)) /\ \A e \in Range(Tail(s)) : s[1].key < e.key
        /\ Range(s) = {s[1]} \cup Range(Tail(s)) /\ s[1].key = key
    BY <1>1, TailIs
  <2>3. \A e \in Range(Tail(s)) : e.key # key
    BY <2>2
  <2> QED BY <2>1, <2>2, <2>3
<1>2. CASE s # << >> /\ Head(s).key # key
  <2>1. Past(s, key) = s
    BY <1>2 DEF Past
  <2>2. /\ \A e \in Range(Tail(s)) : s[1].key < e.key
        /\ Range(s) = {s[1]} \cup Range(Tail(s)) /\ s[1].key # key
        /\ s[1] \in Range(s)
    BY <1>2, TailIs
  <2>3. s[1].key \in Nat /\ key < s[1].key
    BY <2>2, RangeIs
  <2>4. ASSUME NEW e \in Range(s) PROVE e.key # key
    BY <2>2, <2>3, <2>4, RangeIs
  <2> QED BY <2>1, <2>4
<1>3. CASE s = << >>
  <2>1. Past(s, key) = s
    BY <1>3 DEF Past
  <2>2. Range(s) = {}
    BY <1>3 DEF Range
  <2> QED BY <2>1, <2>2
<1> QED BY <1>1, <1>2, <1>3

\* The entries of some of the keys of a map.
LEMMA EntriesOfIs ==
  ASSUME NEW map \in Contents, NEW K \in SUBSET Present(map), IsFiniteSet(K)
  PROVE  /\ EntriesOf(map, K) \in Seq(Pair) /\ Rising(EntriesOf(map, K))
         /\ \A e : e \in Range(EntriesOf(map, K)) <=> \E k \in K : e = [key |-> k, value |-> map[k]]
<1> DEFINE s == Ascending(K)
           At(k) == [key |-> k, value |-> map[k]]
           v == EntriesOf(map, K)
<1>1. K \in SUBSET Nat
  BY LevelIteratorAssumption DEF Present
<1>2. s \in Seq(K) /\ Range(s) = K /\ Rises(s)
  BY <1>1, AscendingIs
<1>3. v = [j \in DOMAIN s |-> At(s[j])]
  BY DEF EntriesOf
<1>4. \A k \in K : At(k) \in Pair /\ At(k).key = k
  BY DEF Present, Contents, Pair
<1> HIDE DEF s, v, At
<1>5. Len(s) \in Nat /\ DOMAIN s = 1 .. Len(s) /\ \A j \in DOMAIN s : s[j] \in K
  BY <1>2
<1>6. v \in Seq(Pair) /\ DOMAIN v = DOMAIN s /\ \A j \in DOMAIN s : v[j] = At(s[j])
  <2>1. v \in [1 .. Len(s) -> Pair]
    BY <1>3, <1>4, <1>5
  <2> QED BY <1>3, <1>5, <2>1
<1>7. \A j \in DOMAIN s : v[j].key = s[j]
  BY <1>4, <1>5, <1>6
<1>8. Rising(v)
  BY <1>2, <1>6, <1>7 DEF Rising, Rises
<1>9. \A e : e \in Range(v) <=> \E k \in K : e = At(k)
  BY <1>2, <1>6 DEF Range
<1> QED BY <1>6, <1>8, <1>9 DEF v, At

-----------------------------------------------------------------------------
(* The least key.                                                          *)

\* The step of the loop in get_min_key_idx, and the loop up to n.
PickStep(iters, m, i) ==
  IF iters[i] # << >> /\ (m.key = 0 \/ Head(iters[i]).key < Head(iters[m.idx]).key)
  THEN [key |-> Head(iters[i]).key, idx |-> i] ELSE m
PickTo(iters, n, g) ==
  g = [i \in 0 .. n |-> IF i = 0 THEN [key |-> 0, idx |-> 1] ELSE PickStep(iters, g[i - 1], i)]

\* What the loop knows after i iterators: none has an entry, or m is the first with
\* the least key.
Picked(iters, i, m) ==
  \/ /\ \A j \in 1 .. i : iters[j] = << >>
     /\ m = [key |-> 0, idx |-> 1]
  \/ /\ m.idx \in 1 .. i /\ iters[m.idx] # << >>
     /\ m.key = Head(iters[m.idx]).key
     /\ 0 \notin Key =>
          \A j \in 1 .. i : iters[j] # << >> =>
             /\ m.key <= Head(iters[j]).key
             /\ j < m.idx => m.key < Head(iters[j]).key

\* There is such a loop.
LEMMA PickExists == ASSUME NEW iters PROVE \A n \in Nat : \E g : PickTo(iters, n, g)
<1> DEFINE H == {n \in Nat : \E g : PickTo(iters, n, g)}
<1>1. 0 \in H
  <2> DEFINE g == [i \in 0 .. 0 |-> [key |-> 0, idx |-> 1]]
  <2>1. \A i \in 0 .. 0 : i = 0
    OBVIOUS
  <2>2. PickTo(iters, 0, g)
    BY <2>1 DEF PickTo
  <2> HIDE DEF g
  <2> QED BY <2>2
<1>2. ASSUME NEW n \in Nat, n \in H PROVE n + 1 \in H
  <2>1. PICK g : PickTo(iters, n, g)
    BY <1>2
  <2> DEFINE h == [i \in 0 .. n + 1 |-> IF i = 0 THEN [key |-> 0, idx |-> 1]
                                        ELSE PickStep(iters, g[i - 1], i)]
  <2>2. ASSUME NEW i \in 0 .. n PROVE h[i] = g[i]
    <3>1. g[i] = IF i = 0 THEN [key |-> 0, idx |-> 1] ELSE PickStep(iters, g[i - 1], i)
      BY <2>1 DEF PickTo
    <3> QED BY <3>1
  <2>3. ASSUME NEW i \in 0 .. n + 1, i # 0 PROVE h[i - 1] = g[i - 1]
    <3>1. i - 1 \in 0 .. n
      BY <2>3
    <3> HIDE DEF h
    <3> QED BY <2>2, <3>1
  <2>4. PickTo(iters, n + 1, h)
    <3>1. \A i \in 0 .. n + 1 :
            (IF i = 0 THEN [key |-> 0, idx |-> 1] ELSE PickStep(iters, g[i - 1], i))
            = (IF i = 0 THEN [key |-> 0, idx |-> 1] ELSE PickStep(iters, h[i - 1], i))
      <4> HIDE DEF h
      <4> QED BY <2>3
    <3> QED BY <3>1 DEF PickTo
  <2> HIDE DEF h
  <2> QED BY <2>4
<1> HIDE DEF H
<1>3. \A n \in Nat : n \in H
  BY <1>1, <1>2, NatInd
<1> QED BY <1>3 DEF H

\* get_min_key_idx is that loop.
LEMMA PickIs ==
  ASSUME NEW iters \in Seq(Seq(Pair))
  PROVE  \E g : PickTo(iters, Len(iters), g) /\ get_min_key_idx(iters) = g[Len(iters)].idx
<1> DEFINE R(g) == g = [i \in 0 .. Len(iters) |->
                          IF i = 0 THEN [key |-> 0, idx |-> 1]
                          ELSE IF /\ iters[i] # << >>
                                  /\ \/ g[i - 1].key = 0
                                     \/ Head(iters[i]).key < Head(iters[g[i - 1].idx]).key
                               THEN [key |-> Head(iters[i]).key, idx |-> i]
                               ELSE g[i - 1]]
           f == CHOOSE g : R(g)
<1>1. ASSUME NEW g PROVE R(g) <=> PickTo(iters, Len(iters), g)
  BY DEF PickTo, PickStep
<1>2. \E g : PickTo(iters, Len(iters), g)
  <2>1. Len(iters) \in Nat
    OBVIOUS
  <2> QED BY <2>1, PickExists
<1>3. get_min_key_idx(iters) = f[Len(iters)].idx
  BY DEF get_min_key_idx
<1> HIDE DEF R
<1>4. R(f)
  BY <1>1, <1>2
<1> HIDE DEF f
<1>5. PickTo(iters, Len(iters), f)
  BY <1>1, <1>4
<1> QED BY <1>3, <1>5

\* One step of the loop.
LEMMA PickKnows ==
  ASSUME NEW iters \in Seq(Seq(Pair)), NEW i \in 1 .. Len(iters), NEW m,
         Picked(iters, i - 1, m)
  PROVE  Picked(iters, i, PickStep(iters, m, i))
<1> DEFINE at(j) == Head(iters[j]).key
           e == [key |-> at(i), idx |-> i]
<1>1. \A j \in 1 .. Len(iters) : iters[j] \in Seq(Pair)
  OBVIOUS
<1>2. ASSUME NEW j \in 1 .. Len(iters), iters[j] # << >> PROVE at(j) \in Nat /\ at(j) \in Key
  <2>1. Head(iters[j]) \in Pair
    BY <1>1, <1>2
  <2> QED BY <2>1, PairIs
<1>3. PickStep(iters, m, i) =
        IF iters[i] # << >> /\ (m.key = 0 \/ at(i) < at(m.idx)) THEN e ELSE m
  BY DEF PickStep
<1>4. e.key = at(i) /\ e.idx = i
  OBVIOUS
<1>5. \A n, p : Picked(iters, n, p) <=>
        \/ /\ \A j \in 1 .. n : iters[j] = << >>
           /\ p = [key |-> 0, idx |-> 1]
        \/ /\ p.idx \in 1 .. n /\ iters[p.idx] # << >>
           /\ p.key = at(p.idx)
           /\ 0 \notin Key =>
                \A j \in 1 .. n : iters[j] # << >> =>
                   /\ p.key <= at(j)
                   /\ j < p.idx => p.key < at(j)
  BY DEF Picked
<1> HIDE DEF at, e
<1>6. Len(iters) \in Nat /\ i \in Nat /\ i >= 1 /\ i <= Len(iters)
  OBVIOUS
<1>7. \A j \in 1 .. i : j # i => j \in 1 .. i - 1
  BY <1>6
<1>8. \A j \in 1 .. i - 1 : j \in 1 .. i /\ j < i /\ j \in 1 .. Len(iters)
  BY <1>6
<1>9. ASSUME iters[i] # << >>, i \in 1 .. i,
             0 \notin Key =>
               \A j \in 1 .. i : iters[j] # << >> =>
                  /\ at(i) <= at(j)
                  /\ j < i => at(i) < at(j)
      PROVE  Picked(iters, i, e)
  <2>1. PICK p : p = e /\ p.idx = i /\ p.key = at(i)
    BY <1>4
  <2>2. p.idx \in 1 .. i /\ iters[p.idx] # << >> /\ p.key = at(p.idx)
    BY <1>9, <2>1
  <2>3. ASSUME 0 \notin Key, NEW j \in 1 .. i, iters[j] # << >>
        PROVE  p.key <= at(j) /\ (j < p.idx => p.key < at(j))
    <3>1. at(i) <= at(j) /\ (j < i => at(i) < at(j))
      BY <1>9, <2>3
    <3> QED BY <2>1, <3>1
  <2>4. Picked(iters, i, p)
    BY <1>5, <2>2, <2>3
  <2> QED BY <2>1, <2>4
<1>10. CASE iters[i] = << >>
  <2>1. PickStep(iters, m, i) = m
    BY <1>3, <1>10
  <2>2. CASE (\A j \in 1 .. i - 1 : iters[j] = << >>) /\ m = [key |-> 0, idx |-> 1]
    <3>1. \A j \in 1 .. i : iters[j] = << >>
      BY <1>7, <1>10, <2>2
    <3> QED BY <1>5, <2>1, <2>2, <3>1
  <2>3. CASE ~((\A j \in 1 .. i - 1 : iters[j] = << >>) /\ m = [key |-> 0, idx |-> 1])
    <3>1. /\ m.idx \in 1 .. i - 1 /\ iters[m.idx] # << >>
          /\ m.key = at(m.idx)
          /\ 0 \notin Key =>
               \A j \in 1 .. i - 1 : iters[j] # << >> =>
                  /\ m.key <= at(j)
                  /\ j < m.idx => m.key < at(j)
      BY <1>5, <2>3
    <3>2. 0 \notin Key =>
            \A j \in 1 .. i : iters[j] # << >> =>
               /\ m.key <= at(j)
               /\ j < m.idx => m.key < at(j)
      BY <1>7, <1>10, <3>1
    <3>3. m.idx \in 1 .. i
      BY <1>8, <3>1
    <3> QED BY <1>5, <2>1, <3>1, <3>2, <3>3
  <2> QED BY <2>2, <2>3
<1>11. CASE /\ iters[i] # << >> /\ \A j \in 1 .. i - 1 : iters[j] = << >>
            /\ m = [key |-> 0, idx |-> 1]
  <2>1. PickStep(iters, m, i) = e
    BY <1>3, <1>11
  <2>2. at(i) \in Nat /\ at(i) <= at(i) /\ ~(i < i) /\ i \in 1 .. i
    BY <1>2, <1>6, <1>11
  <2>3. \A j \in 1 .. i : iters[j] # << >> => j = i
    BY <1>7, <1>11
  <2>4. Picked(iters, i, e)
    BY <1>9, <1>11, <2>2, <2>3
  <2> QED BY <2>1, <2>4
<1>12. CASE /\ iters[i] # << >>
            /\ ~((\A j \in 1 .. i - 1 : iters[j] = << >>) /\ m = [key |-> 0, idx |-> 1])
  <2>1. /\ m.idx \in 1 .. i - 1 /\ iters[m.idx] # << >>
        /\ m.key = at(m.idx)
        /\ 0 \notin Key =>
             \A j \in 1 .. i - 1 : iters[j] # << >> =>
                /\ m.key <= at(j)
                /\ j < m.idx => m.key < at(j)
    BY <1>5, <1>12
  <2>2. m.idx \in 1 .. i /\ m.idx < i /\ m.idx \in 1 .. Len(iters)
    BY <1>8, <2>1
  <2>3. at(i) \in Nat /\ at(m.idx) \in Nat /\ at(m.idx) \in Key /\ i \in 1 .. i
    BY <1>2, <1>6, <1>12, <2>1, <2>2
  <2>4. CASE m.key = 0 \/ at(i) < at(m.idx)
    <3>1. PickStep(iters, m, i) = e
      BY <1>3, <1>12, <2>4
    <3>2. ASSUME 0 \notin Key, NEW j \in 1 .. i, iters[j] # << >>
          PROVE  /\ at(i) <= at(j)
                 /\ j < i => at(i) < at(j)
      <4>1. at(i) < at(m.idx)
        BY <2>1, <2>3, <2>4, <3>2
      <4>2. CASE j = i
        BY <1>6, <2>3, <4>2
      <4>3. CASE j # i
        <5>1. j \in 1 .. i - 1 /\ j \in 1 .. Len(iters)
          BY <1>7, <1>8, <4>3
        <5>2. m.key <= at(j) /\ at(j) \in Nat
          BY <1>2, <2>1, <3>2, <5>1
        <5> QED BY <2>1, <2>3, <4>1, <5>2
      <4> QED BY <4>2, <4>3
    <3>3. Picked(iters, i, e)
      BY <1>9, <1>12, <2>3, <3>2
    <3> QED BY <3>1, <3>3
  <2>5. CASE ~(m.key = 0 \/ at(i) < at(m.idx))
    <3>1. PickStep(iters, m, i) = m
      BY <1>3, <2>5
    <3>2. m.key <= at(i) /\ ~(i < m.idx)
      BY <1>6, <2>1, <2>2, <2>3, <2>5
    <3>3. 0 \notin Key =>
            \A j \in 1 .. i : iters[j] # << >> =>
               /\ m.key <= at(j)
               /\ j < m.idx => m.key < at(j)
      BY <1>7, <2>1, <3>2
    <3> QED BY <1>5, <2>1, <2>2, <3>1, <3>3
  <2> QED BY <2>4, <2>5
<1> QED BY <1>5, <1>10, <1>11, <1>12

\* It finds an iterator with an entry if there is one and, without an empty key, the
\* first of those with the least key.
LEMMA MinIs ==
  ASSUME NEW iters \in Seq(Seq(Pair)), ~is_end(iters)
  PROVE  \E i \in DOMAIN iters :
            /\ i = get_min_key_idx(iters) /\ iters[i] # << >>
            /\ Top(iters) = iters[i][1] /\ Top(iters) \in Pair
            /\ 0 \notin Key =>
                 \A j \in DOMAIN iters : iters[j] # << >> =>
                    /\ Top(iters).key <= iters[j][1].key
                    /\ j < i => Top(iters).key < iters[j][1].key
<1>1. PICK g : PickTo(iters, Len(iters), g) /\ get_min_key_idx(iters) = g[Len(iters)].idx
  BY PickIs
<1>2. PICK N \in Nat : N = Len(iters) /\ DOMAIN iters = 1 .. N
  OBVIOUS
<1> DEFINE H == {n \in Nat : n \in 0 .. N => Picked(iters, n, g[n])}
<1>3. 0 \in H
  <2>1. 0 \in 0 .. N
    OBVIOUS
  <2>2. g[0] = [key |-> 0, idx |-> 1]
    BY <1>1, <1>2, <2>1 DEF PickTo
  <2> QED BY <2>2 DEF Picked
<1>4. ASSUME NEW n \in Nat, n \in H PROVE n + 1 \in H
  <2> SUFFICES ASSUME n + 1 \in 0 .. N PROVE Picked(iters, n + 1, g[n + 1])
    OBVIOUS
  <2>1. n \in 0 .. N /\ n + 1 \in 1 .. Len(iters) /\ (n + 1) - 1 = n /\ n + 1 # 0
    BY <1>2
  <2>2. Picked(iters, n, g[n])
    BY <1>4, <2>1
  <2>3. g[n + 1] = PickStep(iters, g[n], n + 1)
    BY <1>1, <1>2, <2>1 DEF PickTo
  <2>4. PICK i \in 1 .. Len(iters) : i = n + 1 /\ i - 1 = n
    BY <2>1
  <2>5. Picked(iters, i, PickStep(iters, g[n], i))
    BY <2>2, <2>4, PickKnows
  <2> QED BY <2>3, <2>4, <2>5
<1> HIDE DEF H
<1>5. N \in H
  BY <1>3, <1>4, NatInd
<1>6. PICK m : m = g[N]
  OBVIOUS
<1>7. Picked(iters, N, m)
  <2>1. N \in 0 .. N
    OBVIOUS
  <2> QED BY <1>5, <1>6, <2>1 DEF H
<1>8. \E j \in 1 .. N : iters[j] # << >>
  BY <1>2 DEF is_end
<1>9. /\ m.idx \in 1 .. N /\ iters[m.idx] # << >>
      /\ m.key = Head(iters[m.idx]).key
      /\ 0 \notin Key =>
           \A j \in 1 .. N : iters[j] # << >> =>
              /\ m.key <= Head(iters[j]).key
              /\ j < m.idx => m.key < Head(iters[j]).key
  BY <1>7, <1>8 DEF Picked
<1>10. PICK i \in DOMAIN iters : i = m.idx
  BY <1>2, <1>9
<1>11. i = get_min_key_idx(iters)
  BY <1>1, <1>2, <1>6, <1>10
<1>12. \A j \in DOMAIN iters :
          iters[j] \in Seq(Pair) /\ (iters[j] # << >> => Head(iters[j]) = iters[j][1])
  OBVIOUS
<1>13. Top(iters) = iters[i][1] /\ Top(iters).key = m.key
  BY <1>9, <1>10, <1>11, <1>12 DEF Top
<1>14. Top(iters) \in Pair
  <2>1. iters[i] \in Seq(Pair) /\ iters[i] # << >>
    BY <1>9, <1>10, <1>12
  <2>2. iters[i][1] \in Pair
    BY <2>1
  <2> QED BY <1>13, <2>2
<1> QED BY <1>2, <1>9, <1>10, <1>11, <1>12, <1>13, <1>14

-----------------------------------------------------------------------------
(* The loop that settles on an entry.                                      *)

\* skip_key moves every iterator past the key.
LEMMA SkipIs ==
  ASSUME NEW iters \in Seq(Seq(Pair)), NEW key
  PROVE  /\ skip_key(iters, key) \in Seq(Seq(Pair))
         /\ Len(skip_key(iters, key)) = Len(iters)
         /\ DOMAIN skip_key(iters, key) = DOMAIN iters
         /\ \A i \in DOMAIN iters : skip_key(iters, key)[i] = Past(iters[i], key)
<1>1. PICK n \in Nat : n = Len(iters) /\ DOMAIN iters = 1 .. n
  OBVIOUS
<1>2. \A i \in 1 .. n : Past(iters[i], key) \in Seq(Pair)
  <2> SUFFICES ASSUME NEW i \in 1 .. n PROVE Past(iters[i], key) \in Seq(Pair)
    OBVIOUS
  <2>1. iters[i] \in Seq(Pair)
    BY <1>1
  <2> QED BY <2>1, PastType
<1>3. skip_key(iters, key) = [i \in 1 .. n |-> Past(iters[i], key)]
  BY <1>1 DEF skip_key, Past
<1>4. skip_key(iters, key) \in [1 .. n -> Seq(Pair)]
  BY <1>2, <1>3
<1>5. PICK s : s = skip_key(iters, key)
  OBVIOUS
<1>6. s \in Seq(Seq(Pair)) /\ Len(s) = n /\ DOMAIN s = 1 .. n
  BY <1>4, <1>5
<1>7. \A i \in 1 .. n : s[i] = Past(iters[i], key)
  BY <1>3, <1>5
<1> QED BY <1>1, <1>5, <1>6, <1>7

\* The places of the entries that are left.
PlacesIn(iters, i) == {<<i, n>> : n \in 1 .. Len(iters[i])}
Places(iters) == UNION {PlacesIn(iters, i) : i \in DOMAIN iters}

\* There are finitely many.
LEMMA PlacesFinite ==
  ASSUME NEW iters \in Seq(Seq(Pair))
  PROVE  /\ IsFiniteSet(Places(iters))
         /\ \A i, n : <<i, n>> \in Places(iters) <=> i \in DOMAIN iters /\ n \in 1 .. Len(iters[i])
<1>1. PICK m \in Nat : m = Len(iters) /\ DOMAIN iters = 1 .. m
  OBVIOUS
<1>2. ASSUME NEW i \in DOMAIN iters PROVE IsFiniteSet(PlacesIn(iters, i))
  <2>1. Len(iters[i]) \in Nat
    OBVIOUS
  <2>2. IsFiniteSet(1 .. Len(iters[i]))
    BY <2>1, FS_Interval
  <2> DEFINE f == [n \in 1 .. Len(iters[i]) |-> <<i, n>>]
  <2>3. PlacesIn(iters, i) = {f[n] : n \in 1 .. Len(iters[i])}
    BY DEF PlacesIn
  <2>4. f \in Surjection(1 .. Len(iters[i]), PlacesIn(iters, i))
    BY <2>3 DEF Surjection
  <2> HIDE DEF f
  <2> QED BY <2>2, <2>4, FS_Surjection
<1>3. IsFiniteSet({PlacesIn(iters, i) : i \in DOMAIN iters})
  <2>1. IsFiniteSet(DOMAIN iters)
    BY <1>1, FS_Interval
  <2> DEFINE f == [i \in DOMAIN iters |-> PlacesIn(iters, i)]
             S == {PlacesIn(iters, i) : i \in DOMAIN iters}
  <2>2. f \in Surjection(DOMAIN iters, S)
    BY DEF Surjection
  <2> HIDE DEF f, S
  <2>3. IsFiniteSet(S)
    BY <2>1, <2>2, FS_Surjection
  <2> QED BY <2>3 DEF S
<1>4. IsFiniteSet(Places(iters))
  BY <1>2, <1>3, FS_UNION DEF Places
<1>5. \A i, n : <<i, n>> \in Places(iters) <=> i \in DOMAIN iters /\ n \in 1 .. Len(iters[i])
  BY DEF Places, PlacesIn
<1> QED BY <1>4, <1>5

\* Moving past the key on which an iterator stands leaves fewer entries.
LEMMA SkipFewer ==
  ASSUME NEW iters \in Seq(Seq(Pair)), NEW key, NEW i \in DOMAIN iters, iters[i] # << >>,
         iters[i][1].key = key
  PROVE  /\ Cardinality(Places(skip_key(iters, key))) \in Nat
         /\ Cardinality(Places(skip_key(iters, key))) < Cardinality(Places(iters))
<1>1. PICK rest : rest = skip_key(iters, key)
  OBVIOUS
<1>2. /\ rest \in Seq(Seq(Pair)) /\ DOMAIN rest = DOMAIN iters
      /\ \A j \in DOMAIN iters : rest[j] = Past(iters[j], key)
  BY <1>1, SkipIs
<1>3. \A j \in DOMAIN iters : iters[j] \in Seq(Pair)
  OBVIOUS
<1>4. ASSUME NEW j \in DOMAIN iters
      PROVE  Len(rest[j]) \in Nat /\ Len(iters[j]) \in Nat /\ Len(rest[j]) <= Len(iters[j])
  BY <1>2, <1>3, PastType
<1>5. Len(rest[i]) < Len(iters[i])
  BY <1>2, <1>3, PastType
<1>6. PICK n : n = Len(iters[i])
  OBVIOUS
<1>7. n \in 1 .. Len(iters[i]) /\ n \notin 1 .. Len(rest[i])
  BY <1>4, <1>5, <1>6
<1>8. <<i, n>> \in Places(iters) /\ <<i, n>> \notin Places(rest)
  BY <1>2, <1>7, PlacesFinite
<1>9. Places(rest) \subseteq Places(iters)
  <2>1. ASSUME NEW x \in Places(rest) PROVE x \in Places(iters)
    <3>1. PICK j \in DOMAIN iters : x \in PlacesIn(rest, j)
      BY <1>2, <2>1 DEF Places
    <3>2. PICK l \in 1 .. Len(rest[j]) : x = <<j, l>>
      BY <3>1 DEF PlacesIn
    <3>3. l \in 1 .. Len(iters[j])
      BY <1>4, <3>2
    <3> QED BY <3>2, <3>3, PlacesFinite
  <2> QED BY <2>1
<1>10. IsFiniteSet(Places(iters)) /\ IsFiniteSet(Places(rest))
  BY <1>2, PlacesFinite
<1>11. Cardinality(Places(rest)) < Cardinality(Places(iters))
  <2>1. PICK S, R : S = Places(iters) /\ R = Places(rest)
    OBVIOUS
  <2>2. IsFiniteSet(S) /\ R \in SUBSET S /\ R # S
    BY <1>8, <1>9, <1>10, <2>1
  <2>3. Cardinality(R) <= Cardinality(S) /\ Cardinality(R) # Cardinality(S)
    BY <2>2, FS_Subset
  <2>4. Cardinality(R) \in Nat /\ Cardinality(S) \in Nat
    BY <1>10, <2>1, FS_CardinalityType
  <2> QED BY <2>1, <2>3, <2>4
<1> QED BY <1>1, <1>10, <1>11, FS_CardinalityType

\* The loop of Settle.
MergeStates == Seq(Seq(Pair)) \X (Pair \cup {None})
SettleStop == {s \in MergeStates : is_end(s[1]) \/ Top(s[1]).value # 0}
SettleBase ==
  [s \in MergeStates |-> [iters |-> s[1], cached |-> IF is_end(s[1]) THEN s[2] ELSE Top(s[1])]]
SettleNext == [s \in MergeStates |-> <<skip_key(s[1], Top(s[1]).key), Top(s[1])>>]
SettleRank == [s \in MergeStates |-> Cardinality(Places(s[1]))]

\* It ends.
LEMMA SettleFalls == Falls(MergeStates, SettleStop, SettleNext, SettleRank)
<1>1. ASSUME NEW s \in MergeStates
      PROVE  SettleRank[s] \in Nat /\ SettleRank[s] = Cardinality(Places(s[1]))
             /\ s[1] \in Seq(Seq(Pair))
  <2>1. s[1] \in Seq(Seq(Pair))
    BY DEF MergeStates
  <2>2. Cardinality(Places(s[1])) \in Nat
    BY <2>1, PlacesFinite, FS_CardinalityType
  <2> QED BY <2>1, <2>2 DEF SettleRank
<1>2. ASSUME NEW s \in MergeStates, s \notin SettleStop
      PROVE  SettleNext[s] \in MergeStates /\ SettleRank[SettleNext[s]] < SettleRank[s]
  <2>1. ~is_end(s[1]) /\ s[1] \in Seq(Seq(Pair))
    BY <1>1, <1>2 DEF SettleStop
  <2>2. PICK i \in DOMAIN s[1] :
          s[1][i] # << >> /\ Top(s[1]) = s[1][i][1] /\ Top(s[1]) \in Pair
    BY <2>1, MinIs
  <2>3. PICK rest, t : rest = skip_key(s[1], Top(s[1]).key) /\ t = Top(s[1])
    OBVIOUS
  <2>4. rest \in Seq(Seq(Pair))
    BY <2>1, <2>3, SkipIs
  <2>5. Cardinality(Places(rest)) < Cardinality(Places(s[1]))
    BY <2>1, <2>2, <2>3, SkipFewer
  <2>6. SettleNext[s] = <<rest, t>> /\ <<rest, t>> \in MergeStates /\ <<rest, t>>[1] = rest
    BY <2>2, <2>3, <2>4 DEF SettleNext, MergeStates
  <2> QED BY <1>1, <2>5, <2>6
<1> QED BY <1>1, <1>2 DEF Falls

\* Settle is that loop.
LEMMA SettleIs ==
  \E f : /\ Loop(MergeStates, SettleStop, SettleBase, SettleNext, f)
         /\ \A iters, cached : Settle(iters, cached) = f[<<iters, cached>>]
<1> DEFINE R(f) == f = [s \in Seq(Seq(Pair)) \X (Pair \cup {None}) |->
                          IF is_end(s[1]) THEN [iters |-> s[1], cached |-> s[2]]
                          ELSE IF Top(s[1]).value = 0
                          THEN f[<<skip_key(s[1], Top(s[1]).key), Top(s[1])>>]
                          ELSE [iters |-> s[1], cached |-> Top(s[1])]]
           L(f) == Loop(MergeStates, SettleStop, SettleBase, SettleNext, f)
           d == CHOOSE f : R(f)
<1>1. ASSUME NEW f PROVE R(f) <=> L(f)
  <2> DEFINE loop(s) == IF s \in SettleStop THEN SettleBase[s] ELSE f[SettleNext[s]]
             settled(s) == IF is_end(s[1]) THEN [iters |-> s[1], cached |-> s[2]]
                           ELSE IF Top(s[1]).value = 0
                           THEN f[<<skip_key(s[1], Top(s[1]).key), Top(s[1])>>]
                           ELSE [iters |-> s[1], cached |-> Top(s[1])]
  <2>1. ASSUME NEW s \in MergeStates PROVE loop(s) = settled(s)
    <3>1. s \in SettleStop <=> is_end(s[1]) \/ Top(s[1]).value # 0
      BY DEF SettleStop
    <3>2. SettleNext[s] = <<skip_key(s[1], Top(s[1]).key), Top(s[1])>>
      BY DEF SettleNext
    <3>3. SettleBase[s] = [iters |-> s[1], cached |-> IF is_end(s[1]) THEN s[2] ELSE Top(s[1])]
      BY DEF SettleBase
    <3> QED BY <3>1, <3>2, <3>3
  <2>2. L(f) <=> f = [s \in MergeStates |-> loop(s)]
    BY DEF Loop
  <2>3. R(f) <=> f = [s \in MergeStates |-> settled(s)]
    BY DEF MergeStates
  <2> HIDE DEF loop, settled
  <2>4. [s \in MergeStates |-> loop(s)] = [s \in MergeStates |-> settled(s)]
    BY <2>1
  <2> HIDE DEF R, L
  <2> QED BY <2>2, <2>3, <2>4
<1>2. \E f : L(f)
  BY SettleFalls, LoopExists
<1>3. \A iters, cached : Settle(iters, cached) = d[<<iters, cached>>]
  BY DEF Settle
<1> HIDE DEF R, L
<1>4. R(d)
  BY <1>1, <1>2
<1> HIDE DEF d
<1>5. L(d)
  BY <1>1, <1>4
<1> QED BY <1>3, <1>5 DEF L

\* Where it ends is in every set of states that it does not leave.
LEMMA SettleEnds ==
  ASSUME NEW I \in SUBSET MergeStates, \A s \in I : s \notin SettleStop => SettleNext[s] \in I,
         NEW iters, NEW cached, <<iters, cached>> \in I
  PROVE  \E e \in I : e \in SettleStop /\ Settle(iters, cached) = SettleBase[e]
<1>1. PICK f : /\ Loop(MergeStates, SettleStop, SettleBase, SettleNext, f)
               /\ \A i, c : Settle(i, c) = f[<<i, c>>]
  BY SettleIs
<1>2. PICK t \in I : t = <<iters, cached>>
  OBVIOUS
<1>3. PICK e \in I : e \in SettleStop /\ f[t] = SettleBase[e]
  BY <1>1, SettleFalls, LoopEnds
<1> QED BY <1>1, <1>2, <1>3

\* What the loop makes of iterators.
Settled(iters, r) ==
  /\ r.iters \in Seq(Seq(Pair)) /\ Len(r.iters) = Len(iters)
  /\ r.cached \in Pair \cup {None}
  /\ ~is_end(r.iters) => r.cached = Top(r.iters) /\ r.cached.value # 0 /\ r.cached \in Pair

\* It comes to an end or to an entry that is not a deletion.
LEMMA SettleType ==
  ASSUME NEW iters \in Seq(Seq(Pair)), NEW cached \in Pair \cup {None}
  PROVE  Settled(iters, Settle(iters, cached))
<1> DEFINE I == {s \in MergeStates : Len(s[1]) = Len(iters)}
<1>1. I \in SUBSET MergeStates /\ <<iters, cached>> \in I
  BY DEF MergeStates
<1>2. ASSUME NEW s \in I, s \notin SettleStop PROVE SettleNext[s] \in I
  <2>1. /\ s \in MergeStates /\ SettleNext[s] \in MergeStates /\ s[1] \in Seq(Seq(Pair))
        /\ Len(s[1]) = Len(iters)
    BY <1>2, SettleFalls DEF Falls, MergeStates
  <2>2. SettleNext[s][1] = skip_key(s[1], Top(s[1]).key)
    BY <2>1 DEF SettleNext
  <2>3. Len(SettleNext[s][1]) = Len(s[1])
    BY <2>1, <2>2, SkipIs
  <2> QED BY <2>1, <2>3
<1> HIDE DEF I
<1>3. PICK e \in I : e \in SettleStop /\ Settle(iters, cached) = SettleBase[e]
  BY <1>1, <1>2, SettleEnds
<1>4. /\ e \in MergeStates /\ e[1] \in Seq(Seq(Pair)) /\ Len(e[1]) = Len(iters)
      /\ e[2] \in Pair \cup {None}
  BY <1>3 DEF I, MergeStates
<1>5. PICK r : r = SettleBase[e]
  OBVIOUS
<1>6. r.iters = e[1] /\ r.cached = IF is_end(e[1]) THEN e[2] ELSE Top(e[1])
  BY <1>4, <1>5 DEF SettleBase
<1>7. ASSUME ~is_end(e[1]) PROVE Top(e[1]) \in Pair /\ Top(e[1]).value # 0
  <2>1. Top(e[1]) \in Pair
    BY <1>4, <1>7, MinIs
  <2> QED BY <1>3, <1>7, <2>1 DEF SettleStop
<1>8. Settled(iters, r)
  BY <1>4, <1>6, <1>7 DEF Settled
<1> QED BY <1>3, <1>5, <1>8

-----------------------------------------------------------------------------
(* What the merge keeps to, when no key is empty.                          *)

\* No iterator has a lower key.
Lowest(iters, t) == \A i \in DOMAIN iters : \A e \in Range(iters[i]) : t <= e.key

\* The parts of Merges.
LEMMA MergesIs ==
  ASSUME NEW iters, NEW p, NEW shown, Merges(iters, p, shown)
  PROVE  /\ iters \in Seq(Seq(Pair)) /\ \A i \in DOMAIN iters : iters[i] \in Seq(Pair)
         /\ \A i \in DOMAIN iters : Rising(iters[i])
  BY DEF Merges

\* The entry on which the merge stands stands for its key, the lowest one, which is
\* higher than those already shown.
LEMMA TopStands ==
  ASSUME 0 \notin Key, NEW iters, NEW p, NEW shown, Merges(iters, p, shown), ~is_end(iters)
  PROVE  /\ Top(iters) \in Pair /\ Stands(p, Top(iters)) /\ Lowest(iters, Top(iters).key)
         /\ \A k \in shown : k < Top(iters).key
<1>1. /\ iters \in Seq(Seq(Pair)) /\ \A i \in DOMAIN iters : iters[i] \in Seq(Pair)
      /\ \A i \in DOMAIN iters : Rising(iters[i])
  BY MergesIs
<1>2. PICK i \in DOMAIN iters :
        /\ iters[i] # << >> /\ Top(iters) = iters[i][1] /\ Top(iters) \in Pair
        /\ \A j \in DOMAIN iters : iters[j] # << >> =>
              /\ Top(iters).key <= iters[j][1].key
              /\ j < i => Top(iters).key < iters[j][1].key
  BY <1>1, MinIs
<1>3. PICK t : t = Top(iters)
  OBVIOUS
<1>4. t \in Range(iters[i])
  BY <1>1, <1>2, <1>3, TailIs
<1>5. t.key \in Nat
  BY <1>2, <1>3, PairIs
<1>6. ASSUME NEW j \in DOMAIN iters, NEW e \in Range(iters[j])
      PROVE  t.key <= e.key /\ (j < i => t.key < e.key)
  <2>1. iters[j] # << >>
    BY <1>6 DEF Range
  <2>2. PICK h : h = iters[j][1] /\ h \in Range(iters[j])
    BY <1>1, <2>1, TailIs
  <2>3. e = h \/ h.key < e.key
    BY <1>1, <1>6, <2>1, <2>2, TailIs
  <2>4. t.key <= h.key /\ (j < i => t.key < h.key)
    BY <1>2, <1>3, <2>1, <2>2
  <2>5. h.key \in Nat /\ e.key \in Nat
    BY <1>1, <1>6, <2>2, RangeIs
  <2> QED BY <1>5, <2>3, <2>4, <2>5
<1>7. Lowest(iters, t.key)
  BY <1>6 DEF Lowest
<1>8. ASSUME NEW j \in DOMAIN iters, j < i PROVE t.key \notin Keys(iters[j])
  <2> SUFFICES ASSUME NEW e \in Range(iters[j]), e.key = t.key PROVE FALSE
    BY DEF Keys
  <2> QED BY <1>5, <1>6, <1>8
<1>9. Stands(p, t)
  BY <1>4, <1>8 DEF Merges
<1>10. \A k \in shown : k < t.key
  BY <1>4 DEF Merges
<1> QED BY <1>2, <1>3, <1>7, <1>9, <1>10

\* The merge goes on when the least key is done with: it has been shown, or nothing
\* is stored under it.
LEMMA MergesSkip ==
  ASSUME NEW iters, NEW p, NEW shown, Merges(iters, p, shown),
         NEW key \in Nat, Lowest(iters, key), \A k \in shown : k < key,
         NEW done, done = shown \cup {key} \/ (done = shown /\ p[key] = 0)
  PROVE  Merges(skip_key(iters, key), p, done)
<1>1. /\ iters \in Seq(Seq(Pair)) /\ \A i \in DOMAIN iters : iters[i] \in Seq(Pair)
      /\ \A i \in DOMAIN iters : Rising(iters[i])
  BY MergesIs
<1>2. PICK rest : rest = skip_key(iters, key)
  OBVIOUS
<1>3. /\ rest \in Seq(Seq(Pair)) /\ DOMAIN rest = DOMAIN iters
      /\ \A j \in DOMAIN iters : rest[j] = Past(iters[j], key)
  BY <1>1, <1>2, SkipIs
<1>4. ASSUME NEW j \in DOMAIN iters
      PROVE  /\ Rising(rest[j])
             /\ Range(rest[j]) = {e \in Range(iters[j]) : e.key # key}
  <2>1. \A e \in Range(iters[j]) : key <= e.key
    BY DEF Lowest
  <2>2. rest[j] = Past(iters[j], key) /\ iters[j] \in Seq(Pair) /\ Rising(iters[j])
    BY <1>1, <1>3
  <2> QED BY <2>1, <2>2, PastIs
<1>5. ASSUME NEW j \in DOMAIN iters, NEW k, k # key
      PROVE  k \in Keys(rest[j]) <=> k \in Keys(iters[j])
  BY <1>4, <1>5 DEF Keys
<1>6. ASSUME NEW i \in DOMAIN iters, NEW e \in Range(rest[i]),
             \A j \in DOMAIN iters : j < i => e.key \notin Keys(rest[j])
      PROVE  Stands(p, e)
  <2>1. e \in Range(iters[i]) /\ e.key # key
    BY <1>4
  <2>2. \A j \in DOMAIN iters : j < i => e.key \notin Keys(iters[j])
    BY <1>5, <1>6, <2>1
  <2> QED BY <2>1, <2>2 DEF Merges
<1>7. ASSUME NEW k \in Key, p[k] \notin {None, 0}
      PROVE  k \in done \/ \E i \in DOMAIN iters : k \in Keys(rest[i])
  <2>1. k \in shown \/ \E i \in DOMAIN iters : k \in Keys(iters[i])
    BY <1>7 DEF Merges
  <2>2. CASE k = key
    BY <1>7, <2>2
  <2>3. CASE k # key
    BY <1>5, <2>1, <2>3
  <2> QED BY <2>2, <2>3
<1>8. ASSUME NEW i \in DOMAIN iters, NEW e \in Range(rest[i]), NEW k \in done
      PROVE  k < e.key
  <2>1. e \in Range(iters[i]) /\ e.key # key
    BY <1>4
  <2>2. e.key \in Nat /\ key <= e.key
    BY <1>1, <2>1, RangeIs DEF Lowest
  <2>3. CASE k \in shown
    BY <2>1, <2>3 DEF Merges
  <2>4. CASE k = key
    BY <2>1, <2>2, <2>4
  <2> QED BY <2>3, <2>4
<1> QED BY <1>2, <1>3, <1>4, <1>6, <1>7, <1>8 DEF Merges

\* The loop of Settle keeps to it.
LEMMA SettleKeeps ==
  ASSUME 0 \notin Key, NEW iters, NEW p, NEW shown, Merges(iters, p, shown),
         NEW cached \in Pair \cup {None}
  PROVE  Merges(Settle(iters, cached).iters, p, shown)
<1> DEFINE I == {s \in MergeStates : Merges(s[1], p, shown)}
<1>1. I \in SUBSET MergeStates /\ <<iters, cached>> \in I
  BY MergesIs DEF MergeStates
<1>2. ASSUME NEW s \in I, s \notin SettleStop PROVE SettleNext[s] \in I
  <2>1. /\ s \in MergeStates /\ SettleNext[s] \in MergeStates
        /\ Merges(s[1], p, shown)
    BY <1>2, SettleFalls DEF Falls
  <2>2. ~is_end(s[1]) /\ Top(s[1]).value = 0
    BY <1>2, <2>1 DEF SettleStop
  <2>3. /\ Top(s[1]) \in Pair /\ Stands(p, Top(s[1])) /\ Lowest(s[1], Top(s[1]).key)
        /\ \A k \in shown : k < Top(s[1]).key
    BY <2>1, <2>2, TopStands
  <2>4. PICK key \in Nat : key = Top(s[1]).key
    BY <2>3, PairIs
  <2>5. p[key] = 0
    BY <2>2, <2>3, <2>4 DEF Stands
  <2>6. Merges(skip_key(s[1], key), p, shown)
    BY <2>1, <2>3, <2>4, <2>5, MergesSkip
  <2>7. SettleNext[s][1] = skip_key(s[1], key)
    BY <2>1, <2>4 DEF SettleNext
  <2> QED BY <2>1, <2>6, <2>7
<1> HIDE DEF I
<1>3. PICK e \in I : e \in SettleStop /\ Settle(iters, cached) = SettleBase[e]
  BY <1>1, <1>2, SettleEnds
<1>4. e \in MergeStates /\ Merges(e[1], p, shown)
  BY DEF I
<1>5. SettleBase[e].iters = e[1]
  BY <1>4 DEF SettleBase
<1> QED BY <1>3, <1>4, <1>5

-----------------------------------------------------------------------------
(* The iterators that are merged.                                          *)

\* Two rising sequences, the second above the first, make one.
LEMMA JoinRising ==
  ASSUME NEW s \in Seq(Pair), NEW t \in Seq(Pair), Rising(s), Rising(t),
         \A e \in Range(s), f \in Range(t) : e.key < f.key
  PROVE  Rising(s \o t)
<1>1. PICK m \in Nat, n \in Nat :
        m = Len(s) /\ n = Len(t) /\ DOMAIN s = 1 .. m /\ DOMAIN t = 1 .. n
  OBVIOUS
<1>2. PICK u : u = s \o t
  OBVIOUS
<1>3. /\ DOMAIN u = 1 .. m + n
      /\ \A i \in 1 .. m : u[i] = s[i]
      /\ \A i \in m + 1 .. m + n : u[i] = t[i - m]
  BY <1>1, <1>2
<1>4. /\ \A i, j \in 1 .. m : i < j => s[i].key < s[j].key
      /\ \A i, j \in 1 .. n : i < j => t[i].key < t[j].key
  BY <1>1 DEF Rising
<1>5. \A i \in 1 .. m, j \in 1 .. n : s[i].key < t[j].key
  BY <1>1 DEF Range
<1>6. ASSUME NEW i \in 1 .. m + n, NEW j \in 1 .. m + n, i < j PROVE u[i].key < u[j].key
  <2>1. CASE j \in 1 .. m
    <3>1. i \in 1 .. m
      BY <1>1, <1>6, <2>1
    <3> QED BY <1>3, <1>4, <1>6, <2>1, <3>1
  <2>2. CASE i \in 1 .. m /\ j \notin 1 .. m
    <3>1. j \in m + 1 .. m + n /\ j - m \in 1 .. n
      BY <1>1, <2>2
    <3> QED BY <1>3, <1>5, <2>2, <3>1
  <2>3. CASE i \notin 1 .. m
    <3>1. /\ i \in m + 1 .. m + n /\ i - m \in 1 .. n
          /\ j \in m + 1 .. m + n /\ j - m \in 1 .. n /\ i - m < j - m
      BY <1>1, <1>6, <2>3
    <3> QED BY <1>3, <1>4, <3>1
  <2> QED BY <2>1, <2>2, <2>3
<1>7. Rising(u)
  BY <1>3, <1>6 DEF Rising
<1> QED BY <1>2, <1>7

\* Any number of them, each above those before it.
InOrder(r) ==
  /\ \A i \in DOMAIN r : Rising(r[i])
  /\ \A i, j \in DOMAIN r : i < j => \A e \in Range(r[i]), f \in Range(r[j]) : e.key < f.key

\* Put together they rise.
LEMMA FlatRising ==
  ASSUME NEW s \in Seq(Seq(Pair)), InOrder(s)
  PROVE  Rising(FlattenSeq(s))
<1> DEFINE H == {r \in Seq(Seq(Pair)) : InOrder(r) => Rising(FlattenSeq(r))}
<1>1. << >> \in H
  <2>1. Rising(<< >>)
    BY DEF Rising
  <2> QED BY <2>1, FlatEmpty
<1>2. ASSUME NEW r \in Seq(Seq(Pair)), NEW y \in Seq(Pair), r \in H PROVE r \o <<y>> \in H
  <2>1. PICK e : e = r \o <<y>>
    OBVIOUS
  <2>2. PICK n \in Nat : n = Len(r) /\ DOMAIN r = 1 .. n
    OBVIOUS
  <2>3. e \in Seq(Seq(Pair)) /\ DOMAIN e = 1 .. n + 1 /\ e[n + 1] = y
        /\ \A i \in 1 .. n : e[i] = r[i]
    BY <2>1, <2>2
  <2>4. FlattenSeq(e) = FlattenSeq(r) \o y /\ FlattenSeq(r) \in Seq(Pair)
    BY <2>1, FlatAppend, FlatType
  <2>5. ASSUME InOrder(e) PROVE Rising(FlattenSeq(e))
    <3>1. /\ \A i \in 1 .. n + 1 : Rising(e[i])
          /\ \A i, j \in 1 .. n + 1 :
                i < j => \A a \in Range(e[i]), b \in Range(e[j]) : a.key < b.key
      BY <2>3, <2>5 DEF InOrder
    <3>2. \A i \in 1 .. n : i \in 1 .. n + 1 /\ n + 1 \in 1 .. n + 1 /\ i < n + 1
      OBVIOUS
    <3>3. InOrder(r)
      BY <2>2, <2>3, <3>1, <3>2 DEF InOrder
    <3>4. Rising(y)
      <4>1. n + 1 \in 1 .. n + 1
        OBVIOUS
      <4> QED BY <2>3, <3>1, <4>1
    <3>5. ASSUME NEW a \in Range(FlattenSeq(r)), NEW b \in Range(y) PROVE a.key < b.key
      <4>1. PICK i \in 1 .. n : a \in Range(r[i])
        BY <2>2, FlatRange
      <4> QED BY <2>3, <3>1, <3>2, <4>1
    <3>6. Rising(FlattenSeq(r))
      BY <1>2, <3>3
    <3> QED BY <2>4, <3>4, <3>5, <3>6, JoinRising
  <2> QED BY <2>1, <2>3, <2>5
<1> HIDE DEF H
<1>3. s \in H
  BY <1>1, <1>2, SeqInd
<1> QED BY <1>3 DEF H

\* All entries of a map.
LEMMA EntriesIs ==
  ASSUME NEW map \in Contents, IsFiniteSet(Present(map))
  PROVE  /\ Entries(map) \in Seq(Pair) /\ Rising(Entries(map))
         /\ \A e : e \in Range(Entries(map)) <=>
                     \E k \in Present(map) : e = [key |-> k, value |-> map[k]]
<1>1. PICK K \in SUBSET Present(map) : K = Present(map)
  OBVIOUS
<1> QED BY <1>1, EntriesOfIs DEF Entries

\* What a HeapIterator over the entries of a map yields.
LEMMA HeapEntriesAre ==
  ASSUME NEW map \in Contents, IsFiniteSet(Present(map)), NEW id
  PROVE  /\ HeapEntries(map, id) \in Seq(Pair) /\ Rising(HeapEntries(map, id))
         /\ \A e \in Range(HeapEntries(map, id)) : e.key \in Present(map) /\ e.value = map[e.key]
         /\ \A k \in Key : map[k] \notin {None, 0} => k \in Keys(HeapEntries(map, id))
<1>1. PICK K : K = IF id = 0 THEN Live(map)
                   ELSE {k \in Present(map) : \E l \in Live(map) : l <= k}
  OBVIOUS
<1>2. K \in SUBSET Present(map)
  BY <1>1 DEF Live
<1>3. IsFiniteSet(K)
  BY <1>2, FS_Subset
<1>4. PICK v : v = HeapEntries(map, id)
  OBVIOUS
<1>5. v = EntriesOf(map, K)
  BY <1>1, <1>4 DEF HeapEntries
<1>6. /\ v \in Seq(Pair) /\ Rising(v)
      /\ \A e : e \in Range(v) <=> \E k \in K : e = [key |-> k, value |-> map[k]]
  BY <1>2, <1>3, <1>5, EntriesOfIs
<1>7. \A e \in Range(v) : e.key \in Present(map) /\ e.value = map[e.key]
  BY <1>2, <1>6
<1>8. ASSUME NEW k \in Key, map[k] \notin {None, 0} PROVE k \in Keys(v)
  <2>1. k \in Live(map) /\ k \in Present(map)
    BY <1>8 DEF Live, Present
  <2>2. k \in Nat
    BY LevelIteratorAssumption
  <2>3. k <= k
    BY <2>2
  <2>4. k \in K
    BY <1>1, <2>1, <2>3
  <2>5. PICK e : e = [key |-> k, value |-> map[k]]
    OBVIOUS
  <2>6. e \in Range(v) /\ e.key = k
    BY <1>6, <2>4, <2>5
  <2> QED BY <2>6 DEF Keys
<1> QED BY <1>4, <1>6, <1>7, <1>8

\* The SST of a list that decides what is stored under a key.
LEMMA Level0Is ==
  ASSUME NEW list \in Seq(Contents)
  PROVE  /\ Level0(list) \in Contents
         /\ \A k \in Key, i \in DOMAIN list : list[i][k] # None => Level0(list)[k] # None
         /\ \A k \in Key : Level0(list)[k] # None =>
               \E i \in DOMAIN list : /\ list[i][k] # None /\ Level0(list)[k] = list[i][k]
                                      /\ \A j \in DOMAIN list : j < i => list[j][k] = None
<1>1. DOMAIN list \subseteq Nat /\ \A i \in DOMAIN list : list[i] \in Contents
  OBVIOUS
<1>2. PICK f : f = Level0(list)
  OBVIOUS
<1>3. f = [k \in Key |-> IF Hits(list, k) = {} THEN None ELSE list[Min(Hits(list, k))][k]]
  BY <1>2 DEF Level0
<1>4. ASSUME NEW k \in Key
      PROVE  \/ Hits(list, k) = {} /\ f[k] = None
             \/ \E i \in DOMAIN list : /\ list[i][k] # None /\ f[k] = list[i][k]
                                       /\ \A j \in DOMAIN list : j < i => list[j][k] = None
  <2>1. CASE Hits(list, k) = {}
    BY <1>3, <2>1
  <2>2. CASE Hits(list, k) # {}
    <3>1. PICK h : h = Hits(list, k)
      OBVIOUS
    <3>2. h \in SUBSET Nat /\ h # {} /\ \A i : i \in h <=> i \in DOMAIN list /\ list[i][k] # None
      BY <1>1, <2>2, <3>1 DEF Hits
    <3>3. \E m \in h : \A j \in h : m <= j
      BY <3>2, Least
    <3>4. Min(h) \in h /\ \A j \in h : Min(h) <= j
      BY <3>3 DEF Min
    <3>5. PICK i \in DOMAIN list : i = Min(h)
      BY <3>2, <3>4
    <3>6. f[k] = list[i][k]
      BY <1>3, <2>2, <3>1, <3>5
    <3>7. ASSUME NEW j \in DOMAIN list, j < i PROVE list[j][k] = None
      <4>1. j \in Nat /\ i \in Nat /\ ~(i <= j)
        BY <1>1, <3>7
      <4> QED BY <3>2, <3>4, <3>5, <4>1
    <3> QED BY <3>2, <3>4, <3>5, <3>6, <3>7
  <2> QED BY <2>1, <2>2
<1>5. ASSUME NEW k \in Key PROVE f[k] \in Value \cup {None}
  BY <1>1, <1>4 DEF Contents
<1>6. f \in Contents
  BY <1>3, <1>5 DEF Contents
<1>7. ASSUME NEW k \in Key, NEW i \in DOMAIN list, list[i][k] # None PROVE f[k] # None
  <2>1. Hits(list, k) # {}
    BY <1>7 DEF Hits
  <2> QED BY <1>4, <2>1
<1>8. \A k \in Key : f[k] # None =>
         \E i \in DOMAIN list : /\ list[i][k] # None /\ f[k] = list[i][k]
                                /\ \A j \in DOMAIN list : j < i => list[j][k] = None
  BY <1>4
<1> QED BY <1>2, <1>6, <1>7, <1>8

-----------------------------------------------------------------------------
(* The beginning of a scan.                                                *)

\* The tables that make up the content.
LEMMA TablesAre ==
  ASSUME TypeOK, Stored
  PROVE  /\ memtable \in Contents /\ level0 \in Seq(Contents) /\ level1 \in Seq(Contents)
         /\ Level0(level0) \in Contents /\ Level0(level1) \in Contents
         /\ \A k \in Key : latest[k] =
               IF memtable[k] # None THEN memtable[k]
               ELSE IF Level0(level0)[k] # None THEN Level0(level0)[k] ELSE Level0(level1)[k]
         /\ IsFiniteSet(Present(latest)) /\ IsFiniteSet(Present(memtable))
         /\ IsFiniteSet(Present(Level0(level0))) /\ IsFiniteSet(Present(Level0(level1)))
         /\ \A i \in DOMAIN level1 : level1[i] \in Contents /\ IsFiniteSet(Present(level1[i]))
         /\ \A i \in DOMAIN level1, k \in Key :
               level1[i][k] # None => Level0(level1)[k] = level1[i][k]
<1>1. memtable \in Contents /\ level0 \in Seq(Contents) /\ level1 \in Seq(Contents)
  BY DEF TypeOK
<1>2. PICK a, b : a = Level0(level0) /\ b = Level0(level1)
  OBVIOUS
<1>3. a \in Contents /\ b \in Contents
  BY <1>1, <1>2, Level0Is
<1>4. \A k \in Key : latest[k] = IF memtable[k] # None THEN memtable[k]
                                 ELSE IF a[k] # None THEN a[k] ELSE b[k]
  BY <1>2 DEF Stored, Content, Over
<1>5. IsFiniteSet(Present(latest))
  BY DEF Stored
<1>6. ASSUME NEW map, Present(map) \subseteq Present(latest) PROVE IsFiniteSet(Present(map))
  BY <1>5, <1>6, FS_Subset
<1>7. /\ Present(memtable) \subseteq Present(latest) /\ Present(a) \subseteq Present(latest)
      /\ Present(b) \subseteq Present(latest)
  BY <1>4 DEF Present
<1>8. ASSUME NEW i \in DOMAIN level1
      PROVE  level1[i] \in Contents /\ Present(level1[i]) \subseteq Present(b)
  BY <1>1, <1>2, Level0Is DEF Present
<1>9. ASSUME NEW i \in DOMAIN level1
      PROVE  level1[i] \in Contents /\ IsFiniteSet(Present(level1[i]))
  <2>1. Present(level1[i]) \subseteq Present(latest)
    BY <1>7, <1>8
  <2> QED BY <1>6, <1>8, <2>1
<1>10. ASSUME NEW i \in DOMAIN level1, NEW k \in Key, level1[i][k] # None
       PROVE  b[k] = level1[i][k]
  <2>1. b[k] # None
    BY <1>1, <1>2, <1>10, Level0Is
  <2>2. PICK j \in DOMAIN level1 : level1[j][k] # None /\ b[k] = level1[j][k]
    BY <1>1, <1>2, <2>1, Level0Is
  <2>3. ~(i < j) /\ ~(j < i)
    <3>1. k \in Nat /\ ~(k < k)
      BY LevelIteratorAssumption
    <3> QED BY <1>10, <2>2, <3>1 DEF Stored
  <2>4. i \in Nat /\ j \in Nat
    BY <1>1
  <2> QED BY <2>2, <2>3, <2>4
<1> QED BY <1>1, <1>2, <1>3, <1>4, <1>5, <1>6, <1>7, <1>9, <1>10

\* The iterators of level 1.
LEMMA LevelIteratorsAre ==
  ASSUME TypeOK, Stored
  PROVE  /\ LevelIterators(level1) \in Seq(Seq(Pair))
         /\ Len(LevelIterators(level1)) = Len(level1)
         /\ \A i \in DOMAIN level1 :
               /\ Rising(LevelIterators(level1)[i])
               /\ \A e \in Range(LevelIterators(level1)[i]) :
                     \E j \in DOMAIN level1 : /\ e.key \in Present(level1[j])
                                              /\ e.value = level1[j][e.key]
               /\ \A k \in Present(level1[i]) : k \in Keys(LevelIterators(level1)[i])
<1>1. PICK n \in Nat : n = Len(level1) /\ DOMAIN level1 = 1 .. n
  <2>1. level1 \in Seq(Contents)
    BY TablesAre
  <2> QED BY <2>1
<1>2. ASSUME NEW j \in 1 .. n
      PROVE  /\ Entries(level1[j]) \in Seq(Pair) /\ Rising(Entries(level1[j]))
             /\ \A e : e \in Range(Entries(level1[j])) <=>
                         \E k \in Present(level1[j]) : e = [key |-> k, value |-> level1[j][k]]
  <2>1. level1[j] \in Contents /\ IsFiniteSet(Present(level1[j]))
    BY <1>1, TablesAre
  <2> QED BY <2>1, EntriesIs
<1>3. \A j \in 1 .. n : \A e \in Range(Entries(level1[j])) :
         e.key \in Present(level1[j]) /\ e.value = level1[j][e.key]
  BY <1>2
<1>4. \A j \in 1 .. n : \A k \in Present(level1[j]) :
         \E e \in Range(Entries(level1[j])) : e.key = k
  <2> SUFFICES ASSUME NEW j \in 1 .. n, NEW k \in Present(level1[j])
               PROVE  \E e \in Range(Entries(level1[j])) : e.key = k
    OBVIOUS
  <2>1. PICK e : e = [key |-> k, value |-> level1[j][k]]
    OBVIOUS
  <2>2. e \in Range(Entries(level1[j])) /\ e.key = k
    BY <1>2, <2>1
  <2> QED BY <2>2
<1>5. ASSUME NEW i \in 1 .. n, NEW s, s = [j \in 1 .. i |-> Entries(level1[j])]
      PROVE  /\ FlattenSeq(s) \in Seq(Pair) /\ Rising(FlattenSeq(s))
             /\ \A e : e \in Range(FlattenSeq(s)) <=>
                         \E j \in 1 .. i : e \in Range(Entries(level1[j]))
  <2>1. \A j \in 1 .. i : j \in 1 .. n
    BY <1>1
  <2>2. s \in Seq(Seq(Pair)) /\ DOMAIN s = 1 .. i
    <3>1. s \in [1 .. i -> Seq(Pair)]
      BY <1>2, <1>5, <2>1
    <3> QED BY <1>5, <3>1
  <2>3. \A j \in 1 .. i : s[j] = Entries(level1[j])
    BY <1>5
  <2>4. InOrder(s)
    <3>1. \A j \in 1 .. i : Rising(s[j])
      BY <1>2, <2>1, <2>3
    <3>2. ASSUME NEW j \in 1 .. i, NEW l \in 1 .. i, j < l,
                 NEW e \in Range(s[j]), NEW f \in Range(s[l])
          PROVE  e.key < f.key
      <4>1. e.key \in Present(level1[j]) /\ f.key \in Present(level1[l])
        BY <1>3, <2>1, <2>3, <3>2
      <4>2. j \in DOMAIN level1 /\ l \in DOMAIN level1
        BY <1>1, <2>1
      <4> QED BY <3>2, <4>1, <4>2 DEF Stored, Present
    <3> QED BY <2>2, <3>1, <3>2 DEF InOrder
  <2>5. FlattenSeq(s) \in Seq(Pair) /\ Rising(FlattenSeq(s))
    BY <2>2, <2>4, FlatType, FlatRising
  <2>6. \A e : e \in Range(FlattenSeq(s)) <=> \E j \in DOMAIN s : e \in Range(s[j])
    BY <2>2, FlatRange
  <2> QED BY <2>2, <2>3, <2>5, <2>6
<1>6. PICK v : v = LevelIterators(level1)
  OBVIOUS
<1>7. ASSUME NEW i \in 1 .. n
      PROVE  /\ v[i] \in Seq(Pair) /\ Rising(v[i])
             /\ \A e : e \in Range(v[i]) <=> \E j \in 1 .. i : e \in Range(Entries(level1[j]))
  <2>1. PICK s : s = [j \in 1 .. i |-> Entries(level1[j])]
    OBVIOUS
  <2>2. v[i] = FlattenSeq(s)
    BY <1>1, <1>6, <2>1 DEF LevelIterators
  <2> QED BY <1>5, <2>1, <2>2
<1>8. v \in Seq(Seq(Pair)) /\ Len(v) = n
  <2>1. DOMAIN v = 1 .. n /\ v = [i \in 1 .. n |-> v[i]]
    BY <1>1, <1>6 DEF LevelIterators
  <2>2. v \in [1 .. n -> Seq(Pair)]
    BY <1>7, <2>1
  <2> QED BY <2>2
<1>9. ASSUME NEW i \in 1 .. n, NEW e \in Range(v[i])
      PROVE  \E j \in 1 .. n : e.key \in Present(level1[j]) /\ e.value = level1[j][e.key]
  <2>1. PICK j \in 1 .. i : e \in Range(Entries(level1[j]))
    BY <1>7
  <2>2. j \in 1 .. n
    BY <1>1
  <2> QED BY <1>3, <2>1, <2>2
<1>10. ASSUME NEW i \in 1 .. n, NEW k \in Present(level1[i]) PROVE k \in Keys(v[i])
  <2>1. PICK e \in Range(Entries(level1[i])) : e.key = k
    BY <1>4
  <2>2. i \in 1 .. i
    BY <1>1
  <2>3. e \in Range(v[i])
    BY <1>7, <2>1, <2>2
  <2> QED BY <2>1, <2>3 DEF Keys
<1> QED BY <1>1, <1>6, <1>7, <1>8, <1>9, <1>10

\* The iterators that the constructor makes.
Sources(id) ==
  <<HeapEntries(memtable, id), HeapEntries(Level0(level0), id)>> \o LevelIterators(level1)

\* They are iterators.
LEMMA SourcesAre ==
  ASSUME TypeOK, Stored, NEW id
  PROVE  /\ Sources(id) \in Seq(Seq(Pair)) /\ Len(Sources(id)) = Len(level1) + 2
         /\ Len(level1) \in Nat
         /\ Sources(id)[1] = HeapEntries(memtable, id)
         /\ Sources(id)[2] = HeapEntries(Level0(level0), id)
         /\ \A i \in DOMAIN level1 : Sources(id)[i + 2] = LevelIterators(level1)[i]
         /\ DOMAIN level1 = 1 .. Len(level1)
<1>1. PICK a, b, v : /\ a = HeapEntries(memtable, id) /\ b = HeapEntries(Level0(level0), id)
                     /\ v = LevelIterators(level1)
  OBVIOUS
<1>2. a \in Seq(Pair) /\ b \in Seq(Pair)
  BY <1>1, TablesAre, HeapEntriesAre
<1>3. v \in Seq(Seq(Pair)) /\ Len(v) = Len(level1)
  BY <1>1, LevelIteratorsAre
<1>4. level1 \in Seq(Contents)
  BY TablesAre
<1>5. PICK n \in Nat : n = Len(level1) /\ DOMAIN level1 = 1 .. n
  BY <1>4
<1>6. PICK T : T = Seq(Pair)
  OBVIOUS
<1>7. PICK p \in Seq(T) : p = <<a, b>> /\ Len(p) = 2 /\ p[1] = a /\ p[2] = b
  <2>1. <<a, b>> \in Seq(T)
    BY <1>2, <1>6
  <2> QED BY <2>1
<1>8. /\ p \o v \in Seq(T) /\ Len(p \o v) = n + 2
      /\ (p \o v)[1] = a /\ (p \o v)[2] = b
      /\ \A i \in 1 .. n : (p \o v)[i + 2] = v[i]
  BY <1>3, <1>5, <1>6, <1>7
<1>9. Sources(id) = p \o v
  BY <1>1, <1>7 DEF Sources
<1> QED BY <1>1, <1>5, <1>6, <1>8, <1>9

\* A scan begins with a merge of what was last written.
LEMMA SourcesMerge ==
  ASSUME TypeOK, Stored, NEW id
  PROVE  Merges(Sources(id), latest, {})
<1>1. PICK n \in Nat : n = Len(level1) /\ DOMAIN level1 = 1 .. n
  BY SourcesAre
<1>2. PICK s, a, b : /\ s = Sources(id) /\ a = Level0(level0) /\ b = Level0(level1)
  OBVIOUS
<1>3. /\ s \in Seq(Seq(Pair)) /\ Len(s) = n + 2 /\ DOMAIN s = 1 .. n + 2
      /\ s[1] = HeapEntries(memtable, id) /\ s[2] = HeapEntries(a, id)
      /\ \A i \in 1 .. n : s[i + 2] = LevelIterators(level1)[i]
  <2>1. s \in Seq(Seq(Pair)) /\ Len(s) = n + 2
    BY <1>1, <1>2, SourcesAre
  <2>2. DOMAIN s = 1 .. n + 2
    BY <2>1
  <2>3. s[1] = HeapEntries(memtable, id) /\ s[2] = HeapEntries(a, id)
    BY <1>2, SourcesAre
  <2>4. \A i \in 1 .. n : s[i + 2] = LevelIterators(level1)[i]
    BY <1>1, <1>2, SourcesAre
  <2> QED BY <2>1, <2>2, <2>3, <2>4
<1>4. ASSUME NEW i \in 1 .. n + 2, i # 1, i # 2 PROVE \E j \in 1 .. n : i = j + 2
  <2>1. i - 2 \in 1 .. n /\ i = (i - 2) + 2
    BY <1>4
  <2> QED BY <2>1
<1>5. /\ \A k \in Key : latest[k] = IF memtable[k] # None THEN memtable[k]
                                    ELSE IF a[k] # None THEN a[k] ELSE b[k]
      /\ \A i \in 1 .. n, k \in Key : level1[i][k] # None => b[k] = level1[i][k]
  BY <1>1, <1>2, TablesAre
<1>6. /\ Rising(s[1]) /\ Rising(s[2])
      /\ \A e \in Range(s[1]) : e.key \in Present(memtable) /\ e.value = memtable[e.key]
      /\ \A e \in Range(s[2]) : e.key \in Present(a) /\ e.value = a[e.key]
      /\ \A k \in Key : memtable[k] \notin {None, 0} => k \in Keys(s[1])
      /\ \A k \in Key : a[k] \notin {None, 0} => k \in Keys(s[2])
  BY <1>2, <1>3, TablesAre, HeapEntriesAre
<1>7. ASSUME NEW i \in 1 .. n
      PROVE  /\ Rising(s[i + 2])
             /\ \A e \in Range(s[i + 2]) :
                   \E j \in 1 .. n : e.key \in Present(level1[j]) /\ e.value = level1[j][e.key]
             /\ \A k \in Present(level1[i]) : k \in Keys(s[i + 2])
  <2>1. PICK t : t = LevelIterators(level1)[i] /\ s[i + 2] = t
    BY <1>3
  <2>2. i \in DOMAIN level1 /\ DOMAIN level1 = 1 .. n
    BY <1>1
  <2>3. Rising(t) /\ \A k \in Present(level1[i]) : k \in Keys(t)
    BY <2>1, <2>2, LevelIteratorsAre
  <2>4. \A e \in Range(t) :
           \E j \in DOMAIN level1 : e.key \in Present(level1[j]) /\ e.value = level1[j][e.key]
    BY <2>1, <2>2, LevelIteratorsAre
  <2> QED BY <2>1, <2>2, <2>3, <2>4
<1>8. ASSUME NEW i \in 1 .. n + 2 PROVE Rising(s[i])
  <2>1. CASE i = 1 \/ i = 2
    BY <1>6, <2>1
  <2>2. CASE i # 1 /\ i # 2
    BY <1>4, <1>7, <2>2
  <2> QED BY <2>1, <2>2
<1>9. \A k \in Key : k \in Present(memtable) <=> memtable[k] # None
  BY DEF Present
<1>10. \A k \in Key : k \in Present(a) <=> a[k] # None
  BY DEF Present
<1>11. Present(memtable) \subseteq Key /\ Present(a) \subseteq Key
       /\ \A j \in 1 .. n : Present(level1[j]) \subseteq Key
  BY DEF Present
<1>12. ASSUME NEW i \in 1 .. n + 2, NEW e \in Range(s[i]),
              \A j \in 1 .. n + 2 : j < i => e.key \notin Keys(s[j])
       PROVE  Stands(latest, e)
  <2>0. 0 # None
    BY LevelIteratorAssumption
  <2>1. CASE i = 1
    <3>1. e.key \in Key /\ memtable[e.key] # None /\ e.value = memtable[e.key]
      BY <1>6, <1>9, <1>11, <1>12, <2>1
    <3> QED BY <1>5, <3>1 DEF Stands
  <2>2. CASE i = 2
    <3>1. e.key \in Key /\ a[e.key] # None /\ e.value = a[e.key]
      BY <1>6, <1>10, <1>11, <1>12, <2>2
    <3>2. memtable[e.key] \in {None, 0}
      <4>1. 1 \in 1 .. n + 2 /\ 1 < i
        BY <2>2
      <4>2. e.key \notin Keys(s[1])
        BY <1>12, <4>1
      <4> QED BY <1>6, <3>1, <4>2
    <3> QED BY <1>5, <2>0, <3>1, <3>2 DEF Stands
  <2>3. CASE i # 1 /\ i # 2
    <3>1. PICK l \in 1 .. n : i = l + 2
      BY <1>4, <2>3
    <3>2. PICK j \in 1 .. n : e.key \in Present(level1[j]) /\ e.value = level1[j][e.key]
      BY <1>7, <1>12, <3>1
    <3>3. e.key \in Key /\ b[e.key] = e.value /\ e.value # None
      <4>1. e.key \in Key /\ level1[j][e.key] # None
        BY <3>2 DEF Present
      <4> QED BY <1>5, <3>2, <4>1
    <3>4. memtable[e.key] \in {None, 0} /\ a[e.key] \in {None, 0}
      <4>1. 1 \in 1 .. n + 2 /\ 1 < i /\ 2 \in 1 .. n + 2 /\ 2 < i
        BY <3>1
      <4>2. e.key \notin Keys(s[1]) /\ e.key \notin Keys(s[2])
        BY <1>12, <4>1
      <4> QED BY <1>6, <3>3, <4>2
    <3> QED BY <1>5, <2>0, <3>3, <3>4 DEF Stands
  <2> QED BY <2>1, <2>2, <2>3
<1>13. ASSUME NEW k \in Key, latest[k] \notin {None, 0}
       PROVE  \E i \in 1 .. n + 2 : k \in Keys(s[i])
  <2>1. CASE memtable[k] # None
    <3>1. k \in Keys(s[1])
      BY <1>5, <1>6, <1>13, <2>1
    <3>2. 1 \in 1 .. n + 2
      OBVIOUS
    <3> QED BY <3>1, <3>2
  <2>2. CASE memtable[k] = None /\ a[k] # None
    <3>1. k \in Keys(s[2])
      BY <1>5, <1>6, <1>13, <2>2
    <3>2. 2 \in 1 .. n + 2
      OBVIOUS
    <3> QED BY <3>1, <3>2
  <2>3. CASE memtable[k] = None /\ a[k] = None
    <3>1. b[k] # None
      BY <1>5, <1>13, <2>3
    <3>2. PICK i \in 1 .. n : level1[i][k] # None
      <4>1. level1 \in Seq(Contents)
        BY TablesAre
      <4> QED BY <1>1, <1>2, <3>1, <4>1, Level0Is
    <3>3. k \in Present(level1[i])
      BY <3>2 DEF Present
    <3>4. k \in Keys(s[i + 2]) /\ i + 2 \in 1 .. n + 2
      BY <1>7, <3>3
    <3> QED BY <3>4
  <2> QED BY <2>1, <2>2, <2>3
<1> QED BY <1>2, <1>3, <1>8, <1>12, <1>13 DEF Merges

-----------------------------------------------------------------------------
(* The tables.                                                             *)

\* The types and the tables are all that does not depend on the keys.
TablesInv == TypeOK /\ Stored

\* A program starts with empty tables.
LEMMA InitTables == Init => TablesInv
<1> SUFFICES ASSUME Init PROVE TablesInv
  OBVIOUS
<1>1. NoEntries \in Contents /\ \A k \in Key : NoEntries[k] = None
  BY DEF NoEntries, Contents
<1>2. /\ memtable = NoEntries /\ latest = NoEntries /\ level0 = << >> /\ level1 = << >>
      /\ iter_vec = << >> /\ emitted = << >> /\ cached_value = None /\ max_tranc_id_ = 0
      /\ writes = 0 /\ promised = NoEntries
  BY DEF Init
<1>3. << >> \in Seq(Contents) /\ << >> \in Seq(Seq(Pair)) /\ << >> \in Seq(Pair)
  OBVIOUS
<1>4. is_end(iter_vec)
  BY <1>2 DEF is_end
<1>5. 0 \in 0 .. MaxWrites
  BY LevelIteratorAssumption
<1>6. TypeOK
  BY <1>1, <1>2, <1>3, <1>4, <1>5 DEF TypeOK
<1>7. IsFiniteSet(Present(latest))
  <2>1. Present(latest) = {}
    BY <1>1, <1>2 DEF Present
  <2> QED BY <2>1, FS_EmptySet
<1>8. ASSUME NEW k \in Key PROVE Content[k] = latest[k]
  <2>1. PICK e \in Seq(Contents) : e = << >>
    BY <1>3
  <2>2. Level0(e)[k] = None
    <3>1. DOMAIN e = {}
      BY <2>1
    <3>2. ASSUME Level0(e)[k] # None PROVE \E i \in DOMAIN e : TRUE
      BY <3>2, Level0Is
    <3> QED BY <3>1, <3>2
  <2> QED BY <1>1, <1>2, <2>1, <2>2 DEF Content, Over
<1>9. \A i, j \in DOMAIN level1, k, l \in Key :
        i < j /\ level1[i][k] # None /\ level1[j][l] # None => k < l
  BY <1>2
<1> QED BY <1>6, <1>7, <1>8, <1>9 DEF TablesInv, Stored

\* A write changes the memory and what was last written alike.
LEMMA WriteTables == ASSUME TablesInv, Write PROVE TablesInv'
<1>1. TypeOK /\ Stored
  BY DEF TablesInv
<1>2. PICK k \in Key, v \in Value :
        /\ memtable' = [memtable EXCEPT ![k] = v]
        /\ latest' = [latest EXCEPT ![k] = v]
  BY DEF Write
<1>3. /\ UNCHANGED <<level0, level1>> /\ UNCHANGED iterator /\ writes' = writes + 1
      /\ writes < MaxWrites
  BY DEF Write
<1>4. v # None /\ MaxWrites \in Nat
  BY LevelIteratorAssumption
<1>5. memtable \in Contents /\ latest \in Contents /\ writes \in 0 .. MaxWrites
  BY <1>1 DEF TypeOK
<1>6. memtable' \in Contents /\ latest' \in Contents
  BY <1>2, <1>5 DEF Contents
<1>7. /\ memtable'[k] = v /\ latest'[k] = v
      /\ \A l \in Key : l # k => memtable'[l] = memtable[l] /\ latest'[l] = latest[l]
  BY <1>2, <1>5 DEF Contents
<1>8. writes' \in 0 .. MaxWrites
  BY <1>3, <1>4, <1>5
<1>9. TypeOK'
  BY <1>1, <1>3, <1>6, <1>8 DEF TypeOK, iterator, is_end, Top, get_min_key_idx
<1>10. IsFiniteSet(Present(latest))'
  <2>1. IsFiniteSet(Present(latest) \cup {k})
    BY <1>1, TablesAre, FS_AddElement
  <2>2. Present(latest)' \subseteq Present(latest) \cup {k}
    BY <1>7 DEF Present
  <2> QED BY <2>1, <2>2, FS_Subset
<1>11. ASSUME NEW l \in Key PROVE Content'[l] = latest'[l]
  <2>1. PICK a : a = Over(Level0(level0), Level0(level1))
    OBVIOUS
  <2>2. Over(Level0(level0), Level0(level1))' = a
    BY <1>3, <2>1 DEF Over, Level0, Hits
  <2>3. Content[l] = latest[l] /\ Content[l] = IF memtable[l] # None THEN memtable[l] ELSE a[l]
    BY <1>1, <2>1 DEF Stored, Content, Over
  <2>4. Content'[l] = IF memtable'[l] # None THEN memtable'[l] ELSE a[l]
    BY <2>2 DEF Content, Over
  <2> QED BY <1>4, <1>7, <2>3, <2>4
<1>12. Stored'
  BY <1>1, <1>3, <1>10, <1>11 DEF Stored
<1> QED BY <1>9, <1>12 DEF TablesInv

\* One SST more in front hides those behind.
LEMMA Level0Front ==
  ASSUME NEW map \in Contents, NEW list \in Seq(Contents), NEW k \in Key
  PROVE  /\ <<map>> \o list \in Seq(Contents)
         /\ Level0(<<map>> \o list)[k] = IF map[k] # None THEN map[k] ELSE Level0(list)[k]
<1>1. PICK s \in Seq(Contents) : s = <<map>> /\ Len(s) = 1 /\ s[1] = map
  <2>1. <<map>> \in Seq(Contents)
    BY One
  <2> QED BY <2>1
<1>2. PICK n \in Nat : n = Len(list) /\ DOMAIN list = 1 .. n
  OBVIOUS
<1>3. PICK e : e = s \o list
  OBVIOUS
<1>4. /\ e \in Seq(Contents) /\ DOMAIN e = 1 .. n + 1 /\ e[1] = map
      /\ \A i \in 1 .. n : e[i + 1] = list[i]
  BY <1>1, <1>2, <1>3
<1>5. ASSUME NEW i \in DOMAIN e, i # 1 PROVE i - 1 \in DOMAIN list /\ e[i] = list[i - 1]
  <2>1. i - 1 \in 1 .. n /\ (i - 1) + 1 = i
    BY <1>4, <1>5
  <2> QED BY <1>2, <1>4, <2>1
<1>6. ASSUME map[k] # None PROVE Level0(e)[k] = map[k]
  <2>1. 1 \in DOMAIN e
    BY <1>4
  <2>2. PICK i \in DOMAIN e : /\ Level0(e)[k] = e[i][k]
                              /\ \A j \in DOMAIN e : j < i => e[j][k] = None
    BY <1>4, <1>6, <2>1, Level0Is
  <2>3. ~(1 < i)
    BY <1>4, <1>6, <2>1, <2>2
  <2>4. i = 1
    BY <1>4, <2>3
  <2> QED BY <1>4, <2>2, <2>4
<1>7. ASSUME map[k] = None, Level0(list)[k] = None PROVE Level0(e)[k] = None
  <2>1. ASSUME Level0(e)[k] # None PROVE FALSE
    <3>1. PICK i \in DOMAIN e : e[i][k] # None
      BY <1>4, <2>1, Level0Is
    <3>2. i # 1
      BY <1>4, <1>7, <3>1
    <3> QED BY <1>5, <1>7, <3>1, <3>2, Level0Is
  <2> QED BY <2>1
<1>8. ASSUME map[k] = None, Level0(list)[k] # None PROVE Level0(e)[k] = Level0(list)[k]
  <2>1. PICK i \in DOMAIN list : /\ list[i][k] # None /\ Level0(list)[k] = list[i][k]
                                 /\ \A j \in DOMAIN list : j < i => list[j][k] = None
    BY <1>8, Level0Is
  <2>2. i + 1 \in DOMAIN e /\ e[i + 1] = list[i]
    BY <1>2, <1>4
  <2>3. PICK h \in DOMAIN e : /\ e[h][k] # None /\ Level0(e)[k] = e[h][k]
                              /\ \A j \in DOMAIN e : j < h => e[j][k] = None
    BY <1>4, <2>1, <2>2, Level0Is
  <2>4. h # 1
    BY <1>4, <1>8, <2>3
  <2>5. h - 1 \in DOMAIN list /\ e[h] = list[h - 1]
    BY <1>5, <2>4
  <2>6. ~(h - 1 < i) /\ ~(i + 1 < h)
    BY <2>1, <2>2, <2>3, <2>5
  <2>7. h \in Int /\ i \in Int
    BY <1>2, <1>4
  <2>8. h - 1 = i
    BY <2>6, <2>7
  <2> QED BY <2>1, <2>3, <2>5, <2>8
<1> QED BY <1>1, <1>3, <1>4, <1>6, <1>7, <1>8

\* A flush moves the memory in front of level 0.
LEMMA FlushTables == ASSUME TablesInv, Flush PROVE TablesInv'
<1>1. TypeOK /\ Stored
  BY DEF TablesInv
<1>2. /\ memtable \in Contents /\ level0 \in Seq(Contents)
      /\ UNCHANGED <<level1, writes, latest>> /\ UNCHANGED iterator
  BY <1>1 DEF TypeOK, Flush
<1>3. level0' = <<memtable>> \o level0 /\ memtable' = NoEntries
  BY DEF Flush
<1>4. NoEntries \in Contents /\ \A k \in Key : NoEntries[k] = None
  BY DEF NoEntries, Contents
<1>5. level0' \in Seq(Contents)
  <2>1. <<memtable>> \in Seq(Contents)
    BY <1>2, One
  <2>2. PICK s \in Seq(Contents) : s = <<memtable>>
    BY <2>1
  <2>3. s \o level0 \in Seq(Contents)
    BY <1>2
  <2> QED BY <1>3, <2>2, <2>3
<1>6. TypeOK'
  BY <1>1, <1>2, <1>3, <1>4, <1>5 DEF TypeOK, iterator, is_end, Top, get_min_key_idx
<1>7. ASSUME NEW k \in Key PROVE Content'[k] = latest'[k]
  <2>1. PICK a, b, c : a = Level0(level0) /\ b = Level0(level1) /\ c = Level0(level0')
    OBVIOUS
  <2>2. Level0(level1)' = b /\ Level0(level0)' = c
    BY <1>2, <2>1 DEF Level0, Hits
  <2>3. c[k] = IF memtable[k] # None THEN memtable[k] ELSE a[k]
    BY <1>2, <1>3, <2>1, Level0Front
  <2>4. Content[k] = IF memtable[k] # None THEN memtable[k]
                     ELSE IF a[k] # None THEN a[k] ELSE b[k]
    BY <2>1 DEF Content, Over
  <2>5. Content'[k] = IF NoEntries[k] # None THEN NoEntries[k]
                      ELSE IF c[k] # None THEN c[k] ELSE b[k]
    BY <1>3, <2>2 DEF Content, Over
  <2>6. Content[k] = latest[k] /\ latest'[k] = latest[k]
    BY <1>1, <1>2 DEF Stored
  <2> QED BY <1>4, <2>3, <2>4, <2>5, <2>6
<1>8. Stored'
  BY <1>1, <1>2, <1>7 DEF Stored, Present
<1> QED BY <1>6, <1>8 DEF TablesInv

\* The keys that compaction puts into the n-th SST, and the number of SSTs.
Chunk(sorted, n) == {sorted[i] : i \in {i \in DOMAIN sorted : (i - 1) \div SstKeys = n - 1}}
Chunks(sorted) == (Len(sorted) + SstKeys - 1) \div SstKeys

\* The chunks follow each other and hold every key.
LEMMA ChunksAre ==
  ASSUME NEW S \in SUBSET Nat, IsFiniteSet(S), NEW sorted, sorted = Ascending(S)
  PROVE  /\ Chunks(sorted) \in Nat
         /\ \A p, q \in Int : \A k \in Chunk(sorted, p), l \in Chunk(sorted, q) : p < q => k < l
         /\ \A k \in S : \E n \in 1 .. Chunks(sorted) : k \in Chunk(sorted, n)
         /\ \A n : Chunk(sorted, n) \subseteq S
<1>1. PICK N \in Nat : /\ N = Len(sorted) /\ DOMAIN sorted = 1 .. N /\ sorted \in Seq(S)
                       /\ Range(sorted) = S /\ Rises(sorted)
  BY AscendingIs
<1>2. SstKeys \in Nat \ {0}
  BY LevelIteratorAssumption
<1>3. \A a, b \in Int : a <= b => a \div SstKeys <= b \div SstKeys
  BY <1>2, DivUp
<1>4. \A a \in Int : a \div SstKeys \in Int /\ (a + SstKeys) \div SstKeys = a \div SstKeys + 1
  BY <1>2, ModDef, DivNext
<1>5. 0 \div SstKeys = 0
  BY <1>2
<1>6. PICK c : c = Chunks(sorted) /\ c = (N + SstKeys - 1) \div SstKeys
  BY <1>1 DEF Chunks
<1>7. c \in Nat
  <2>1. PICK a \in Int : a = N + SstKeys - 1 /\ 0 <= a
    BY <1>2
  <2>2. a \div SstKeys \in Int /\ 0 \div SstKeys <= a \div SstKeys
    BY <1>3, <1>4, <2>1
  <2> QED BY <1>5, <1>6, <2>1, <2>2
<1>8. ASSUME NEW p \in Int, NEW q \in Int, p < q,
             NEW k \in Chunk(sorted, p), NEW l \in Chunk(sorted, q)
      PROVE  k < l
  <2>1. PICK i \in 1 .. N : k = sorted[i] /\ (i - 1) \div SstKeys = p - 1
    BY <1>1 DEF Chunk
  <2>2. PICK j \in 1 .. N : l = sorted[j] /\ (j - 1) \div SstKeys = q - 1
    BY <1>1 DEF Chunk
  <2>3. ~(j - 1 <= i - 1)
    <3>1. i - 1 \in Int /\ j - 1 \in Int /\ ~(q - 1 <= p - 1)
      BY <1>8
    <3> QED BY <1>3, <2>1, <2>2, <3>1
  <2>4. i < j
    BY <2>3
  <2> QED BY <1>1, <2>1, <2>2, <2>4 DEF Rises
<1>9. ASSUME NEW k \in S PROVE \E n \in 1 .. c : k \in Chunk(sorted, n)
  <2>1. PICK i \in 1 .. N : sorted[i] = k
    BY <1>1 DEF Range
  <2>2. PICK a \in Int : a = i - 1 /\ 0 <= a /\ a + SstKeys <= N + SstKeys - 1
    BY <1>2
  <2>3. PICK d \in Int : d = a \div SstKeys
    BY <1>4
  <2>4. 0 <= d
    BY <1>3, <1>5, <2>2, <2>3
  <2>5. d + 1 <= c
    <3>1. a + SstKeys \in Int /\ N + SstKeys - 1 \in Int
      BY <1>2
    <3>2. (a + SstKeys) \div SstKeys <= c
      BY <1>3, <1>6, <2>2, <3>1
    <3> QED BY <1>4, <2>3, <3>2
  <2>6. d + 1 \in 1 .. c /\ (d + 1) - 1 = d
    BY <1>7, <2>4, <2>5
  <2>7. k \in Chunk(sorted, d + 1)
    BY <1>1, <2>1, <2>2, <2>3, <2>6 DEF Chunk
  <2> QED BY <2>6, <2>7
<1>10. \A n : Chunk(sorted, n) \subseteq S
  BY <1>1 DEF Chunk
<1> QED BY <1>6, <1>7, <1>8, <1>9, <1>10

\* Compaction moves level 0 over level 1.
LEMMA CompactTables == ASSUME TablesInv, Compact PROVE TablesInv'
<1>1. TypeOK /\ Stored
  BY DEF TablesInv
<1>2. PICK merged : merged = Over(Level0(level0), Level0(level1))
  OBVIOUS
<1>3. PICK sorted : sorted = Ascending(Present(merged))
  OBVIOUS
<1>4. /\ level0' = << >>
      /\ level1' = [n \in 1 .. Chunks(sorted) |->
                      [k \in Key |-> IF k \in Chunk(sorted, n) THEN merged[k] ELSE None]]
      /\ UNCHANGED <<memtable, writes, latest>> /\ UNCHANGED iterator
  BY <1>2, <1>3 DEF Compact, Chunk, Chunks
<1>5. merged \in Contents /\ Present(merged) \subseteq Present(latest)
  <2>1. PICK a \in Contents, b \in Contents : a = Level0(level0) /\ b = Level0(level1)
    BY <1>1, TablesAre
  <2>2. merged = Over(a, b)
    BY <1>2, <2>1
  <2>3. merged \in Contents
    BY <2>2 DEF Over, Contents
  <2>4. \A k \in Key : latest[k] = IF memtable[k] # None THEN memtable[k] ELSE merged[k]
    BY <1>1, <1>2 DEF Stored, Content, Over
  <2>5. Present(merged) \subseteq Present(latest)
    BY <2>4 DEF Present
  <2> QED BY <2>3, <2>5
<1>6. PICK P \in SUBSET Nat : P = Present(merged) /\ IsFiniteSet(P) /\ P \subseteq Key
  <2>1. IsFiniteSet(Present(latest)) /\ Key \subseteq Nat
    BY <1>1, LevelIteratorAssumption DEF Stored
  <2>2. Present(merged) \subseteq Key
    BY DEF Present
  <2>3. IsFiniteSet(Present(merged))
    BY <1>5, <2>1, FS_Subset
  <2> QED BY <2>1, <2>2, <2>3
<1>7. PICK c \in Nat : c = Chunks(sorted)
  BY <1>3, <1>6, ChunksAre
<1>8. /\ \A p, q \in Int : \A k \in Chunk(sorted, p), l \in Chunk(sorted, q) : p < q => k < l
      /\ \A k \in P : \E n \in 1 .. c : k \in Chunk(sorted, n)
  BY <1>3, <1>6, <1>7, ChunksAre
<1>9. PICK list : list = level1'
  OBVIOUS
<1>10. /\ list \in Seq(Contents) /\ DOMAIN list = 1 .. c
       /\ \A n \in 1 .. c, k \in Key :
             list[n][k] = IF k \in Chunk(sorted, n) THEN merged[k] ELSE None
  <2>1. list = [n \in 1 .. c |->
                  [k \in Key |-> IF k \in Chunk(sorted, n) THEN merged[k] ELSE None]]
    BY <1>4, <1>7, <1>9
  <2>2. \A n \in 1 .. c :
           [k \in Key |-> IF k \in Chunk(sorted, n) THEN merged[k] ELSE None] \in Contents
    BY <1>5 DEF Contents
  <2> QED BY <2>1, <2>2
<1>11. TypeOK'
  <2>1. level0' \in Seq(Contents)
    BY <1>4
  <2> QED BY <1>1, <1>4, <1>9, <1>10, <2>1 DEF TypeOK, iterator, is_end, Top, get_min_key_idx
<1>12. ASSUME NEW k \in Key PROVE Level0(list)[k] = merged[k]
  <2>1. CASE merged[k] = None
    <3>1. ASSUME Level0(list)[k] # None PROVE FALSE
      <4>1. PICK n \in DOMAIN list : list[n][k] # None
        BY <1>10, <3>1, Level0Is
      <4> QED BY <1>10, <2>1, <4>1
    <3> QED BY <2>1, <3>1
  <2>2. CASE merged[k] # None
    <3>1. k \in P
      BY <1>6, <2>2 DEF Present
    <3>2. PICK n \in DOMAIN list : list[n][k] # None
      BY <1>8, <1>10, <2>2, <3>1
    <3>3. Level0(list)[k] # None
      BY <1>10, <3>2, Level0Is
    <3>4. PICK h \in DOMAIN list : list[h][k] # None /\ Level0(list)[k] = list[h][k]
      BY <1>10, <3>3, Level0Is
    <3> QED BY <1>10, <3>4
  <2> QED BY <2>1, <2>2
<1>13. ASSUME NEW k \in Key PROVE Content'[k] = latest'[k]
  <2>1. PICK e \in Seq(Contents) : e = << >>
    <3>1. << >> \in Seq(Contents)
      OBVIOUS
    <3> QED BY <3>1
  <2>2. PICK a, b : a = Level0(e) /\ b = Level0(list)
    OBVIOUS
  <2>3. Level0(level0)' = a /\ Level0(level1)' = b
    BY <1>4, <1>9, <2>1, <2>2 DEF Level0, Hits
  <2>4. a[k] = None
    <3>1. DOMAIN e = {}
      BY <2>1
    <3>2. ASSUME a[k] # None PROVE \E i \in DOMAIN e : TRUE
      BY <2>2, <3>2, Level0Is
    <3> QED BY <3>1, <3>2
  <2>5. Content'[k] = IF memtable'[k] # None THEN memtable'[k]
                      ELSE IF a[k] # None THEN a[k] ELSE b[k]
    BY <2>3 DEF Content, Over
  <2>6. b[k] = merged[k]
    BY <1>12, <2>2
  <2>7. latest[k] = IF memtable[k] # None THEN memtable[k] ELSE merged[k]
    BY <1>1, <1>2 DEF Stored, Content, Over
  <2> QED BY <1>4, <2>4, <2>5, <2>6, <2>7
<1>14. ASSUME NEW i \in DOMAIN list, NEW j \in DOMAIN list, NEW k \in Key, NEW l \in Key,
              i < j, list[i][k] # None, list[j][l] # None
       PROVE  k < l
  <2>1. k \in Chunk(sorted, i) /\ l \in Chunk(sorted, j) /\ i \in Int /\ j \in Int
    BY <1>10, <1>14
  <2> QED BY <1>8, <1>14, <2>1
<1>15. Stored'
  <2>1. IsFiniteSet(Present(latest))'
    BY <1>1, <1>4 DEF Stored, Present
  <2> QED BY <1>9, <1>13, <1>14, <2>1 DEF Stored
<1> QED BY <1>11, <1>15 DEF TablesInv

-----------------------------------------------------------------------------
(* The scan.                                                               *)

\* A program starts without a scan.
LEMMA InitUnderway == Init => Underway
  BY DEF Init, Underway, Scanning

\* An unprimed account of the scan is one of the next state.
LEMMA AheadNext ==
  ASSUME Ahead(iter_vec', promised', emitted', cached_value')
  PROVE  Ahead(iter_vec, promised, emitted, cached_value)'
OBVIOUS

\* What the constructor does.
LEMMA BeginIs ==
  ASSUME TablesInv, begin
  PROVE  \E id \in ScanIds :
           /\ ~Scanning /\ iter_vec' # << >>
           /\ max_tranc_id_' = id
           /\ Settled(Sources(id), Settle(Sources(id), None))
           /\ iter_vec' = Settle(Sources(id), None).iters
           /\ cached_value' = Settle(Sources(id), None).cached
           /\ promised' = latest /\ UNCHANGED <<tables, writes, latest, emitted>>
<1>1. PICK id \in ScanIds :
        /\ ~Scanning
        /\ max_tranc_id_' = id
        /\ iter_vec' = Settle(Sources(id), None).iters
        /\ cached_value' = Settle(Sources(id), None).cached
        /\ promised' = latest /\ UNCHANGED <<tables, writes, latest, emitted>>
  BY DEF begin, Sources
<1>2. TypeOK /\ Stored
  BY DEF TablesInv
<1>3. PICK s \in Seq(Seq(Pair)) : s = Sources(id) /\ Len(s) = Len(level1) + 2 /\ Len(level1) \in Nat
  BY <1>2, SourcesAre
<1>4. PICK r : r = Settle(s, None)
  OBVIOUS
<1>5. Settled(s, r)
  BY <1>3, <1>4, SettleType
<1>6. iter_vec' # << >>
  <2>1. iter_vec' = r.iters
    BY <1>1, <1>3, <1>4
  <2>2. Len(iter_vec') = Len(level1) + 2
    BY <1>3, <1>5, <2>1 DEF Settled
  <2>3. Len(iter_vec') # 0
    BY <1>3, <2>2
  <2> QED BY <2>3
<1> QED BY <1>1, <1>3, <1>4, <1>5, <1>6

\* What the operators do.
LEMMA ReadIs ==
  ASSUME TypeOK, Read
  PROVE  /\ Scanning /\ ~is_end(iter_vec) /\ iter_vec' # << >>
         /\ iter_vec \in Seq(Seq(Pair)) /\ emitted \in Seq(Pair)
         /\ cached_value \in Pair /\ cached_value.value # 0
         /\ emitted' = Append(emitted, cached_value)
         /\ \E s \in Seq(Seq(Pair)) :
              /\ s = skip_key(iter_vec, cached_value.key)
              /\ Settled(s, Settle(s, cached_value))
              /\ iter_vec' = Settle(s, cached_value).iters
              /\ cached_value' = Settle(s, cached_value).cached
         /\ UNCHANGED <<tables, writes, latest, max_tranc_id_, promised>>
<1>1. /\ Scanning /\ ~is_end(iter_vec)
      /\ iter_vec \in Seq(Seq(Pair)) /\ emitted \in Seq(Pair)
      /\ emitted' = Append(emitted, cached_value)
      /\ UNCHANGED <<tables, writes, latest, max_tranc_id_, promised>>
  BY DEF Read, TypeOK
<1>2. cached_value \in Pair /\ cached_value.value # 0
  <2>1. cached_value \in [key : Key, value : Value \ {0}]
    BY <1>1 DEF TypeOK
  <2> QED BY <2>1 DEF Pair
<1>3. PICK s : s = skip_key(iter_vec, cached_value.key)
  OBVIOUS
<1>4. s \in Seq(Seq(Pair)) /\ Len(s) = Len(iter_vec)
  BY <1>1, <1>3, SkipIs
<1>5. PICK r : r = Settle(s, cached_value)
  OBVIOUS
<1>6. Settled(s, r)
  BY <1>2, <1>4, <1>5, SettleType
<1>7. iter_vec' = r.iters /\ cached_value' = r.cached
  BY <1>3, <1>5 DEF Read
<1>8. iter_vec' # << >>
  <2>1. Len(iter_vec') = Len(iter_vec)
    BY <1>4, <1>6, <1>7 DEF Settled
  <2>2. Len(iter_vec) # 0
    BY <1>1 DEF Scanning
  <2> QED BY <2>1, <2>2
<1> QED BY <1>1, <1>2, <1>3, <1>4, <1>5, <1>6, <1>7, <1>8

\* Where the loop stops, the types are right.
LEMMA SettledType ==
  ASSUME NEW iters, NEW r, Settled(iters, r)
  PROVE  /\ r.iters \in Seq(Seq(Pair)) /\ r.cached \in Pair \cup {None}
         /\ ~is_end(r.iters) => r.cached \in [key : Key, value : Value \ {0}]
<1>1. ASSUME ~is_end(r.iters) PROVE r.cached \in [key : Key, value : Value \ {0}]
  BY <1>1 DEF Settled, Pair
<1> QED BY <1>1 DEF Settled

\* Iterators do not change the tables.
LEMMA ScanTables ==
  ASSUME TablesInv, UNCHANGED <<tables, writes, latest>>,
         max_tranc_id_' \in ScanIds \cup {0}, promised' \in Contents, emitted' \in Seq(Pair),
         iter_vec' \in Seq(Seq(Pair)), cached_value' \in Pair \cup {None},
         ~is_end(iter_vec') => cached_value' \in [key : Key, value : Value \ {0}]
  PROVE  TablesInv'
<1>1. TypeOK /\ Stored
  BY DEF TablesInv
<1>2. UNCHANGED <<memtable, level0, level1>>
  BY DEF tables
<1>3. is_end(iter_vec)' = is_end(iter_vec')
  BY DEF is_end
<1>4. TypeOK'
  BY <1>1, <1>2, <1>3 DEF TypeOK
<1>5. Content' = Content
  BY <1>2 DEF Content, Over, Level0, Hits
<1>6. Present(latest)' = Present(latest)
  BY DEF Present
<1>7. Stored'
  BY <1>1, <1>2, <1>5, <1>6 DEF Stored
<1> QED BY <1>4, <1>7 DEF TablesInv

\* The constructor leaves the tables alone and makes iterators of the right type.
LEMMA BeginTables == ASSUME TablesInv, begin PROVE TablesInv'
<1>1. PICK id \in ScanIds :
        /\ max_tranc_id_' = id
        /\ Settled(Sources(id), Settle(Sources(id), None))
        /\ iter_vec' = Settle(Sources(id), None).iters
        /\ cached_value' = Settle(Sources(id), None).cached
        /\ promised' = latest /\ UNCHANGED <<tables, writes, latest, emitted>>
  BY BeginIs
<1>2. PICK s, r : s = Sources(id) /\ r = Settle(Sources(id), None)
  OBVIOUS
<1>3. /\ r.iters \in Seq(Seq(Pair)) /\ r.cached \in Pair \cup {None}
      /\ ~is_end(r.iters) => r.cached \in [key : Key, value : Value \ {0}]
  BY <1>1, <1>2, SettledType
<1>4. latest \in Contents /\ emitted \in Seq(Pair)
  BY DEF TablesInv, TypeOK
<1>5. iter_vec' = r.iters /\ cached_value' = r.cached
  BY <1>1, <1>2
<1> QED BY <1>1, <1>3, <1>4, <1>5, ScanTables

\* So do the operators.
LEMMA ReadTables == ASSUME TablesInv, Read PROVE TablesInv'
<1>1. TypeOK
  BY DEF TablesInv
<1>2. /\ emitted \in Seq(Pair) /\ cached_value \in Pair
      /\ emitted' = Append(emitted, cached_value)
      /\ UNCHANGED <<tables, writes, latest, max_tranc_id_, promised>>
  BY <1>1, ReadIs
<1>3. PICK s, r : Settled(s, r) /\ iter_vec' = r.iters /\ cached_value' = r.cached
  BY <1>1, ReadIs
<1>4. /\ r.iters \in Seq(Seq(Pair)) /\ r.cached \in Pair \cup {None}
      /\ ~is_end(r.iters) => r.cached \in [key : Key, value : Value \ {0}]
  BY <1>3, SettledType
<1>5. max_tranc_id_ \in ScanIds \cup {0} /\ promised \in Contents
  BY <1>1 DEF TypeOK
<1>6. emitted' \in Seq(Pair)
  BY <1>2
<1> QED BY <1>2, <1>3, <1>4, <1>5, <1>6, ScanTables

\* So does the end of a scan.
LEMMA EndTables == ASSUME TablesInv, End PROVE TablesInv'
<1>1. /\ max_tranc_id_' = 0 /\ iter_vec' = << >> /\ cached_value' = None /\ emitted' = << >>
      /\ promised' = NoEntries /\ UNCHANGED <<tables, writes, latest>>
  BY DEF End
<1>2. NoEntries \in Contents
  BY DEF NoEntries, Contents
<1>3. << >> \in Seq(Seq(Pair)) /\ << >> \in Seq(Pair)
  OBVIOUS
<1>4. is_end(iter_vec')
  BY <1>1 DEF is_end
<1> QED BY <1>1, <1>2, <1>3, <1>4, ScanTables

\* Every step keeps the types and the tables.
LEMMA TablesStep == ASSUME TablesInv, [Next]_vars PROVE TablesInv'
<1>1. CASE Write
  BY <1>1, WriteTables
<1>2. CASE Flush
  BY <1>2, FlushTables
<1>3. CASE Compact
  BY <1>3, CompactTables
<1>4. CASE begin
  BY <1>4, BeginTables
<1>5. CASE Read
  BY <1>5, ReadTables
<1>6. CASE End
  BY <1>6, EndTables
<1>7. CASE UNCHANGED vars
  <2>1. UNCHANGED <<tables, writes, latest>> /\ UNCHANGED iterator
    BY <1>7 DEF vars
  <2>2. /\ max_tranc_id_ \in ScanIds \cup {0} /\ promised \in Contents /\ emitted \in Seq(Pair)
        /\ iter_vec \in Seq(Seq(Pair)) /\ cached_value \in Pair \cup {None}
        /\ ~is_end(iter_vec) => cached_value \in [key : Key, value : Value \ {0}]
    BY DEF TablesInv, TypeOK
  <2>3. UNCHANGED <<max_tranc_id_, iter_vec, cached_value, emitted, promised>>
    BY <2>1 DEF iterator
  <2> QED BY <2>1, <2>2, <2>3, ScanTables
<1> QED BY <1>1, <1>2, <1>3, <1>4, <1>5, <1>6, <1>7 DEF Next

\* Tables, iterators and entries have their types always, and an iterator that the
\* constructor or operator++ has left off its end stands on an entry that is not a
\* deletion.  The empty key makes no exception here.
THEOREM LevelTypeOK == Spec => []TypeOK
<1>1. Spec => []TablesInv
  <2>1. Init => TablesInv
    BY InitTables
  <2>2. TablesInv /\ [Next]_vars => TablesInv'
    BY TablesStep
  <2> QED BY <2>1, <2>2, PTL DEF Spec
<1>2. TablesInv => TypeOK
  BY DEF TablesInv
<1> QED BY <1>1, <1>2, PTL

\* Nothing has been shown.
LEMMA ShownNothing == Keys(<< >>) = {} /\ Rising(<< >>) /\ Range(<< >>) = {}
<1>1. Range(<< >>) = {}
  BY DEF Range
<1> QED BY <1>1 DEF Keys, Rising

\* One entry more is shown.
LEMMA ShownMore ==
  ASSUME NEW s \in Seq(Pair), NEW e \in Pair, Rising(s), \A k \in Keys(s) : k < e.key
  PROVE  /\ Keys(Append(s, e)) = Keys(s) \cup {e.key}
         /\ Range(Append(s, e)) = Range(s) \cup {e}
         /\ Rising(Append(s, e))
<1>0. PICK n \in Nat : n = Len(s) /\ DOMAIN s = 1 .. n
  OBVIOUS
<1>1. PICK t \in Seq(Pair) :
        /\ DOMAIN s = 1 .. n /\ t = Append(s, e) /\ DOMAIN t = 1 .. n + 1
        /\ t[n + 1] = e /\ \A i \in 1 .. n : t[i] = s[i]
  <2>1. Append(s, e) \in Seq(Pair) /\ Len(Append(s, e)) = n + 1
    BY <1>0
  <2>2. PICK t \in Seq(Pair) : t = Append(s, e) /\ Len(t) = n + 1
    BY <2>1
  <2>3. DOMAIN t = 1 .. n + 1
    BY <2>2
  <2>4. t[n + 1] = e /\ \A i \in 1 .. n : t[i] = s[i]
    BY <1>0, <2>2
  <2> QED BY <1>0, <2>2, <2>3, <2>4
<1>2. Range(t) = Range(s) \cup {e}
  <2>1. ASSUME NEW x \in Range(t) PROVE x \in Range(s) \cup {e}
    <3>1. PICK i \in 1 .. n + 1 : t[i] = x
      BY <1>1, <2>1 DEF Range
    <3>2. i = n + 1 \/ i \in 1 .. n
      OBVIOUS
    <3> QED BY <1>1, <3>1, <3>2 DEF Range
  <2>2. ASSUME NEW x \in Range(s) PROVE x \in Range(t)
    <3>1. PICK i \in 1 .. n : s[i] = x
      BY <1>1, <2>2 DEF Range
    <3>2. i \in 1 .. n + 1 /\ t[i] = x
      BY <1>1, <3>1
    <3> QED BY <1>1, <3>2 DEF Range
  <2>3. e \in Range(t)
    <3>1. n + 1 \in 1 .. n + 1
      OBVIOUS
    <3> QED BY <1>1, <3>1 DEF Range
  <2> QED BY <2>1, <2>2, <2>3
<1>3. Keys(t) = Keys(s) \cup {e.key}
  BY <1>2 DEF Keys
<1>4. ASSUME NEW i \in 1 .. n + 1, NEW j \in 1 .. n + 1, i < j PROVE t[i].key < t[j].key
  <2>1. i \in 1 .. n /\ (j = n + 1 \/ j \in 1 .. n)
    BY <1>4
  <2>2. t[i] = s[i] /\ s[i].key \in Keys(s)
    BY <1>1, <2>1 DEF Keys, Range
  <2>3. CASE j = n + 1
    BY <1>1, <2>2, <2>3
  <2>4. CASE j \in 1 .. n
    BY <1>1, <1>4, <2>1, <2>4 DEF Rising
  <2> QED BY <2>1, <2>3, <2>4
<1>5. Rising(t)
  BY <1>1, <1>4 DEF Rising
<1> QED BY <1>1, <1>2, <1>3, <1>5

\* A scan begins on what was last written.
LEMMA BeginUnderway ==
  ASSUME 0 \notin Key, TablesInv, Underway, begin
  PROVE  Underway'
<1>1. PICK id \in ScanIds :
        /\ ~Scanning /\ iter_vec' # << >>
        /\ Settled(Sources(id), Settle(Sources(id), None))
        /\ iter_vec' = Settle(Sources(id), None).iters
        /\ cached_value' = Settle(Sources(id), None).cached
        /\ promised' = latest /\ UNCHANGED <<tables, writes, latest, emitted>>
  BY BeginIs
<1>2. emitted' = << >>
  BY <1>1 DEF Underway
<1>3. PICK s, r : s = Sources(id) /\ r = Settle(Sources(id), None)
  OBVIOUS
<1>4. Merges(r.iters, latest, {})
  <2>1. Merges(s, latest, {})
    BY <1>3, SourcesMerge DEF TablesInv
  <2>2. None \in Pair \cup {None}
    OBVIOUS
  <2> QED BY <1>3, <2>1, <2>2, SettleKeeps
<1>5. ~is_end(r.iters) => r.cached = Top(r.iters) /\ r.cached.value # 0
  BY <1>1, <1>3 DEF Settled
<1>6. Ahead(r.iters, latest, << >>, r.cached)
  <2>1. Keys(<< >>) = {} /\ Rising(<< >>) /\ Range(<< >>) = {}
    BY ShownNothing
  <2>2. Merges(r.iters, latest, Keys(<< >>))
    BY <1>4, <2>1
  <2> QED BY <1>5, <2>1, <2>2 DEF Ahead
<1>7. Ahead(iter_vec', promised', emitted', cached_value')
  BY <1>1, <1>2, <1>3, <1>6
<1> QED BY <1>1, <1>7, AheadNext DEF Underway, Scanning

\* A scan goes on to the next key.
LEMMA ReadUnderway ==
  ASSUME 0 \notin Key, TablesInv, Underway, Read
  PROVE  Underway'
<1>1. TypeOK
  BY DEF TablesInv
<1>2. /\ Scanning /\ ~is_end(iter_vec) /\ iter_vec' # << >>
      /\ iter_vec \in Seq(Seq(Pair)) /\ emitted \in Seq(Pair)
      /\ cached_value \in Pair /\ promised' = promised
      /\ emitted' = Append(emitted, cached_value)
  BY <1>1, ReadIs
<1>3. PICK s \in Seq(Seq(Pair)) :
        /\ s = skip_key(iter_vec, cached_value.key)
        /\ Settled(s, Settle(s, cached_value))
        /\ iter_vec' = Settle(s, cached_value).iters
        /\ cached_value' = Settle(s, cached_value).cached
  BY <1>1, ReadIs
<1>4. Ahead(iter_vec, promised, emitted, cached_value)
  BY <1>2 DEF Underway
<1>5. PICK iters, p, e, old :
        iters = iter_vec /\ p = promised /\ e = cached_value /\ old = emitted
  OBVIOUS
<1>6. /\ Merges(iters, p, Keys(old)) /\ Rising(old) /\ e = Top(iters)
      /\ \A x \in Range(old) : Stands(p, x)
  BY <1>2, <1>4, <1>5 DEF Ahead
<1>7. Stands(p, e) /\ Lowest(iters, e.key) /\ \A k \in Keys(old) : k < e.key
  BY <1>2, <1>5, <1>6, TopStands
<1>8. e \in Pair /\ e.key \in Nat /\ old \in Seq(Pair)
  BY <1>2, <1>5, PairIs
<1>9. PICK new : new = Append(old, e)
  OBVIOUS
<1>10. Keys(new) = Keys(old) \cup {e.key} /\ Range(new) = Range(old) \cup {e} /\ Rising(new)
  BY <1>6, <1>7, <1>8, <1>9, ShownMore
<1>11. Merges(s, p, Keys(new))
  BY <1>3, <1>5, <1>6, <1>7, <1>8, <1>10, MergesSkip
<1>12. PICK r : r = Settle(s, e)
  OBVIOUS
<1>13. Merges(r.iters, p, Keys(new))
  BY <1>8, <1>11, <1>12, SettleKeeps
<1>14. ~is_end(r.iters) => r.cached = Top(r.iters) /\ r.cached.value # 0
  BY <1>3, <1>5, <1>12 DEF Settled
<1>15. Ahead(r.iters, p, new, r.cached)
  BY <1>6, <1>7, <1>10, <1>13, <1>14 DEF Ahead
<1>16. Ahead(iter_vec', promised', emitted', cached_value')
  BY <1>2, <1>3, <1>5, <1>9, <1>12, <1>15
<1> QED BY <1>2, <1>16, AheadNext DEF Underway, Scanning

\* Nothing else changes a scan.
LEMMA KeepUnderway ==
  ASSUME Underway, UNCHANGED iterator
  PROVE  Underway'
<1>1. UNCHANGED <<iter_vec, promised, emitted, cached_value>>
  BY DEF iterator
<1>2. CASE Scanning
  <2>1. Ahead(iter_vec, promised, emitted, cached_value)
    BY <1>2 DEF Underway
  <2>2. Ahead(iter_vec', promised', emitted', cached_value')
    BY <1>1, <2>1
  <2> QED BY <1>1, <1>2, <2>2, AheadNext DEF Underway, Scanning
<1>3. CASE ~Scanning
  BY <1>1, <1>3 DEF Underway, Scanning
<1> QED BY <1>2, <1>3

\* Every step keeps what the scan has still to do.
LEMMA UnderwayStep ==
  ASSUME 0 \notin Key, TablesInv, Underway, [Next]_vars
  PROVE  Underway'
<1>1. CASE Write
  BY <1>1, KeepUnderway DEF Write
<1>2. CASE Flush
  BY <1>2, KeepUnderway DEF Flush
<1>3. CASE Compact
  BY <1>3, KeepUnderway DEF Compact
<1>4. CASE begin
  BY <1>4, BeginUnderway
<1>5. CASE Read
  BY <1>5, ReadUnderway
<1>6. CASE End
  BY <1>6 DEF End, Underway, Scanning
<1>7. CASE UNCHANGED vars
  BY <1>7, KeepUnderway DEF vars
<1> QED BY <1>1, <1>2, <1>3, <1>4, <1>5, <1>6, <1>7 DEF Next

\* What holds of tables and scan at every moment, as long as no key is empty.
LevelInv == TablesInv /\ Underway

\* It does, since every step keeps it.
LEMMA LevelInvariant ==
  ASSUME 0 \notin Key
  PROVE  Spec => []LevelInv
<1>1. Init => LevelInv
  BY InitTables, InitUnderway DEF LevelInv
<1>2. LevelInv /\ [Next]_vars => LevelInv'
  BY TablesStep, UnderwayStep DEF LevelInv
<1> QED BY <1>1, <1>2, PTL DEF Spec

\* A scan shows keys in ascending order and none of them twice, although the memory
\* and every level may hold the same key, since skip_key moves every iterator on.
\* Without an empty key: get_min_key_idx takes an empty min_key for none yet.
THEOREM LevelAscendingOnce ==
  ASSUME 0 \notin Key
  PROVE  Spec => []AscendingOnce
<1>1. LevelInv => AscendingOnce
  BY DEF LevelInv, Underway, Ahead, Rising, AscendingOnce
<1>2. Spec => []LevelInv
  BY LevelInvariant
<1> QED BY <1>1, <1>2, PTL

\* A scan misses no key that was there when the constructor ran, shows none that was
\* not, and of each the value from the newest place: get_min_key_idx prefers the
\* first iterator, and the iterators are made newest first.
THEOREM LevelLiveKeysShown ==
  ASSUME 0 \notin Key
  PROVE  Spec => []LiveKeysShown
<1>1. LevelInv => LiveKeysShown
  <2> SUFFICES ASSUME LevelInv, Scanning PROVE LiveKeysShown
    BY DEF LiveKeysShown
  <2>1. PICK iters, p, s : iters = iter_vec /\ p = promised /\ s = emitted
    OBVIOUS
  <2>2. /\ Merges(iters, p, Keys(s)) /\ \A e \in Range(s) : Stands(p, e)
    BY <2>1 DEF LevelInv, Underway, Ahead
  <2>3. s \in Seq(Pair)
    BY <2>1 DEF LevelInv, TablesInv, TypeOK
  <2>4. ASSUME NEW i \in DOMAIN s PROVE p[s[i].key] # None /\ p[s[i].key] \in {s[i].value, 0}
    BY <2>2, <2>3 DEF Range, Stands
  <2>5. ASSUME is_end(iters), NEW k \in Key, p[k] \notin {None, 0}
        PROVE  \E i \in DOMAIN s : s[i].key = k
    <3>1. \A i \in DOMAIN iters : Keys(iters[i]) = {}
      BY <2>5, ShownNothing DEF is_end
    <3>2. k \in Keys(s)
      BY <2>2, <2>5, <3>1 DEF Merges
    <3> QED BY <3>2 DEF Keys, Range
  <2> QED BY <2>1, <2>4, <2>5 DEF LiveKeysShown
<1>2. Spec => []LevelInv
  BY LevelInvariant
<1> QED BY <1>1, <1>2, PTL
==============================================================================
