-------------------------- MODULE HeapIteratorProofs --------------------------
(***************************************************************************)
(* Proofs about HeapIterator.                                              *)
(***************************************************************************)
EXTENDS HeapIterator, CommonTheorems

-----------------------------------------------------------------------------
(* The order of the items.                                                 *)

\* The order in which items come out: by key, and of one key in G the newest table
\* first.
Le(G, a, b) == a.key < b.key \/ (a.key = b.key /\ (a.key \in G => a.idx <= b.idx))

\* G are keys that have their ids in step: of two copies the one in the table with the
\* lower index has no smaller transaction id.  Of other keys nothing is known.
Coherent(G, S) ==
  /\ S \subseteq Items
  /\ \A a, b \in S :
       a.key \in G /\ a.key = b.key => /\ a.idx < b.idx => a.tranc_id >= b.tranc_id
                                       /\ a.idx = b.idx => a.tranc_id = b.tranc_id

\* The fields of an item are numbers.
LEMMA ItemFields ==
  ASSUME NEW a \in Items
  PROVE  a.key \in Key /\ a.key \in Nat /\ a.idx \in Int /\ a.tranc_id \in Nat
         /\ a.value \in Value
<1>1. Key \subseteq Nat /\ TrancId \subseteq Nat
  BY TableAssumption
<1> QED BY <1>1 DEF Items

\* It is an order of all items, with ties.
LEMMA LeOrder ==
  ASSUME NEW G, NEW a \in Items, NEW b \in Items, NEW c \in Items
  PROVE  /\ Le(G, a, a) /\ (Le(G, a, b) \/ Le(G, b, a))
         /\ Le(G, a, b) /\ Le(G, b, c) => Le(G, a, c)
  BY ItemFields DEF Le

\* operator> says of two items that the second may come out first, and its negation
\* that the first may; of keys not in G it can say so in both directions.
LEMMA GreaterIs ==
  ASSUME NEW G, NEW S, Coherent(G, S), NEW a \in S, NEW b \in S
  PROVE  /\ Greater(a, b) => Le(G, b, a)
         /\ ~Greater(a, b) => Le(G, a, b)
<1>1. a \in Items /\ b \in Items
  BY DEF Coherent
<1>2. /\ a.key \in Nat /\ a.idx \in Int /\ a.tranc_id \in Nat
      /\ b.key \in Nat /\ b.idx \in Int /\ b.tranc_id \in Nat
  BY <1>1, ItemFields
<1>3. a.key = b.key /\ a.key \in G =>
        /\ a.idx < b.idx => a.tranc_id >= b.tranc_id
        /\ a.idx = b.idx => a.tranc_id = b.tranc_id
  BY DEF Coherent
<1> QED BY <1>2, <1>3 DEF Greater, Le

-----------------------------------------------------------------------------
(* Sequences with one element replaced.                                    *)

Put(g, i, x) == [g EXCEPT ![i] = x]

Replaced(S, g, i, x, f) ==
  /\ f \in Seq(S) /\ Len(f) = Len(g)
  /\ f[i] = x
  /\ \A j \in 1 .. Len(g) : j # i => f[j] = g[j]

\* All elements but the i-th are what they were.
LEMMA PutIs ==
  ASSUME NEW S, NEW g \in Seq(S), NEW i \in 1 .. Len(g), NEW x \in S
  PROVE  Replaced(S, g, i, x, Put(g, i, x))
  BY DEF Put, Replaced

\* Outside of the domain nothing is replaced.
LEMMA PutOut ==
  ASSUME NEW S, NEW g \in Seq(S), NEW i \in Nat \ {0}, NEW x \in S
  PROVE  Put(g, i, x) \in Seq(S) /\ Len(Put(g, i, x)) = Len(g)
<1>1. CASE i \in 1 .. Len(g)
  BY <1>1, PutIs DEF Replaced
<1>2. CASE i \notin 1 .. Len(g)
  <2>1. i \notin DOMAIN g
    BY <1>2
  <2>2. Put(g, i, x) = g
    BY <2>1 DEF Put
  <2> QED BY <2>2
<1> QED BY <1>1, <1>2

\* What the sequence holds.
LEMMA PutRange ==
  ASSUME NEW S, NEW g \in Seq(S), NEW i \in 1 .. Len(g), NEW x \in S, NEW y
  PROVE  y \in Range(Put(g, i, x)) <=> y = x \/ \E j \in 1 .. Len(g) : j # i /\ y = g[j]
<1> DEFINE h == Put(g, i, x)
<1>1. DOMAIN h = 1 .. Len(g) /\ h[i] = x /\ \A j \in 1 .. Len(g) : j # i => h[j] = g[j]
  BY DEF Put
<1> HIDE DEF h
<1>2. ASSUME y \in Range(h) PROVE y = x \/ \E j \in 1 .. Len(g) : j # i /\ y = g[j]
  BY <1>1, <1>2 DEF Range
<1>3. ASSUME y = x \/ \E j \in 1 .. Len(g) : j # i /\ y = g[j] PROVE y \in Range(h)
  <2>1. x \in Range(h)
    BY <1>1 DEF Range
  <2>2. ASSUME NEW j \in 1 .. Len(g), j # i PROVE g[j] \in Range(h)
    BY <1>1, <2>2 DEF Range
  <2> QED BY <1>3, <2>1, <2>2
<1> QED BY <1>2, <1>3 DEF h

\* The father of a node of the heap.
LEMMA Half ==
  ASSUME NEW G, NEW i \in Nat, i > 1
  PROVE  i \div 2 \in Nat /\ i \div 2 >= 1 /\ i \div 2 < i
  OBVIOUS

-----------------------------------------------------------------------------
(* A heap.                                                                 *)

\* No item comes after its children.
Heaped(G, h) == \A i \in 2 .. Len(h) : Le(G, h[i \div 2], h[i])

\* With the item in the hole all are in order but the item and its father.
Upward(G, g, at, item) ==
  LET h == Put(g, at, item)
  IN  \A i \in 2 .. Len(g) :
         /\ i # at => Le(G, h[i \div 2], h[i])
         /\ at > 1 /\ i \div 2 = at => Le(G, h[at \div 2], h[i])

\* What the step of SiftUp makes of a heap g with a hole in at.
Climbed(G, S, g, at, item, p, f) ==
  /\ p \in 1 .. Len(g) /\ p < at
  /\ f \in Seq(S) /\ Len(f) = Len(g)
  /\ Upward(G, f, p, item)
  /\ Range(Put(f, p, item)) = Range(Put(g, at, item))

\* The step of SiftUp moves the hole up to the parent p, and the item still goes
\* before everything below it.
LEMMA UpStep ==
  ASSUME NEW G, NEW S \in SUBSET Items, NEW g \in Seq(S), NEW at \in 2 .. Len(g), NEW item \in S,
         Upward(G, g, at, item),
         NEW p, p = at \div 2, Le(G, item, g[p]), NEW f, f = Put(g, at, g[p])
  PROVE  Climbed(G, S, g, at, item, p, f)
<1> DEFINE n == Len(g)
           h == Put(g, at, item)
           k == Put(f, p, item)
<1>1. n \in Nat /\ at \in Nat /\ at > 1 /\ at <= n
  OBVIOUS
<1>2. p \in 1 .. n /\ p < at /\ p # at
  BY <1>1, Half
<1>3. g[p] \in S /\ at \in 1 .. n
  BY <1>2
<1>4. f \in Seq(S) /\ Len(f) = n /\ f[at] = g[p] /\ \A j \in 1 .. n : j # at => f[j] = g[j]
  <2>1. Replaced(S, g, at, g[p], f)
    BY <1>3, PutIs
  <2> QED BY <2>1 DEF Replaced
<1>5. h \in Seq(S) /\ Len(h) = n /\ h[at] = item /\ \A j \in 1 .. n : j # at => h[j] = g[j]
  <2>1. Replaced(S, g, at, item, h)
    BY <1>3, PutIs
  <2> QED BY <2>1 DEF Replaced
<1>6. k \in Seq(S) /\ Len(k) = n /\ k[p] = item /\ \A j \in 1 .. n : j # p => k[j] = f[j]
  <2>1. Replaced(S, f, p, item, k)
    BY <1>2, <1>4, PutIs
  <2> QED BY <1>4, <2>1 DEF Replaced
<1>7. \A j \in 1 .. n : h[j] \in Items /\ k[j] \in Items
  BY <1>5, <1>6
<1>8. k[at] = h[p] /\ k[p] = item /\ h[at] = item /\ \A j \in 1 .. n : j # p /\ j # at => k[j] = h[j]
  BY <1>2, <1>3, <1>4, <1>5, <1>6
<1>9. \A i \in 2 .. n : /\ i # at => Le(G, h[i \div 2], h[i])
                        /\ i \div 2 = at => Le(G, h[at \div 2], h[i])
  BY <1>1 DEF Upward
<1>10. Le(G, item, h[p])
  BY <1>2, <1>5
<1> HIDE DEF h, k
<1>11. ASSUME NEW i \in 2 .. n, i # p PROVE Le(G, k[i \div 2], k[i])
  <2>1. i \in 1 .. n /\ i \div 2 \in 1 .. n /\ i \div 2 # i
    BY <1>1, Half
  <2>2. CASE i = at
    BY <1>8, <1>10, <2>2
  <2>3. CASE i # at /\ i \div 2 = at
    BY <1>8, <1>9, <1>11, <2>1, <2>3
  <2>4. CASE i # at /\ i \div 2 = p
    <3>1. Le(G, h[p], h[i]) /\ k[i] = h[i] /\ k[i \div 2] = item
      BY <1>8, <1>9, <1>11, <2>1, <2>4
    <3>2. item \in Items /\ h[p] \in Items /\ h[i] \in Items
      BY <1>2, <1>7, <2>1
    <3> QED BY <1>10, <3>1, <3>2, LeOrder
  <2>5. CASE i # at /\ i \div 2 # at /\ i \div 2 # p
    BY <1>8, <1>9, <1>11, <2>1, <2>5
  <2> QED BY <2>2, <2>3, <2>4, <2>5
<1>12. ASSUME NEW i \in 2 .. n, p > 1, i \div 2 = p PROVE Le(G, k[p \div 2], k[i])
  <2>1. p \div 2 \in 1 .. n /\ p \div 2 < p /\ p \in 2 .. n
    BY <1>1, <1>2, <1>12, Half
  <2>2. p \div 2 # p /\ p \div 2 # at
    BY <1>1, <1>2, <2>1
  <2>3. Le(G, h[p \div 2], h[p]) /\ k[p \div 2] = h[p \div 2]
    BY <1>2, <1>8, <1>9, <2>1, <2>2
  <2>4. CASE i = at
    BY <1>8, <2>3, <2>4
  <2>5. CASE i # at
    <3>1. i \in 1 .. n /\ i # p
      BY <1>1, <1>12, Half
    <3>2. Le(G, h[p], h[i]) /\ k[i] = h[i]
      BY <1>8, <1>9, <1>12, <2>5, <3>1
    <3>3. h[p \div 2] \in Items /\ h[p] \in Items /\ h[i] \in Items
      BY <1>2, <1>7, <2>1, <3>1
    <3> QED BY <2>3, <3>2, <3>3, LeOrder
  <2> QED BY <2>4, <2>5
<1>13. Upward(G, f, p, item)
  BY <1>4, <1>11, <1>12 DEF Upward, k
<1>14. Range(k) = Range(h)
  <2>1. DOMAIN k = 1 .. n /\ DOMAIN h = 1 .. n
    BY <1>5, <1>6
  <2>2. ASSUME NEW j \in 1 .. n PROVE k[j] \in Range(h) /\ h[j] \in Range(k)
    <3>1. CASE j = at
      BY <1>2, <1>8, <2>1, <3>1 DEF Range
    <3>2. CASE j = p
      BY <1>3, <1>8, <2>1, <3>2 DEF Range
    <3>3. CASE j # at /\ j # p
      BY <1>8, <2>1, <3>3 DEF Range
    <3> QED BY <3>1, <3>2, <3>3
  <2> QED BY <2>1, <2>2 DEF Range
<1> QED BY <1>2, <1>4, <1>13, <1>14 DEF h, k, Climbed

\* The loop of SiftUp.
UpStop(item) == {s \in States : ~(s[2] > 1 /\ Greater(s[1][s[2] \div 2], item))}
UpBase(item) == [s \in States |-> Put(s[1], s[2], item)]
UpNext == [s \in States |-> <<Put(s[1], s[2], s[1][s[2] \div 2]), s[2] \div 2>>]
Hole == [s \in States |-> s[2]]

\* A heap and where its hole is.
LEMMA StateIs ==
  ASSUME NEW s \in States
  PROVE  s[1] \in Seq(Items) /\ s[2] \in Nat /\ s[2] # 0 /\ s = <<s[1], s[2]>>
  BY DEF States

\* A heap and a place in it are a state of the loop.
LEMMA StateOf ==
  ASSUME NEW g \in Seq(Items), NEW at \in Nat, at # 0
  PROVE  <<g, at>> \in States /\ <<g, at>>[1] = g /\ <<g, at>>[2] = at
  BY DEF States

\* It ends.
LEMMA UpFalls ==
  ASSUME NEW item PROVE Falls(States, UpStop(item), UpNext, Hole)
<1>1. ASSUME NEW s \in States PROVE Hole[s] \in Nat
  BY <1>1, StateIs DEF Hole
<1>2. ASSUME NEW s \in States, s \notin UpStop(item)
      PROVE  UpNext[s] \in States /\ Hole[UpNext[s]] < Hole[s]
  <2>1. PICK g \in Seq(Items), at \in Nat : s = <<g, at>> /\ g = s[1] /\ at = s[2] /\ at > 1
    BY <1>2, StateIs DEF UpStop
  <2>2. PICK p \in Nat : p = at \div 2 /\ p >= 1 /\ p < at
    BY <2>1, Half
  <2>3. Put(g, at, g[p]) \in Seq(Items)
    <3>1. CASE at \in 1 .. Len(g)
      <4>1. g[p] \in Items
        BY <2>2, <3>1
      <4> QED BY <3>1, <4>1, PutIs DEF Replaced
    <3>2. CASE at \notin 1 .. Len(g)
      <4>1. at \notin DOMAIN g
        BY <3>2
      <4>2. Put(g, at, g[p]) = g
        BY <4>1 DEF Put
      <4> QED BY <4>2
    <3> QED BY <3>1, <3>2
  <2>4. UpNext[s] = <<Put(g, at, g[p]), p>> /\ Hole[s] = at
    BY <2>1, <2>2 DEF UpNext, Hole
  <2>5. UpNext[s] \in States /\ UpNext[s][2] = p
    BY <2>2, <2>3, <2>4, StateOf
  <2> QED BY <2>2, <2>4, <2>5 DEF Hole
<1> QED BY <1>1, <1>2 DEF Falls

\* SiftUp is that loop.
LEMMA SiftUpIs ==
  ASSUME NEW item
  PROVE  \E f : /\ Loop(States, UpStop(item), UpBase(item), UpNext, f)
                /\ \A h, hole : SiftUp(h, hole, item) = f[<<h, hole>>]
<1> DEFINE R(f) == f = [s \in States |->
                          IF s[2] > 1 /\ Greater(s[1][s[2] \div 2], item)
                          THEN f[<<[s[1] EXCEPT ![s[2]] = s[1][s[2] \div 2]], s[2] \div 2>>]
                          ELSE [s[1] EXCEPT ![s[2]] = item]]
           L(f) == Loop(States, UpStop(item), UpBase(item), UpNext, f)
           u == CHOOSE f : R(f)
<1>1. ASSUME NEW f PROVE R(f) <=> L(f)
  <2>1. ASSUME NEW s \in States
        PROVE  (IF s \in UpStop(item) THEN UpBase(item)[s] ELSE f[UpNext[s]])
               = (IF s[2] > 1 /\ Greater(s[1][s[2] \div 2], item)
                  THEN f[<<[s[1] EXCEPT ![s[2]] = s[1][s[2] \div 2]], s[2] \div 2>>]
                  ELSE [s[1] EXCEPT ![s[2]] = item])
    BY DEF UpStop, UpBase, UpNext, Put
  <2> QED BY <2>1 DEF Loop
<1>2. \E f : L(f)
  BY UpFalls, LoopExists
<1>3. \E f : R(f)
  BY <1>1, <1>2
<1>4. R(u)
  <2> HIDE DEF R
  <2> QED BY <1>3
<1>5. \A h, hole : SiftUp(h, hole, item) = u[<<h, hole>>]
  BY DEF SiftUp
<1>6. L(u)
  <2> HIDE DEF u, R, L
  <2> QED BY <1>1, <1>4
<1> HIDE DEF u
<1> QED BY <1>5, <1>6

\* The item comes to its place, and with it the heap is in order.
LEMMA SiftUpHeaps ==
  ASSUME NEW G, NEW S, Coherent(G, S), NEW g \in Seq(S), NEW at \in 1 .. Len(g), NEW item \in S,
         Upward(G, g, at, item)
  PROVE  /\ SiftUp(g, at, item) \in Seq(S)
         /\ Len(SiftUp(g, at, item)) = Len(g)
         /\ Heaped(G, SiftUp(g, at, item))
         /\ Range(SiftUp(g, at, item)) = Range(Put(g, at, item))
<1> DEFINE n == Len(g)
           C == Range(Put(g, at, item))
           Fits(s) == /\ s[1] \in Seq(S) /\ Len(s[1]) = n /\ s[2] \in 1 .. n
                      /\ Upward(G, s[1], s[2], item) /\ Range(Put(s[1], s[2], item)) = C
           I == {s \in States : Fits(s)}
           t == <<g, at>>
<1>1. n \in Nat /\ S \in SUBSET Items /\ Seq(S) \subseteq Seq(Items)
  BY DEF Coherent
<1>2. t \in I
  <2>1. g \in Seq(Items) /\ at \in Nat /\ at # 0
    BY <1>1
  <2>2. t \in States /\ t[1] = g /\ t[2] = at
    BY <2>1, StateOf
  <2> QED BY <2>2
<1>3. ASSUME NEW s \in I, s \notin UpStop(item) PROVE UpNext[s] \in I
  <2>1. PICK h \in Seq(S), i \in 1 .. n : h = s[1] /\ i = s[2]
    OBVIOUS
  <2>2. /\ Len(h) = n /\ Upward(G, h, i, item) /\ Range(Put(h, i, item)) = C
        /\ i > 1 /\ Greater(h[i \div 2], item) /\ s \in States
    BY <1>3, <2>1 DEF UpStop
  <2>3. PICK p : p = i \div 2
    OBVIOUS
  <2>4. PICK f : f = Put(h, i, h[p])
    OBVIOUS
  <2>5. i \in 2 .. Len(h) /\ h[p] \in S
    BY <1>1, <2>1, <2>2, <2>3, Half
  <2>6. Le(G, item, h[p])
    <3>1. h[p] \in Items /\ item \in Items
      BY <1>1, <2>5
    <3> QED BY <2>2, <2>3, <2>5, <3>1, GreaterIs, LeOrder
  <2>7. Climbed(G, S, h, i, item, p, f)
    <3>1. S \in SUBSET Items /\ i \in 2 .. Len(h)
      BY <1>1, <2>5
    <3> HIDE DEF n, C, I, t
    <3> QED BY <2>2, <2>3, <2>4, <2>6, <3>1, UpStep
  <2>8. UpNext[s] = <<f, p>>
    BY <2>1, <2>2, <2>3, <2>4 DEF UpNext
  <2>9. f \in Seq(Items) /\ p \in Nat /\ p # 0
    BY <1>1, <2>7 DEF Climbed
  <2>10. <<f, p>> \in States /\ <<f, p>>[1] = f /\ <<f, p>>[2] = p
    BY <2>9, StateOf
  <2> QED BY <2>2, <2>7, <2>8, <2>10 DEF Climbed
<1>4. PICK f : /\ Loop(States, UpStop(item), UpBase(item), UpNext, f)
               /\ \A h, hole : SiftUp(h, hole, item) = f[<<h, hole>>]
  BY SiftUpIs
<1>5. PICK e \in I : e \in UpStop(item) /\ f[t] = UpBase(item)[e]
  <2>1. I \in SUBSET States
    OBVIOUS
  <2>2. \A s \in I : s \notin UpStop(item) => UpNext[s] \in I
    BY <1>3
  <2> HIDE DEF I, t
  <2> QED BY <1>2, <1>4, <2>1, <2>2, UpFalls, LoopEnds
<1>6. PICK h \in Seq(S), i \in 1 .. n : h = e[1] /\ i = e[2]
  OBVIOUS
<1>7. /\ Len(h) = n /\ Upward(G, h, i, item) /\ Range(Put(h, i, item)) = C
      /\ ~(i > 1 /\ Greater(h[i \div 2], item))
  BY <1>5, <1>6 DEF UpStop
<1>8. SiftUp(g, at, item) = Put(h, i, item)
  BY <1>4, <1>5, <1>6 DEF UpBase
<1>9. Replaced(S, h, i, item, Put(h, i, item))
  BY <1>7, PutIs
<1>10. Heaped(G, Put(h, i, item))
  <2> DEFINE k == Put(h, i, item)
  <2>1. k \in Seq(S) /\ Len(k) = n /\ k[i] = item /\ \A j \in 1 .. n : j # i => k[j] = h[j]
    BY <1>7, <1>9 DEF Replaced
  <2>2. \A j \in 2 .. n : j # i => Le(G, k[j \div 2], k[j])
    BY <1>7 DEF Upward
  <2>3. ASSUME i > 1 PROVE Le(G, k[i \div 2], k[i])
    <3>1. i \div 2 \in 1 .. n /\ i \div 2 # i
      BY <1>1, <2>3, Half
    <3>2. h[i \div 2] \in S /\ k[i \div 2] = h[i \div 2] /\ k[i] = item
      BY <1>7, <2>1, <3>1
    <3> HIDE DEF k
    <3> QED BY <1>7, <2>3, <3>2, GreaterIs
  <2> HIDE DEF k
  <2>4. \A j \in 2 .. n : j = i => i > 1
    OBVIOUS
  <2>5. \A j \in 2 .. n : Le(G, k[j \div 2], k[j])
    BY <2>2, <2>3, <2>4
  <2> QED BY <2>1, <2>5 DEF Heaped, k
<1> QED BY <1>7, <1>8, <1>9, <1>10 DEF Replaced

\* The child that SiftDown moves up.
ChildOf(g, at) ==
  IF 2 * at + 1 <= Len(g) /\ ~Greater(g[2 * at + 1], g[2 * at]) THEN 2 * at + 1 ELSE 2 * at

\* Without the hole all are in order, and what is above it and below it.
Downward(G, g, at) ==
  \A i \in 2 .. Len(g) :
     /\ i # at /\ i \div 2 # at => Le(G, g[i \div 2], g[i])
     /\ at > 1 /\ i \div 2 = at => Le(G, g[at \div 2], g[i])

\* A node and its children.
LEMMA Double ==
  ASSUME NEW i \in Nat, NEW at \in Nat, at # 0
  PROVE  /\ (2 * at) \div 2 = at /\ (2 * at + 1) \div 2 = at
         /\ i \div 2 = at => i = 2 * at \/ i = 2 * at + 1
  OBVIOUS

\* It is a child, and of two none comes before it.
LEMMA ChildIs ==
  ASSUME NEW G, NEW S, Coherent(G, S), NEW g \in Seq(S), NEW at \in 1 .. Len(g), 2 * at <= Len(g),
         NEW c, c = ChildOf(g, at)
  PROVE  /\ c \in 2 .. Len(g) /\ at < c /\ c \div 2 = at
         /\ \A i \in 2 .. Len(g) : i \div 2 = at => Le(G, g[c], g[i])
<1> DEFINE n == Len(g)
           l == 2 * at
           r == 2 * at + 1
<1>1. n \in Nat /\ at \in Nat /\ at # 0 /\ l <= n /\ l \in 2 .. n /\ at < l /\ at < r
  OBVIOUS
<1>2. l \div 2 = at /\ r \div 2 = at
  BY <1>1, Double
<1>3. c = l \/ (c = r /\ r <= n)
  BY DEF ChildOf
<1>4. c \in 2 .. n /\ at < c /\ c \div 2 = at
  BY <1>1, <1>2, <1>3
<1>5. \A i \in 1 .. n : g[i] \in S /\ g[i] \in Items
  BY DEF Coherent
<1>6. ASSUME NEW i \in 2 .. n, i \div 2 = at PROVE Le(G, g[c], g[i])
  <2>1. i = l \/ i = r
    BY <1>1, <1>6, Double
  <2>2. i \in 1 .. n /\ c \in 1 .. n /\ l \in 1 .. n
    BY <1>1, <1>4
  <2>3. CASE i = c
    BY <1>5, <2>2, <2>3, LeOrder
  <2>4. CASE i # c
    <3>1. r \in 1 .. n /\ r <= n
      BY <1>1, <1>3, <2>1, <2>2, <2>4
    <3>2. g[r] \in S /\ g[l] \in S /\ g[r] \in Items /\ g[l] \in Items
      BY <1>5, <2>2, <3>1
    <3>3. /\ Greater(g[r], g[l]) => Le(G, g[l], g[r])
          /\ ~Greater(g[r], g[l]) => Le(G, g[r], g[l])
      BY <3>2, GreaterIs
    <3>4. c = IF ~Greater(g[r], g[l]) THEN r ELSE l
      BY <3>1 DEF ChildOf
    <3> HIDE DEF l, r
    <3> QED BY <2>1, <2>4, <3>3, <3>4
  <2> QED BY <2>3, <2>4
<1> QED BY <1>4, <1>6

\* What the step of SiftDown makes of a heap g with a hole in at.
Sunk(G, S, g, at, item, c, f) ==
  /\ c \in 1 .. Len(g) /\ at < c
  /\ f \in Seq(S) /\ Len(f) = Len(g)
  /\ Downward(G, f, c)
  /\ Range(Put(f, c, item)) = Range(Put(g, at, item))

\* The step of SiftDown moves the hole down to the child c that goes first.
LEMMA DownStep ==
  ASSUME NEW G, NEW S, Coherent(G, S), NEW g \in Seq(S), NEW at \in 1 .. Len(g), 2 * at <= Len(g),
         NEW item \in S, Downward(G, g, at),
         NEW c, c = ChildOf(g, at), NEW f, f = Put(g, at, g[c])
  PROVE  Sunk(G, S, g, at, item, c, f)
<1> DEFINE n == Len(g)
           h == Put(g, at, item)
           k == Put(f, c, item)
<1>1. n \in Nat /\ at \in Nat /\ at >= 1 /\ at <= n /\ at # 0
  OBVIOUS
<1>2. /\ c \in 2 .. Len(g) /\ at < c /\ c \div 2 = at
      /\ \A i \in 2 .. Len(g) : i \div 2 = at => Le(G, g[c], g[i])
  BY ChildIs
<1>3. c \in 1 .. n /\ g[c] \in S /\ c # at /\ c \in Nat
  BY <1>1, <1>2
<1>4. f \in Seq(S) /\ Len(f) = n /\ f[at] = g[c] /\ \A j \in 1 .. n : j # at => f[j] = g[j]
  <2>1. Replaced(S, g, at, g[c], f)
    BY <1>3, PutIs
  <2> QED BY <2>1 DEF Replaced
<1>5. h \in Seq(S) /\ Len(h) = n /\ h[at] = item /\ \A j \in 1 .. n : j # at => h[j] = g[j]
  <2>1. Replaced(S, g, at, item, h)
    BY PutIs
  <2> QED BY <2>1 DEF Replaced
<1>6. k \in Seq(S) /\ Len(k) = n /\ k[c] = item /\ \A j \in 1 .. n : j # c => k[j] = f[j]
  <2>1. Replaced(S, f, c, item, k)
    BY <1>3, <1>4, PutIs
  <2> QED BY <1>4, <2>1 DEF Replaced
<1> HIDE DEF h, k
<1>7. \A i \in 2 .. n : /\ i # at /\ i \div 2 # at => Le(G, g[i \div 2], g[i])
                        /\ at > 1 /\ i \div 2 = at => Le(G, g[at \div 2], g[i])
  BY DEF Downward
<1>8. ASSUME NEW i \in 2 .. n, i # c, i \div 2 # c PROVE Le(G, f[i \div 2], f[i])
  <2>1. i \in 1 .. n /\ i \div 2 \in 1 .. n /\ i \div 2 # i
    BY <1>1, Half
  <2>2. CASE i = at
    <3>1. at > 1 /\ at \div 2 # at
      BY <1>1, <2>1, <2>2
    <3>2. Le(G, g[at \div 2], g[c])
      BY <1>2, <1>7, <3>1
    <3>3. f[at \div 2] = g[at \div 2]
      BY <1>4, <2>1, <2>2, <3>1
    <3> QED BY <1>4, <2>2, <3>2, <3>3
  <2>3. CASE i # at /\ i \div 2 = at
    BY <1>2, <1>4, <2>1, <2>3
  <2>4. CASE i # at /\ i \div 2 # at
    BY <1>4, <1>7, <2>1, <2>4
  <2> QED BY <2>2, <2>3, <2>4
<1>9. ASSUME NEW i \in 2 .. n, i \div 2 = c PROVE Le(G, f[c \div 2], f[i])
  <2>1. i \in 1 .. n /\ i \in Nat /\ i > 1
    BY <1>1
  <2>2. i # at /\ i \div 2 # at
    <3>1. c < i
      BY <1>9, <2>1, Half
    <3> QED BY <1>1, <1>2, <1>3, <1>9, <2>1, <3>1
  <2>3. Le(G, g[c], g[i])
    BY <1>7, <1>9, <2>2
  <2> QED BY <1>2, <1>4, <2>1, <2>2, <2>3
<1>10. Downward(G, f, c)
  BY <1>4, <1>8, <1>9 DEF Downward
<1>11. Range(k) = Range(h)
  <2>1. DOMAIN k = 1 .. n /\ DOMAIN h = 1 .. n
    BY <1>5, <1>6
  <2>2. at \in 1 .. n
    OBVIOUS
  <2>3. k[at] = h[c] /\ k[c] = h[at] /\ \A j \in 1 .. n : j # at /\ j # c => k[j] = h[j]
    BY <1>3, <1>4, <1>5, <1>6, <2>2
  <2>4. ASSUME NEW j \in 1 .. n PROVE k[j] \in Range(h) /\ h[j] \in Range(k)
    <3>1. CASE j = at
      BY <1>3, <2>1, <2>3, <3>1 DEF Range
    <3>2. CASE j = c
      BY <2>1, <2>2, <2>3, <3>2 DEF Range
    <3>3. CASE j # at /\ j # c
      BY <2>1, <2>3, <3>3 DEF Range
    <3> QED BY <3>1, <3>2, <3>3
  <2> QED BY <2>1, <2>4 DEF Range
<1> QED BY <1>2, <1>3, <1>4, <1>10, <1>11 DEF h, k, Sunk

\* The loop of SiftDown.
DownStop == {s \in States : ~(2 * s[2] <= Len(s[1]))}
DownBase(item) == [s \in States |-> SiftUp(s[1], s[2], item)]
DownNext ==
  [s \in States |->
     <<Put(s[1], s[2], s[1][ChildOf(s[1], s[2])]), ChildOf(s[1], s[2])>>]
Depth == [s \in States |-> IF s[2] <= Len(s[1]) THEN Len(s[1]) - s[2] ELSE 0]

\* It ends.
LEMMA DownFalls == Falls(States, DownStop, DownNext, Depth)
<1>1. ASSUME NEW s \in States PROVE Depth[s] \in Nat
  <2>1. PICK g \in Seq(Items), at \in Nat : g = s[1] /\ at = s[2]
    BY StateIs
  <2>2. Depth[s] = IF at <= Len(g) THEN Len(g) - at ELSE 0
    BY <2>1 DEF Depth
  <2> QED BY <2>2
<1>2. ASSUME NEW s \in States, s \notin DownStop
      PROVE  DownNext[s] \in States /\ Depth[DownNext[s]] < Depth[s]
  <2>1. PICK g \in Seq(Items), at \in Nat :
           s = <<g, at>> /\ g = s[1] /\ at = s[2] /\ at # 0 /\ 2 * at <= Len(g)
    BY <1>2, StateIs DEF DownStop
  <2>2. PICK c : c = ChildOf(g, at)
    OBVIOUS
  <2>3. c \in Nat /\ c # 0 /\ at < c /\ c <= Len(g)
    BY <2>1, <2>2 DEF ChildOf
  <2>4. at \in 1 .. Len(g) /\ g[c] \in Items
    BY <2>1, <2>3
  <2>5. Replaced(Items, g, at, g[c], Put(g, at, g[c]))
    BY <2>4, PutIs
  <2>6. PICK f \in Seq(Items) : f = Put(g, at, g[c]) /\ Len(f) = Len(g)
    BY <2>5 DEF Replaced
  <2>7. DownNext[s] = <<f, c>>
    BY <2>1, <2>2, <2>6 DEF DownNext
  <2>7a. PICK n \in Nat : n = Len(g) /\ at <= n
    BY <2>4
  <2>7b. Depth[s] = n - at
    BY <2>1, <2>7a DEF Depth
  <2>8. <<f, c>> \in States /\ <<f, c>>[1] = f /\ <<f, c>>[2] = c
    BY <2>3, StateOf
  <2>9. Depth[<<f, c>>] = n - c
    BY <2>3, <2>6, <2>7a, <2>8 DEF Depth
  <2>10. n - c < n - at
    BY <2>3
  <2> QED BY <2>7, <2>7b, <2>8, <2>9, <2>10
<1> QED BY <1>1, <1>2 DEF Falls

\* SiftDown is that loop.
LEMMA SiftDownIs ==
  ASSUME NEW item
  PROVE  \E f : /\ Loop(States, DownStop, DownBase(item), DownNext, f)
                /\ \A h, hole : SiftDown(h, hole, item) = f[<<h, hole>>]
<1> DEFINE Child(s) == IF 2 * s[2] + 1 <= Len(s[1])
                          /\ ~Greater(s[1][2 * s[2] + 1], s[1][2 * s[2]])
                       THEN 2 * s[2] + 1 ELSE 2 * s[2]
           R(f) == f = [s \in States |->
                          IF 2 * s[2] <= Len(s[1])
                          THEN f[<<[s[1] EXCEPT ![s[2]] = s[1][Child(s)]], Child(s)>>]
                          ELSE SiftUp(s[1], s[2], item)]
           L(f) == Loop(States, DownStop, DownBase(item), DownNext, f)
           d == CHOOSE f : R(f)
<1>1. ASSUME NEW f PROVE R(f) <=> L(f)
  <2>1. ASSUME NEW s \in States
        PROVE  (IF s \in DownStop THEN DownBase(item)[s] ELSE f[DownNext[s]])
               = (IF 2 * s[2] <= Len(s[1])
                  THEN f[<<[s[1] EXCEPT ![s[2]] = s[1][Child(s)]], Child(s)>>]
                  ELSE SiftUp(s[1], s[2], item))
    <3>1. Child(s) = ChildOf(s[1], s[2])
      BY DEF ChildOf
    <3> HIDE DEF Child
    <3> QED BY <3>1 DEF DownStop, DownBase, DownNext, Put
  <2> HIDE DEF Child
  <2> QED BY <2>1 DEF Loop
<1>2. \E f : L(f)
  BY DownFalls, LoopExists
<1>3. \E f : R(f)
  BY <1>1, <1>2
<1>4. R(d)
  <2> HIDE DEF R
  <2> QED BY <1>3
<1>5. \A h, hole : SiftDown(h, hole, item) = d[<<h, hole>>]
  BY DEF SiftDown
<1>6. L(d)
  <2> HIDE DEF d, R, L
  <2> QED BY <1>1, <1>4
<1> HIDE DEF d
<1> QED BY <1>5, <1>6

\* The hole comes to where the item goes.
LEMMA SiftDownHeaps ==
  ASSUME NEW G, NEW S, Coherent(G, S), NEW g \in Seq(S), NEW at \in 1 .. Len(g), NEW item \in S,
         Downward(G, g, at)
  PROVE  /\ SiftDown(g, at, item) \in Seq(S)
         /\ Len(SiftDown(g, at, item)) = Len(g)
         /\ Heaped(G, SiftDown(g, at, item))
         /\ Range(SiftDown(g, at, item)) = Range(Put(g, at, item))
<1> DEFINE n == Len(g)
           C == Range(Put(g, at, item))
           Fits(s) == /\ s[1] \in Seq(S) /\ Len(s[1]) = n /\ s[2] \in 1 .. n
                      /\ Downward(G, s[1], s[2]) /\ Range(Put(s[1], s[2], item)) = C
           I == {s \in States : Fits(s)}
           t == <<g, at>>
<1>1. n \in Nat /\ S \in SUBSET Items /\ Seq(S) \subseteq Seq(Items)
  BY DEF Coherent
<1>2. t \in I
  <2>1. g \in Seq(Items) /\ at \in Nat /\ at # 0
    BY <1>1
  <2>2. t \in States /\ t[1] = g /\ t[2] = at
    BY <2>1, StateOf
  <2> QED BY <2>2
<1>3. ASSUME NEW s \in I, s \notin DownStop PROVE DownNext[s] \in I
  <2>1. PICK h \in Seq(S), i \in 1 .. n : h = s[1] /\ i = s[2]
    OBVIOUS
  <2>2. /\ Len(h) = n /\ Downward(G, h, i) /\ Range(Put(h, i, item)) = C
        /\ 2 * i <= Len(h) /\ s \in States
    BY <1>3, <2>1 DEF DownStop
  <2>3. PICK c : c = ChildOf(h, i)
    OBVIOUS
  <2>4. PICK f : f = Put(h, i, h[c])
    OBVIOUS
  <2>5. Sunk(G, S, h, i, item, c, f)
    <3>1. i \in 1 .. Len(h)
      BY <2>2
    <3> HIDE DEF n, C, I, t
    <3> QED BY <2>2, <2>3, <2>4, <3>1, DownStep
  <2>6. DownNext[s] = <<f, c>>
    BY <2>1, <2>2, <2>3, <2>4 DEF DownNext
  <2>7. f \in Seq(Items) /\ c \in Nat /\ c # 0
    BY <1>1, <2>5 DEF Sunk
  <2>8. <<f, c>> \in States /\ <<f, c>>[1] = f /\ <<f, c>>[2] = c
    BY <2>7, StateOf
  <2> QED BY <2>2, <2>5, <2>6, <2>8 DEF Sunk
<1>4. PICK f : /\ Loop(States, DownStop, DownBase(item), DownNext, f)
               /\ \A h, hole : SiftDown(h, hole, item) = f[<<h, hole>>]
  BY SiftDownIs
<1>5. PICK e \in I : e \in DownStop /\ f[t] = DownBase(item)[e]
  <2>1. I \in SUBSET States
    OBVIOUS
  <2>2. \A s \in I : s \notin DownStop => DownNext[s] \in I
    BY <1>3
  <2> HIDE DEF I, t
  <2> QED BY <1>2, <1>4, <2>1, <2>2, DownFalls, LoopEnds
<1>6. PICK h \in Seq(S), i \in 1 .. n : h = e[1] /\ i = e[2]
  OBVIOUS
<1>7. /\ Len(h) = n /\ Downward(G, h, i) /\ Range(Put(h, i, item)) = C
      /\ ~(2 * i <= Len(h))
  BY <1>5, <1>6 DEF DownStop
<1>8. SiftDown(g, at, item) = SiftUp(h, i, item)
  BY <1>4, <1>5, <1>6 DEF DownBase
<1>9. Upward(G, h, i, item)
  <2> DEFINE k == Put(h, i, item)
  <2>1. k \in Seq(S) /\ Len(k) = n /\ k[i] = item /\ \A j \in 1 .. n : j # i => k[j] = h[j]
    <3>1. Replaced(S, h, i, item, k)
      BY <1>7, PutIs
    <3> QED BY <1>7, <3>1 DEF Replaced
  <2> HIDE DEF k
  <2>2. ASSUME NEW j \in 2 .. n PROVE j \div 2 # i /\ j \div 2 \in 1 .. n
    <3>1. j \in Nat /\ j > 1 /\ j <= n /\ i \in Nat /\ i # 0
      BY <1>1
    <3>2. j \div 2 \in 1 .. n
      BY <1>1, <3>1, Half
    <3>3. j \div 2 = i => j = 2 * i \/ j = 2 * i + 1
      BY <3>1, Double
    <3> QED BY <1>1, <1>7, <3>1, <3>2, <3>3
  <2>3. \A j \in 2 .. n : j # i => Le(G, h[j \div 2], h[j])
    BY <1>7, <2>2 DEF Downward
  <2>4. ASSUME NEW j \in 2 .. n, j # i PROVE Le(G, k[j \div 2], k[j])
    <3>1. j \in 1 .. n
      BY <1>1
    <3>2. k[j] = h[j] /\ k[j \div 2] = h[j \div 2]
      BY <2>1, <2>2, <2>4, <3>1
    <3> QED BY <2>3, <2>4, <3>2
  <2> QED BY <1>7, <2>2, <2>4 DEF Upward, k
<1>10. i \in 1 .. Len(h)
  BY <1>7
<1> HIDE DEF I, t
<1> QED BY <1>7, <1>8, <1>9, <1>10, SiftUpHeaps

\* What is neither the first nor the last.
LEMMA Inner ==
  ASSUME NEW n \in Nat, NEW k \in 2 .. n, k # n
  PROVE  k \in 1 .. n - 1 /\ k # 1
  OBVIOUS

\* A heap of any items has as many of them after the step of a loop.
LEMMA SiftUpType ==
  ASSUME NEW g \in Seq(Items), NEW at \in Nat, at # 0, NEW item \in Items
  PROVE  SiftUp(g, at, item) \in Seq(Items) /\ Len(SiftUp(g, at, item)) = Len(g)
<1> DEFINE n == Len(g)
           I == {s \in States : Len(s[1]) = n}
           t == <<g, at>>
<1>1. t \in I
  BY StateOf
<1>2. ASSUME NEW s \in I, s \notin UpStop(item) PROVE UpNext[s] \in I
  <2>1. s \in States /\ Len(s[1]) = n /\ UpNext[s] \in States
    BY <1>2, UpFalls DEF Falls
  <2>2. UpNext[s][1] = Put(s[1], s[2], s[1][s[2] \div 2])
    BY <2>1 DEF UpNext
  <2>3. Len(UpNext[s][1]) = Len(s[1])
    <3>1. UpNext[s][1] \in Seq(Items) /\ s[1] \in Seq(Items)
      BY <2>1, StateIs
    <3>2. DOMAIN UpNext[s][1] = DOMAIN s[1]
      BY <2>2, <3>1 DEF Put
    <3> QED BY <3>1, <3>2
  <2> QED BY <2>1, <2>3
<1>3. PICK f : /\ Loop(States, UpStop(item), UpBase(item), UpNext, f)
               /\ \A h, hole : SiftUp(h, hole, item) = f[<<h, hole>>]
  BY SiftUpIs
<1>4. PICK e \in I : e \in UpStop(item) /\ f[t] = UpBase(item)[e]
  <2>1. I \in SUBSET States
    OBVIOUS
  <2>2. \A s \in I : s \notin UpStop(item) => UpNext[s] \in I
    BY <1>2
  <2> HIDE DEF I, t
  <2> QED BY <1>1, <1>3, <2>1, <2>2, UpFalls, LoopEnds
<1>5. SiftUp(g, at, item) = Put(e[1], e[2], item)
  BY <1>3, <1>4 DEF UpBase
<1>6. PICK h \in Seq(Items), i \in Nat \ {0} : h = e[1] /\ i = e[2] /\ Len(h) = Len(g)
  BY StateIs
<1>7. Put(h, i, item) \in Seq(Items) /\ Len(Put(h, i, item)) = Len(h)
  BY PutOut
<1> HIDE DEF I, t
<1> QED BY <1>5, <1>6, <1>7

\* The same of SiftDown.
LEMMA SiftDownType ==
  ASSUME NEW g \in Seq(Items), NEW at \in Nat, at # 0, NEW item \in Items
  PROVE  SiftDown(g, at, item) \in Seq(Items) /\ Len(SiftDown(g, at, item)) = Len(g)
<1> DEFINE n == Len(g)
           I == {s \in States : Len(s[1]) = n}
           t == <<g, at>>
<1>1. t \in I
  BY StateOf
<1>2. ASSUME NEW s \in I, s \notin DownStop PROVE DownNext[s] \in I
  <2>1. s \in States /\ Len(s[1]) = n /\ DownNext[s] \in States
    BY <1>2, DownFalls DEF Falls
  <2>2. DownNext[s][1] = Put(s[1], s[2], s[1][ChildOf(s[1], s[2])])
    BY <2>1 DEF DownNext
  <2>3. Len(DownNext[s][1]) = Len(s[1])
    <3>1. DownNext[s][1] \in Seq(Items) /\ s[1] \in Seq(Items)
      BY <2>1, StateIs
    <3>2. DOMAIN DownNext[s][1] = DOMAIN s[1]
      BY <2>2, <3>1 DEF Put
    <3> QED BY <3>1, <3>2
  <2> QED BY <2>1, <2>3
<1>3. PICK f : /\ Loop(States, DownStop, DownBase(item), DownNext, f)
               /\ \A h, hole : SiftDown(h, hole, item) = f[<<h, hole>>]
  BY SiftDownIs
<1>4. PICK e \in I : e \in DownStop /\ f[t] = DownBase(item)[e]
  <2>1. I \in SUBSET States
    OBVIOUS
  <2>2. \A s \in I : s \notin DownStop => DownNext[s] \in I
    BY <1>2
  <2> HIDE DEF I, t
  <2> QED BY <1>1, <1>3, <2>1, <2>2, DownFalls, LoopEnds
<1>5. SiftDown(g, at, item) = SiftUp(e[1], e[2], item)
  BY <1>3, <1>4 DEF DownBase
<1>6. PICK h \in Seq(Items), i \in Nat : h = e[1] /\ i = e[2] /\ i # 0 /\ Len(h) = Len(g)
  BY StateIs
<1>7. SiftUp(h, i, item) \in Seq(Items) /\ Len(SiftUp(h, i, item)) = Len(h)
  BY <1>6, SiftUpType
<1> HIDE DEF I, t
<1> QED BY <1>5, <1>6, <1>7

\* What Pop leaves of any items.
LEMMA PopType ==
  ASSUME NEW G, NEW h \in Seq(Items), h # << >>
  PROVE  Pop(h) \in Seq(Items) /\ Len(Pop(h)) = Len(h) - 1
<1>1. Len(h) \in Nat /\ Len(h) # 0
  OBVIOUS
<1>2. CASE Len(h) = 1
  BY <1>2 DEF Pop
<1>3. CASE Len(h) # 1
  <2>1. PICK g \in Seq(Items), x \in Items : g = Front(h) /\ x = Last(h) /\ Len(g) = Len(h) - 1
    <3>1. Front(h) \in Seq(Items) /\ Len(Front(h)) = Len(h) - 1
      BY SplitLast DEF Front
    <3>2. Last(h) \in Items
      BY <1>1 DEF Last
    <3> QED BY <3>1, <3>2
  <2>2. SiftDown(g, 1, x) \in Seq(Items) /\ Len(SiftDown(g, 1, x)) = Len(g)
    BY SiftDownType
  <2>3. Pop(h) = SiftDown(g, 1, x)
    BY <1>3, <2>1 DEF Pop
  <2> QED BY <2>1, <2>2, <2>3
<1> QED BY <1>2, <1>3

\* A heap of items of S.
HeapOf(G, S, h) == h \in Seq(S) /\ Heaped(G, h)

\* Push adds the item.
LEMMA PushIs ==
  ASSUME NEW G, NEW S, Coherent(G, S), NEW h, HeapOf(G, S, h), NEW x \in S
  PROVE  HeapOf(G, S, Push(h, x)) /\ Range(Push(h, x)) = Range(h) \cup {x}
<1> DEFINE n == Len(h) + 1
           g == Append(h, x)
<1>1. h \in Seq(S) /\ Heaped(G, h) /\ n \in Nat /\ n >= 1
  BY DEF HeapOf
<1>2. /\ g \in Seq(S) /\ Len(g) = n /\ g[n] = x /\ DOMAIN g = 1 .. n
      /\ \A i \in 1 .. n : i # n => g[i] = h[i] /\ i \in 1 .. Len(h)
  BY <1>1
<1>3. Put(g, n, x) = g
  <2>1. n \in 1 .. Len(g)
    BY <1>1, <1>2
  <2>2. Replaced(S, g, n, x, Put(g, n, x))
    BY <1>2, <2>1, PutIs
  <2> HIDE DEF g, n
  <2>3. /\ Put(g, n, x) \in Seq(S) /\ Len(Put(g, n, x)) = Len(g)
        /\ \A i \in 1 .. Len(g) : Put(g, n, x)[i] = g[i]
    BY <1>2, <2>2 DEF Replaced
  <2> QED BY <1>2, <2>3, SeqEqual
<1>4. Range(g) = Range(h) \cup {x}
  <2>1. g = h \o <<x>>
    BY <1>1
  <2>2. Range(h \o <<x>>) = Range(h) \cup Range(<<x>>)
    <3>1. PICK y \in Seq(S) : y = <<x>>
      BY One
    <3>2. Range(h \o y) = Range(h) \cup Range(y)
      BY <1>1, RangeConcatenation
    <3> QED BY <3>1, <3>2
  <2>3. Range(<<x>>) = {x}
    BY One
  <2> QED BY <2>1, <2>2, <2>3
<1> HIDE DEF g
<1>5. Upward(G, g, n, x)
  <2>1. ASSUME NEW i \in 2 .. n
        PROVE i \in 1 .. n /\ i \div 2 \in 1 .. n /\ i \div 2 # n
    BY <1>1, Half
  <2>2. ASSUME NEW i \in 2 .. n, i # n PROVE Le(G, g[i \div 2], g[i])
    <3>1. i \in 2 .. Len(h)
      BY <1>1, <2>2
    <3>2. g[i] = h[i] /\ g[i \div 2] = h[i \div 2]
      BY <1>2, <2>1, <2>2
    <3> QED BY <1>1, <3>1, <3>2 DEF Heaped
  <2> QED BY <1>2, <1>3, <2>1, <2>2 DEF Upward
<1>6. Push(h, x) = SiftUp(g, n, x)
  BY DEF Push, g
<1>7. n \in 1 .. Len(g)
  BY <1>1, <1>2
<1> HIDE DEF n
<1> QED BY <1>2, <1>3, <1>4, <1>5, <1>6, <1>7, SiftUpHeaps DEF HeapOf

\* Pop takes the root out.
LEMMA PopIs ==
  ASSUME NEW G, NEW S, Coherent(G, S), NEW h, HeapOf(G, S, h), h # << >>
  PROVE  /\ HeapOf(G, S, Pop(h)) /\ Len(Pop(h)) = Len(h) - 1
         /\ h[1] \in S /\ Range(h) = {h[1]} \cup Range(Pop(h))
<1> DEFINE n == Len(h)
<1>1. h \in Seq(S) /\ Heaped(G, h) /\ n \in Nat /\ n # 0 /\ DOMAIN h = 1 .. n
  BY DEF HeapOf
<1>2. h[1] \in S
  BY <1>1
<1>3. CASE n = 1
  <2>1. Pop(h) = << >>
    BY <1>3 DEF Pop
  <2>2. Range(h) = {h[1]}
    BY <1>1, <1>3 DEF Range
  <2>3. Range(Pop(h)) = {}
    BY <2>1 DEF Range
  <2> QED BY <1>2, <1>3, <2>1, <2>2, <2>3 DEF HeapOf, Heaped
<1>4. CASE n # 1
  <2> DEFINE g == Front(h)
             x == Last(h)
  <2>1. /\ g \in Seq(S) /\ Len(g) = n - 1 /\ x \in S /\ x = h[n] /\ n - 1 >= 1
        /\ \A i \in 1 .. n - 1 : g[i] = h[i]
    BY <1>1, <1>4 DEF Front, Last
  <2> HIDE DEF g, x
  <2>2. Downward(G, g, 1)
    <3>1. ASSUME NEW i \in 2 .. n - 1 PROVE Le(G, g[i \div 2], g[i])
      <4>1. i \in 1 .. n - 1 /\ i \div 2 \in 1 .. n - 1 /\ i \in 2 .. n
        BY <1>1, Half
      <4>2. Le(G, h[i \div 2], h[i])
        BY <1>1, <4>1 DEF Heaped
      <4> QED BY <2>1, <4>1, <4>2
    <3> QED BY <2>1, <3>1 DEF Downward
  <2>3. Pop(h) = SiftDown(g, 1, x)
    BY <1>4 DEF Pop, g, x
  <2>4. 1 \in 1 .. Len(g)
    BY <1>1, <2>1
  <2>5. /\ Pop(h) \in Seq(S) /\ Len(Pop(h)) = Len(g) /\ Heaped(G, Pop(h))
        /\ Range(Pop(h)) = Range(Put(g, 1, x))
    BY <2>1, <2>2, <2>3, <2>4, SiftDownHeaps
  <2>6. ASSUME NEW y PROVE y \in Range(Pop(h)) <=> \E i \in 2 .. n : y = h[i]
    <3>1. y \in Range(Put(g, 1, x)) <=> y = x \/ \E j \in 1 .. Len(g) : j # 1 /\ y = g[j]
      BY <2>1, <2>4, PutRange
    <3>2. ASSUME NEW i \in 2 .. n, y = h[i]
          PROVE  y = x \/ \E j \in 1 .. Len(g) : j # 1 /\ y = g[j]
      <4>1. CASE i = n
        BY <2>1, <3>2, <4>1
      <4>2. CASE i # n
        <5>1. i \in 1 .. n - 1 /\ i # 1
          BY <1>1, <4>2, Inner
        <5> QED BY <2>1, <3>2, <4>2, <5>1
      <4> QED BY <4>1, <4>2
    <3>3. ASSUME y = x \/ \E j \in 1 .. Len(g) : j # 1 /\ y = g[j]
          PROVE  \E i \in 2 .. n : y = h[i]
      <4>1. CASE y = x
        <5>1. n \in 2 .. n
          BY <1>1, <1>4
        <5> QED BY <2>1, <4>1, <5>1
      <4>2. ASSUME NEW j \in 1 .. Len(g), j # 1, y = g[j] PROVE \E i \in 2 .. n : y = h[i]
        <5>1. j \in 1 .. n - 1 /\ j \in 2 .. n
          BY <1>1, <2>1, <4>2
        <5> QED BY <2>1, <4>2, <5>1
      <4> QED BY <3>3, <4>1, <4>2
    <3> QED BY <2>5, <3>1, <3>2, <3>3
  <2>7. Range(h) = {h[1]} \cup Range(Pop(h))
    <3>1. \A i \in 1 .. n : i = 1 \/ i \in 2 .. n
      OBVIOUS
    <3>2. 1 \in 1 .. n /\ \A i \in 2 .. n : i \in 1 .. n
      BY <1>1
    <3>3. Range(h) \subseteq {h[1]} \cup Range(Pop(h))
      BY <1>1, <2>6, <3>1 DEF Range
    <3>4. {h[1]} \cup Range(Pop(h)) \subseteq Range(h)
      <4>1. ASSUME NEW y \in Range(Pop(h)) PROVE y \in Range(h)
        BY <1>1, <2>6, <3>2 DEF Range
      <4> QED BY <1>1, <3>2, <4>1 DEF Range
    <3> QED BY <3>3, <3>4
  <2> QED BY <1>2, <2>1, <2>5, <2>7 DEF HeapOf
<1> QED BY <1>3, <1>4

\* The root comes first of all.
LEMMA RootLeast ==
  ASSUME NEW G, NEW S \in SUBSET Items, NEW h, HeapOf(G, S, h), NEW x \in Range(h)
  PROVE  h # << >> /\ h[1] \in Range(h) /\ Le(G, h[1], x)
<1> DEFINE n == Len(h)
           B == {i \in 1 .. n : ~Le(G, h[1], h[i])}
<1>1. h \in Seq(S) /\ Heaped(G, h) /\ n \in Nat /\ DOMAIN h = 1 .. n /\ \A i \in 1 .. n : h[i] \in Items
  BY DEF HeapOf
<1>2. PICK j \in 1 .. n : x = h[j]
  BY <1>1 DEF Range
<1>3. 1 \in 1 .. n /\ h # << >>
  BY <1>1, <1>2
<1>4. B = {}
  <2> SUFFICES ASSUME B # {} PROVE FALSE
    OBVIOUS
  <2>1. PICK i \in B : \A m \in B : i <= m
    <3> B \in SUBSET Nat
      OBVIOUS
    <3> HIDE DEF B
    <3> QED BY Least
  <2>2. i \in 1 .. n /\ i \in Nat /\ ~Le(G, h[1], h[i])
    OBVIOUS
  <2>3. i # 1
    BY <1>1, <1>3, <2>2, LeOrder
  <2>4. i \in 2 .. n /\ i \div 2 \in 1 .. n /\ i \div 2 < i
    BY <1>1, <2>2, <2>3, Half
  <2>5. i \div 2 \notin B
    <3>1. ~(i <= i \div 2)
      BY <2>2, <2>4
    <3> HIDE DEF B
    <3> QED BY <2>1, <3>1
  <2>6. Le(G, h[1], h[i \div 2]) /\ Le(G, h[i \div 2], h[i])
    BY <1>1, <2>4, <2>5 DEF Heaped
  <2>7. h[1] \in Items /\ h[i \div 2] \in Items /\ h[i] \in Items
    BY <1>1, <1>3, <2>2, <2>4
  <2> HIDE DEF B
  <2> QED BY <2>2, <2>6, <2>7, LeOrder
<1> QED BY <1>1, <1>2, <1>3, <1>4 DEF Range

\* The loop of DropKey.
DropStop(key) == {g \in Seq(Items) : ~(g # << >> /\ Head(g).key = key)}
PopEach == [g \in Seq(Items) |-> Pop(g)]
Itself == [g \in Seq(Items) |-> g]
Size == [g \in Seq(Items) |-> Len(g)]

\* It ends.
LEMMA DropFalls == ASSUME NEW key PROVE Falls(Seq(Items), DropStop(key), PopEach, Size)
<1>1. ASSUME NEW g \in Seq(Items), g \notin DropStop(key)
      PROVE  PopEach[g] \in Seq(Items) /\ Size[PopEach[g]] < Size[g]
  <2>1. g # << >> /\ Len(g) \in Nat
    BY <1>1 DEF DropStop
  <2>2. Pop(g) \in Seq(Items) /\ Len(Pop(g)) = Len(g) - 1
    BY <2>1, PopType
  <2> QED BY <2>1, <2>2 DEF PopEach, Size
<1>2. \A g \in Seq(Items) : Size[g] \in Nat
  BY DEF Size
<1> QED BY <1>1, <1>2 DEF Falls

\* DropKey is that loop.
LEMMA DropKeyIs ==
  ASSUME NEW key
  PROVE  \E f : /\ Loop(Seq(Items), DropStop(key), Itself, PopEach, f)
                /\ \A h : DropKey(h, key) = f[h]
<1> DEFINE R(f) == f = [g \in Seq(Items) |->
                          IF g # << >> /\ Head(g).key = key THEN f[Pop(g)] ELSE g]
           L(f) == Loop(Seq(Items), DropStop(key), Itself, PopEach, f)
           d == CHOOSE f : R(f)
<1>1. ASSUME NEW f PROVE R(f) <=> L(f)
  <2>1. ASSUME NEW g \in Seq(Items)
        PROVE  (IF g \in DropStop(key) THEN Itself[g] ELSE f[PopEach[g]])
               = (IF g # << >> /\ Head(g).key = key THEN f[Pop(g)] ELSE g)
    BY DEF DropStop, Itself, PopEach
  <2> QED BY <2>1 DEF Loop
<1>2. \E f : L(f)
  BY DropFalls, LoopExists
<1>3. \E f : R(f)
  BY <1>1, <1>2
<1>4. R(d)
  <2> HIDE DEF R
  <2> QED BY <1>3
<1>5. \A h : DropKey(h, key) = d[h]
  BY DEF DropKey
<1>6. L(d)
  <2> HIDE DEF d, R, L
  <2> QED BY <1>1, <1>4
<1> HIDE DEF d
<1> QED BY <1>5, <1>6

\* One turn of it.
LEMMA DropOnce ==
  ASSUME NEW h \in Seq(Items), NEW key
  PROVE  DropKey(h, key) = IF h # << >> /\ h[1].key = key THEN DropKey(Pop(h), key) ELSE h
<1>1. PICK f : /\ Loop(Seq(Items), DropStop(key), Itself, PopEach, f)
               /\ \A g : DropKey(g, key) = f[g]
  BY DropKeyIs
<1>2. f[h] = IF h \in DropStop(key) THEN Itself[h] ELSE f[PopEach[h]]
  BY <1>1 DEF Loop
<1>3. Itself[h] = h /\ PopEach[h] = Pop(h) /\ Head(h) = h[1]
  BY DEF Itself, PopEach
<1>4. h \in DropStop(key) <=> ~(h # << >> /\ h[1].key = key)
  BY <1>3 DEF DropStop
<1> QED BY <1>1, <1>2, <1>3, <1>4

\* What it leaves of any items.
LEMMA DropType ==
  ASSUME NEW G, NEW h \in Seq(Items), NEW key
  PROVE  DropKey(h, key) \in Seq(Items) /\ Len(DropKey(h, key)) <= Len(h)
<1> DEFINE I == {g \in Seq(Items) : Len(g) <= Len(h)}
<1>1. h \in I /\ I \in SUBSET Seq(Items)
  OBVIOUS
<1>2. ASSUME NEW g \in I, g \notin DropStop(key) PROVE PopEach[g] \in I
  <2>1. g \in Seq(Items) /\ Len(g) <= Len(h) /\ g # << >>
    BY <1>2 DEF DropStop
  <2>2. Pop(g) \in Seq(Items) /\ Len(Pop(g)) = Len(g) - 1
    BY <2>1, PopType
  <2>3. PopEach[g] = Pop(g)
    BY <2>1 DEF PopEach
  <2>4. Len(g) \in Nat /\ Len(h) \in Nat
    BY <2>1
  <2>5. Len(Pop(g)) <= Len(h)
    BY <2>1, <2>2, <2>4
  <2> QED BY <2>2, <2>3, <2>5
<1>3. PICK f : /\ Loop(Seq(Items), DropStop(key), Itself, PopEach, f)
               /\ \A g : DropKey(g, key) = f[g]
  BY DropKeyIs
<1>4. PICK e \in I : e \in DropStop(key) /\ f[h] = Itself[e]
  <2>1. \A g \in I : g \notin DropStop(key) => PopEach[g] \in I
    BY <1>2
  <2> HIDE DEF I
  <2> QED BY <1>1, <1>3, <2>1, DropFalls, LoopEnds
<1>5. DropKey(h, key) = e
  BY <1>3, <1>4 DEF Itself
<1> QED BY <1>5

-----------------------------------------------------------------------------
(* Which items the heap of an iterator holds.                              *)

\* Of the items in S those with a key in K, and no key without an item.
Holds(G, S, K, h) ==
  /\ HeapOf(G, S, h)
  /\ \A x : x \in Range(h) <=> x \in S /\ x.key \in K
  /\ \A k \in K : \E x \in S : x.key = k

\* An item that may come out first for a key: for one in G that from the newest table.
First(G, S, k, x) ==
  /\ x \in S /\ x.key = k
  /\ k \in G => \A y \in S : y.key = k => x.idx <= y.idx

\* The root is the first item of the least key.
LEMMA RootIs ==
  ASSUME NEW G, NEW S, Coherent(G, S), NEW K, NEW h, Holds(G, S, K, h), h # << >>
  PROVE  /\ h[1].key \in K /\ First(G, S, h[1].key, h[1])
         /\ \A k \in K : h[1].key <= k
<1>1. h \in Seq(S) /\ S \in SUBSET Items /\ HeapOf(G, S, h)
  BY DEF Holds, HeapOf, Coherent
<1>2. h[1] \in Range(h)
  <2>1. 1 \in DOMAIN h
    BY <1>1
  <2> QED BY <2>1 DEF Range
<1>3. h[1] \in S /\ h[1].key \in K
  BY <1>2 DEF Holds
<1>4. ASSUME NEW y \in S, y.key \in K PROVE Le(G, h[1], y)
  <2>1. y \in Range(h)
    BY <1>4 DEF Holds
  <2> QED BY <1>1, <2>1, RootLeast
<1>5. ASSUME NEW y \in S, y.key \in K
      PROVE  h[1].key <= y.key /\ (y.key = h[1].key /\ y.key \in G => h[1].idx <= y.idx)
  <2>1. PICK x \in Items : x = h[1]
    BY <1>1, <1>3
  <2>2. y \in Items
    BY <1>1
  <2>3. x.key \in Nat /\ x.idx \in Int /\ y.key \in Nat /\ y.idx \in Int
    BY <2>2, ItemFields
  <2>4. Le(G, x, y)
    BY <1>4, <1>5, <2>1
  <2>5. x.key <= y.key /\ (y.key = x.key /\ y.key \in G => x.idx <= y.idx)
    BY <2>3, <2>4 DEF Le
  <2> QED BY <2>1, <2>5
<1>6. \A k \in K : h[1].key <= k
  BY <1>5 DEF Holds
<1>7. First(G, S, h[1].key, h[1])
  BY <1>3, <1>5 DEF First
<1> QED BY <1>3, <1>6, <1>7

\* The heap is empty when there is no key.
LEMMA EmptyIs ==
  ASSUME NEW G, NEW S, NEW K, NEW h, Holds(G, S, K, h)
  PROVE  h = << >> <=> K = {}
<1>1. h \in Seq(S)
  BY DEF Holds, HeapOf
<1>2. ASSUME h = << >> PROVE K = {}
  <2>1. Range(h) = {}
    BY <1>2 DEF Range
  <2> QED BY <2>1 DEF Holds
<1>3. ASSUME h # << >> PROVE K # {}
  <2>1. 1 \in DOMAIN h
    BY <1>1, <1>3
  <2>2. h[1] \in Range(h)
    BY <2>1 DEF Range
  <2> QED BY <2>2 DEF Holds
<1> QED BY <1>2, <1>3

\* DropKey takes out the items of the least key.
LEMMA DropHolds ==
  ASSUME NEW G, NEW S, Coherent(G, S), NEW K, NEW h, Holds(G, S, K, h), NEW key \in Nat,
         \A k \in K : k \in Nat /\ key <= k
  PROVE  Holds(G, S, K \ {key}, DropKey(h, key))
<1> DEFINE R == {x \in S : x.key \in K \ {key}}
           In(g) == /\ HeapOf(G, S, g)
                    /\ R \subseteq Range(g)
                    /\ \A x \in Range(g) : x \in S /\ x.key \in K
           I == {g \in Seq(Items) : In(g)}
<1>1. S \in SUBSET Items /\ Seq(S) \subseteq Seq(Items)
  BY DEF Coherent
<1>2. I \in SUBSET Seq(Items)
  OBVIOUS
<1>3. h \in I
  <2>1. HeapOf(G, S, h) /\ h \in Seq(Items)
    BY <1>1 DEF Holds, HeapOf
  <2>2. \A x : x \in Range(h) <=> x \in S /\ x.key \in K
    BY DEF Holds
  <2> QED BY <2>1, <2>2
<1>4. ASSUME NEW g \in I, g \notin DropStop(key) PROVE PopEach[g] \in I
  <2>1. g \in Seq(Items) /\ In(g) /\ g # << >> /\ g[1].key = key
    BY <1>4 DEF DropStop
  <2>2. HeapOf(G, S, g)
    BY <2>1
  <2>3. HeapOf(G, S, Pop(g)) /\ Range(g) = {g[1]} \cup Range(Pop(g))
    <3> HIDE DEF I, In
    <3> QED BY <2>1, <2>2, PopIs
  <2>4. g[1] \notin R
    BY <2>1
  <2>5. In(Pop(g))
    BY <2>1, <2>3, <2>4
  <2>6. PopEach[g] = Pop(g) /\ Pop(g) \in Seq(Items)
    BY <1>1, <2>1, <2>3 DEF PopEach, HeapOf
  <2> QED BY <2>5, <2>6
<1>5. PICK f : /\ Loop(Seq(Items), DropStop(key), Itself, PopEach, f)
               /\ \A g : DropKey(g, key) = f[g]
  BY DropKeyIs
<1>6. PICK e \in I : e \in DropStop(key) /\ f[h] = Itself[e]
  <2>1. \A g \in I : g \notin DropStop(key) => PopEach[g] \in I
    BY <1>4
  <2> HIDE DEF I
  <2> QED BY <1>2, <1>3, <1>5, <2>1, DropFalls, LoopEnds
<1>7. DropKey(h, key) = e
  BY <1>5, <1>6 DEF Itself
<1>8. e \in Seq(Items) /\ In(e) /\ ~(e # << >> /\ e[1].key = key)
  BY <1>6 DEF DropStop
<1>9. ASSUME NEW x \in Range(e) PROVE x.key # key
  <2>1. e # << >> /\ e[1] \in Range(e) /\ Le(G, e[1], x)
    <3>1. HeapOf(G, S, e)
      BY <1>8
    <3> HIDE DEF I, In
    <3> QED BY <1>1, <3>1, RootLeast
  <2>2. e[1] \in S /\ e[1].key \in K /\ x \in S /\ e[1].key # key
    BY <1>8, <2>1
  <2>3. PICK y \in Items : y = e[1]
    BY <1>1, <2>2
  <2>4. x \in Items /\ y.key \in Nat /\ x.key \in Nat /\ key <= y.key /\ y.key # key
    BY <1>1, <2>2, <2>3, ItemFields
  <2>5. y.key <= x.key
    BY <2>1, <2>3, <2>4 DEF Le
  <2> QED BY <2>4, <2>5
<1>10. \A x : x \in Range(e) <=> x \in S /\ x.key \in K \ {key}
  BY <1>8, <1>9
<1>11. HeapOf(G, S, e)
  BY <1>8
<1>12. \A k \in K \ {key} : \E x \in S : x.key = k
  BY DEF Holds
<1> QED BY <1>7, <1>10, <1>11, <1>12 DEF Holds

\* Keys of items are numbers.
LEMMA KeysAre ==
  ASSUME NEW G, NEW S, Coherent(G, S), NEW K, NEW h, Holds(G, S, K, h)
  PROVE  \A k \in K : k \in Nat /\ k \in Key
<1>1. ASSUME NEW k \in K PROVE k \in Nat /\ k \in Key
  <2>1. PICK x \in S : x.key = k
    BY DEF Holds
  <2>2. x \in Items
    BY DEF Coherent
  <2> QED BY <2>1, <2>2, ItemFields
<1> QED BY <1>1

\* What the head of the heap is for.
LEMMA DropHead ==
  ASSUME NEW G, NEW S, Coherent(G, S), NEW K, NEW h, Holds(G, S, K, h), h # << >>
  PROVE  /\ Holds(G, S, K \ {h[1].key}, DropKey(h, h[1].key))
         /\ DropKey(Pop(h), h[1].key) = DropKey(h, h[1].key)
         /\ h[1].key \in K /\ First(G, S, h[1].key, h[1])
         /\ \A k \in K : h[1].key <= k
<1>1. /\ h[1].key \in K /\ First(G, S, h[1].key, h[1])
      /\ \A k \in K : h[1].key <= k
  BY RootIs
<1>2. PICK key \in Nat : key = h[1].key
  BY <1>1, KeysAre
<1>3. Holds(G, S, K \ {key}, DropKey(h, key))
  <2>1. \A k \in K : k \in Nat /\ key <= k
    BY <1>1, <1>2, KeysAre
  <2> QED BY <2>1, DropHolds
<1>4. h \in Seq(Items)
  BY DEF Holds, HeapOf, Coherent
<1>5. DropKey(h, key) = DropKey(Pop(h), key)
  BY <1>2, <1>4, DropOnce
<1> QED BY <1>1, <1>2, <1>3, <1>5

\* The loop of SkipDeleted.
SkipStop == {g \in Seq(Items) : ~(g # << >> /\ Head(g).value = 0)}
DropEach == [g \in Seq(Items) |-> DropKey(g, Head(g).key)]

\* It ends.
LEMMA SkipFalls == Falls(Seq(Items), SkipStop, DropEach, Size)
<1>1. ASSUME NEW g \in Seq(Items), g \notin SkipStop
      PROVE  DropEach[g] \in Seq(Items) /\ Size[DropEach[g]] < Size[g]
  <2>1. g # << >> /\ Len(g) \in Nat
    BY <1>1 DEF SkipStop
  <2>2. PICK key : key = g[1].key
    OBVIOUS
  <2>3. Pop(g) \in Seq(Items) /\ Len(Pop(g)) = Len(g) - 1
    BY <2>1, PopType
  <2>4. DropKey(g, key) = DropKey(Pop(g), key)
    BY <2>1, <2>2, DropOnce
  <2>5. PICK f : f = Pop(g) /\ f \in Seq(Items)
    BY <2>3
  <2>6. DropKey(f, key) \in Seq(Items) /\ Len(DropKey(f, key)) <= Len(f)
    BY <2>5, DropType
  <2>7. DropEach[g] = DropKey(f, key)
    BY <2>2, <2>4, <2>5 DEF DropEach
  <2>8. Len(DropKey(f, key)) < Len(g)
    <3>1. Len(f) = Len(g) - 1 /\ Len(f) \in Nat /\ Len(DropKey(f, key)) \in Nat
      BY <2>3, <2>5, <2>6
    <3> QED BY <2>1, <2>6, <3>1
  <2> QED BY <2>6, <2>7, <2>8 DEF Size
<1>2. \A g \in Seq(Items) : Size[g] \in Nat
  BY DEF Size
<1> QED BY <1>1, <1>2 DEF Falls

\* SkipDeleted is that loop.
LEMMA SkipDeletedIs ==
  \E f : /\ Loop(Seq(Items), SkipStop, Itself, DropEach, f)
         /\ \A h : SkipDeleted(h) = f[h]
<1> DEFINE R(f) == f = [g \in Seq(Items) |->
                          IF g # << >> /\ Head(g).value = 0
                          THEN f[DropKey(g, Head(g).key)] ELSE g]
           L(f) == Loop(Seq(Items), SkipStop, Itself, DropEach, f)
           d == CHOOSE f : R(f)
<1>1. ASSUME NEW G, NEW f PROVE R(f) <=> L(f)
  <2>1. ASSUME NEW g \in Seq(Items)
        PROVE  (IF g \in SkipStop THEN Itself[g] ELSE f[DropEach[g]])
               = (IF g # << >> /\ Head(g).value = 0 THEN f[DropKey(g, Head(g).key)] ELSE g)
    BY DEF SkipStop, Itself, DropEach
  <2> QED BY <2>1 DEF Loop
<1>2. \E f : L(f)
  BY SkipFalls, LoopExists
<1>3. \E f : R(f)
  BY <1>1, <1>2
<1>4. R(d)
  <2> HIDE DEF R
  <2> QED BY <1>3
<1>5. \A h : SkipDeleted(h) = d[h]
  BY DEF SkipDeleted
<1>6. L(d)
  <2> HIDE DEF d, R, L
  <2> QED BY <1>1, <1>4
<1> HIDE DEF d
<1> QED BY <1>5, <1>6

\* The first item of the key is a tombstone.
Dead(G, S, k) == \E x : First(G, S, k, x) /\ x.value = 0

\* A skip from the keys K stops at the keys R.
Skipped(G, S, K, R) ==
  /\ R \subseteq K
  /\ \A k \in K : k \notin R => Dead(G, S, k) /\ \A l \in R : k < l

\* SkipDeleted takes out the deleted keys before the first that is not.
LEMMA SkipHolds ==
  ASSUME NEW G, NEW S, Coherent(G, S), NEW K, NEW h, Holds(G, S, K, h)
  PROVE  \E R : /\ Skipped(G, S, K, R)
                /\ Holds(G, S, R, SkipDeleted(h))
                /\ SkipDeleted(h) # << >> => SkipDeleted(h)[1].value # 0
<1> DEFINE In(g) == \E R : Skipped(G, S, K, R) /\ Holds(G, S, R, g)
           I == {g \in Seq(Items) : In(g)}
<1>1. \A k \in K : k \in Nat
  BY KeysAre
<1>2. h \in I
  <2>1. h \in Seq(Items)
    BY DEF Holds, HeapOf, Coherent
  <2>2. Skipped(G, S, K, K)
    BY DEF Skipped
  <2> QED BY <2>1, <2>2
<1>3. ASSUME NEW g \in I, g \notin SkipStop PROVE DropEach[g] \in I
  <2>1. g \in Seq(Items) /\ g # << >> /\ g[1].value = 0
    BY <1>3 DEF SkipStop
  <2>2. PICK R : Skipped(G, S, K, R) /\ Holds(G, S, R, g)
    OBVIOUS
  <2>3. PICK key : key = g[1].key
    OBVIOUS
  <2>4. /\ Holds(G, S, R \ {key}, DropKey(g, key))
        /\ key \in R /\ First(G, S, key, g[1])
        /\ \A k \in R : key <= k
    BY <2>1, <2>2, <2>3, DropHead
  <2>5. \A k \in R : k \in K /\ k \in Nat
    BY <1>1, <2>2 DEF Skipped
  <2>6. Skipped(G, S, K, R \ {key})
    <3>1. Dead(G, S, key)
      BY <2>1, <2>4 DEF Dead
    <3>2. \A l \in R \ {key} : key < l
      BY <2>4, <2>5
    <3> QED BY <2>2, <3>1, <3>2 DEF Skipped
  <2>7. DropEach[g] = DropKey(g, key) /\ DropKey(g, key) \in Seq(Items)
    BY <2>1, <2>3, DropType DEF DropEach
  <2> QED BY <2>4, <2>6, <2>7
<1>4. PICK f : /\ Loop(Seq(Items), SkipStop, Itself, DropEach, f)
               /\ \A g : SkipDeleted(g) = f[g]
  BY SkipDeletedIs
<1>5. PICK e \in I : e \in SkipStop /\ f[h] = Itself[e]
  <2>1. \A g \in I : g \notin SkipStop => DropEach[g] \in I
    BY <1>3
  <2>2. I \in SUBSET Seq(Items)
    OBVIOUS
  <2> HIDE DEF I
  <2> QED BY <1>2, <1>4, <2>1, <2>2, SkipFalls, LoopEnds
<1>6. SkipDeleted(h) = e
  BY <1>4, <1>5 DEF Itself
<1>7. e # << >> => e[1].value # 0
  BY <1>5 DEF SkipStop
<1>8. PICK R : Skipped(G, S, K, R) /\ Holds(G, S, R, e)
  OBVIOUS
<1> QED BY <1>6, <1>7, <1>8

-----------------------------------------------------------------------------
(* The heap that is built from a vector.                                   *)

PushedTo(vec, n, g) ==
  g = [m \in 0 .. n |-> IF m = 0 THEN << >> ELSE Push(g[m - 1], vec[m])]

\* There is such a function.
LEMMA PushedExists ==
  ASSUME NEW vec PROVE \A n \in Nat : \E g : PushedTo(vec, n, g)
<1> DEFINE H == {n \in Nat : \E g : PushedTo(vec, n, g)}
<1>1. 0 \in H
  <2> DEFINE g == [m \in 0 .. 0 |-> << >>]
  <2>1. \A m \in 0 .. 0 : m = 0
    OBVIOUS
  <2>2. PushedTo(vec, 0, g)
    BY <2>1 DEF PushedTo
  <2> HIDE DEF g
  <2> QED BY <2>2
<1>2. ASSUME NEW n \in Nat, n \in H PROVE n + 1 \in H
  <2>1. PICK g : PushedTo(vec, n, g)
    BY <1>2
  <2> DEFINE h == [m \in 0 .. n + 1 |-> IF m = 0 THEN << >> ELSE Push(g[m - 1], vec[m])]
  <2>2. ASSUME NEW m \in 0 .. n PROVE h[m] = g[m]
    <3>1. m \in 0 .. n + 1
      OBVIOUS
    <3>2. h[m] = IF m = 0 THEN << >> ELSE Push(g[m - 1], vec[m])
      BY <3>1
    <3>3. g[m] = IF m = 0 THEN << >> ELSE Push(g[m - 1], vec[m])
      BY <2>1 DEF PushedTo
    <3> QED BY <3>2, <3>3
  <2>3. h = [m \in 0 .. n + 1 |-> IF m = 0 THEN << >> ELSE Push(g[m - 1], vec[m])]
    OBVIOUS
  <2> HIDE DEF h
  <2>4. ASSUME NEW m \in 0 .. n + 1, m # 0 PROVE g[m - 1] = h[m - 1]
    <3>1. m - 1 \in 0 .. n
      BY <2>4
    <3> QED BY <2>2, <3>1
  <2>5. PushedTo(vec, n + 1, h)
    BY <2>3, <2>4 DEF PushedTo
  <2> QED BY <2>5
<1> HIDE DEF H
<1>3. \A n \in Nat : n \in H
  BY <1>1, <1>2, NatInd
<1> QED BY <1>3 DEF H

\* PushAll makes a heap of all items of the vector.
LEMMA PushAllIs ==
  ASSUME NEW G, NEW S, Coherent(G, S), NEW vec \in Seq(S)
  PROVE  /\ HeapOf(G, S, PushAll(vec))
         /\ Range(PushAll(vec)) = Range(vec)
<1> DEFINE N == Len(vec)
           R(g) == PushedTo(vec, N, g)
           f == CHOOSE g : R(g)
<1>1. N \in Nat /\ DOMAIN vec = 1 .. N /\ \A i \in 1 .. N : vec[i] \in S
  OBVIOUS
<1>2. R(f)
  <2>1. \E g : R(g)
    BY <1>1, PushedExists
  <2> HIDE DEF R
  <2> QED BY <2>1
<1>3. PushAll(vec) = f[N]
  BY DEF PushAll, PushedTo
<1> HIDE DEF f, N
<1>4. \A m \in 0 .. N : f[m] = IF m = 0 THEN << >> ELSE Push(f[m - 1], vec[m])
  BY <1>2 DEF PushedTo
<1> DEFINE Upto(n) == {vec[i] : i \in 1 .. n}
           H == {n \in Nat : n <= N => HeapOf(G, S, f[n]) /\ Range(f[n]) = Upto(n)}
<1>5. 0 \in H
  <2>1. f[0] = << >>
    BY <1>1, <1>4
  <2>2. HeapOf(G, S, << >>) /\ Range(<< >>) = {}
    BY DEF HeapOf, Heaped, Range
  <2>3. Upto(0) = {}
    OBVIOUS
  <2> QED BY <2>1, <2>2, <2>3
<1>6. ASSUME NEW n \in Nat, n \in H PROVE n + 1 \in H
  <2>1. SUFFICES ASSUME n + 1 <= N PROVE HeapOf(G, S, f[n + 1]) /\ Range(f[n + 1]) = Upto(n + 1)
    OBVIOUS
  <2>2. n + 1 \in 0 .. N /\ n + 1 # 0 /\ n <= N /\ (n + 1) - 1 = n /\ n + 1 \in 1 .. N
    BY <1>1, <2>1
  <2>3. f[n + 1] = Push(f[n], vec[n + 1])
    BY <1>4, <2>2
  <2>4. HeapOf(G, S, f[n]) /\ Range(f[n]) = Upto(n)
    BY <1>6, <2>2
  <2>5. PICK h, x : h = f[n] /\ x = vec[n + 1] /\ x \in S
    BY <1>1, <2>2
  <2>6. HeapOf(G, S, Push(h, x)) /\ Range(Push(h, x)) = Range(h) \cup {x}
    <3> HIDE DEF H, Upto
    <3> QED BY <2>4, <2>5, PushIs
  <2>7. Upto(n + 1) = Upto(n) \cup {vec[n + 1]}
    <3>1. \A i \in 1 .. n + 1 : i \in 1 .. n \/ i = n + 1
      OBVIOUS
    <3>2. n + 1 \in 1 .. n + 1 /\ \A i \in 1 .. n : i \in 1 .. n + 1
      OBVIOUS
    <3> QED BY <3>1, <3>2
  <2> QED BY <2>3, <2>4, <2>5, <2>6, <2>7
<1>7. N \in H
  <2> HIDE DEF H
  <2>1. \A n \in Nat : n \in H
    BY <1>5, <1>6, NatInd
  <2> QED BY <1>1, <2>1
<1>8. HeapOf(G, S, f[N]) /\ Range(f[N]) = Upto(N)
  BY <1>1, <1>7
<1>9. Upto(N) = Range(vec)
  BY <1>1 DEF Range
<1> QED BY <1>3, <1>8, <1>9

-----------------------------------------------------------------------------
(* The items of the tables.                                                *)

\* The item of a key of table i in a merge of SSTs, or in a scan.
Item(i, k, sst) ==
  [key |-> k, value |-> tbls[i].map[k].value,
   tranc_id |-> IF sst THEN 0 ELSE tbls[i].map[k].tranc_id,
   idx |-> IF sst THEN SstIndex(i) ELSE i - 1]
AllItems(sst) ==
  {x \in Items : \E i \in DOMAIN tbls, k \in Key : tbls[i].map[k] # None /\ x = Item(i, k, sst)}

\* The keys whose items come out in the order of the tables: in a merge all, as SSTs
\* do not have ids, in a scan those with their ids in step.
Stepped(sst) == IF sst THEN Key ELSE {k \in Key : InStep(k)}

\* Every table stores finitely many keys.
Finite == \A i \in DOMAIN tbls : IsFiniteSet({k \in Key : tbls[i].map[k] # None})

\* In a merge the heap h holds all items of the keys K, which come after those already
\* shown, and the next key is one to be shown.
MergedKeys == {k \in Stored : k \in Live \/ k = Min(Stored)}
Ready(K, h, shown) ==
  /\ Holds(Stepped(TRUE), AllItems(TRUE), K, h)
  /\ shown = Shown(MergedKeys \ K)
  /\ \A k \in MergedKeys \ K, l \in K : k < l
  /\ h # << >> => h[1].key \in MergedKeys

\* In a scan it does too.  What has been shown rises and may be shown, and every live
\* key in step is among it or still to come.
Scanned(id, K, h, shown) ==
  /\ Holds(Stepped(FALSE), AllItems(FALSE), K, h)
  /\ shown \in Seq(Pair)
  /\ \A i, j \in DOMAIN shown : i < j => shown[i].key < shown[j].key
  /\ \A i \in DOMAIN shown :
       /\ \A l \in K : shown[i].key < l
       /\ Showable(shown[i])
       /\ id = 0 => shown[i].value # 0
  /\ \A k \in Live : InStep(k) => k \in K \/ \E i \in DOMAIN shown : shown[i].key = k
  /\ id = 0 /\ h # << >> => h[1].value # 0

Ahead ==
  /\ scanning = "none" => heap = << >> /\ emitted = << >> /\ max_tranc_id = 0
  /\ scanning = "merge" => max_tranc_id = 0 /\ \E K : Ready(K, heap, emitted)
  /\ scanning = "scan" => \E K : Scanned(max_tranc_id, K, heap, emitted)

\* What is stored under a key.
LEMMA EntryIs ==
  ASSUME TypeOK, NEW i \in DOMAIN tbls, NEW k \in Key, tbls[i].map[k] # None
  PROVE  /\ tbls[i].map[k].value \in Value /\ tbls[i].map[k].tranc_id \in TrancId
         /\ tbls[i].map[k].value \in Nat /\ tbls[i].map[k].tranc_id \in Nat
<1>1. tbls[i] \in TableType
  BY DEF TypeOK
<1>2. tbls[i].map[k] \in Entry
  BY <1>1 DEF TableType, Map
<1> QED BY <1>2, TableAssumption DEF Entry

\* The indices of the tables.
LEMMA TablesAre ==
  ASSUME TypeOK
  PROVE  /\ DOMAIN tbls = 1 .. Len(tbls) /\ Len(tbls) \in Nat /\ Len(tbls) >= 1
         /\ Len(tbls) <= MaxTables /\ MaxTables \in Nat
         /\ \A i \in DOMAIN tbls :
               /\ i \in Nat
               /\ i - 1 \in 0 .. MaxTables - 1
               /\ SstIndex(i) \in 1 - MaxTables .. 0
               /\ i - 1 \in Int /\ SstIndex(i) \in Int
<1>1. /\ DOMAIN tbls = 1 .. Len(tbls) /\ Len(tbls) \in Nat /\ Len(tbls) >= 1
      /\ Len(tbls) <= MaxTables /\ MaxTables \in Nat
  BY HeapIteratorAssumption DEF TypeOK
<1> QED BY <1>1 DEF SstIndex

\* They are items.
LEMMA ItemType ==
  ASSUME TypeOK, NEW i \in DOMAIN tbls, NEW k \in Key, tbls[i].map[k] # None,
         NEW sst \in BOOLEAN
  PROVE  Item(i, k, sst) \in Items /\ Item(i, k, sst) \in AllItems(sst)
<1>1. Item(i, k, sst) \in Items
  BY EntryIs, TablesAre, TableAssumption DEF Item, Items
<1> QED BY <1>1 DEF AllItems

\* The items of a table, in the order of their keys.
LEMMA ItemsOfIs ==
  ASSUME TypeOK, Finite, NEW i \in DOMAIN tbls, NEW idx \in Int
  PROVE  /\ ItemsOf(tbls[i].map, idx) \in Seq(Items)
         /\ \A x : x \in Range(ItemsOf(tbls[i].map, idx)) <=>
                     \E k \in Key : /\ tbls[i].map[k] # None
                                    /\ x = [key |-> k, value |-> tbls[i].map[k].value,
                                            tranc_id |-> tbls[i].map[k].tranc_id, idx |-> idx]
<1> DEFINE K == {k \in Key : tbls[i].map[k] # None}
           s == Ascending(K)
           At(k) == [key |-> k, value |-> tbls[i].map[k].value,
                     tranc_id |-> tbls[i].map[k].tranc_id, idx |-> idx]
           v == ItemsOf(tbls[i].map, idx)
<1>1. K \in SUBSET Nat /\ IsFiniteSet(K)
  BY TableAssumption DEF Finite
<1>2. s \in Seq(K) /\ Range(s) = K
  <2> HIDE DEF K
  <2> QED BY <1>1, AscendingIs
<1>3. v = [j \in DOMAIN s |-> At(s[j])]
  BY DEF ItemsOf
<1>4. \A k \in K : At(k) \in Items
  BY EntryIs DEF Items
<1> HIDE DEF s, v, At, K
<1>5. Len(s) \in Nat /\ DOMAIN s = 1 .. Len(s) /\ \A j \in DOMAIN s : s[j] \in K
  BY <1>2
<1>6. v \in Seq(Items) /\ DOMAIN v = DOMAIN s /\ \A j \in DOMAIN s : v[j] = At(s[j])
  <2>1. v \in [1 .. Len(s) -> Items]
    BY <1>3, <1>4, <1>5
  <2> QED BY <1>3, <1>5, <2>1
<1>7. ASSUME NEW x PROVE x \in Range(v) <=> \E k \in K : x = At(k)
  <2>1. ASSUME x \in Range(v) PROVE \E k \in K : x = At(k)
    BY <1>5, <1>6, <2>1 DEF Range
  <2>2. ASSUME NEW k \in K, x = At(k) PROVE x \in Range(v)
    <3>1. PICK j \in DOMAIN s : s[j] = k
      BY <1>2 DEF Range
    <3> QED BY <1>6, <2>2, <3>1 DEF Range
  <2> QED BY <2>1, <2>2
<1> QED BY <1>6, <1>7 DEF v, K, At

\* The items of a scan.
LEMMA ItemVectorIs ==
  ASSUME TypeOK, Finite
  PROVE  ItemVector(tbls) \in Seq(AllItems(FALSE)) /\ Range(ItemVector(tbls)) = AllItems(FALSE)
<1> DEFINE s == [i \in DOMAIN tbls |-> ItemsOf(tbls[i].map, i - 1)]
<1>1. ItemVector(tbls) = FlattenSeq(s)
  BY DEF ItemVector
<1>2. s \in Seq(Seq(Items)) /\ DOMAIN s = DOMAIN tbls
  <2>1. \A i \in DOMAIN tbls : ItemsOf(tbls[i].map, i - 1) \in Seq(Items)
    BY TablesAre, ItemsOfIs
  <2>2. s \in [1 .. Len(tbls) -> Seq(Items)]
    BY <2>1, TablesAre
  <2> QED BY <2>2, TablesAre
<1>3. \A i \in DOMAIN tbls : s[i] = ItemsOf(tbls[i].map, i - 1)
  OBVIOUS
<1> HIDE DEF s
<1>4. \A x : x \in Range(FlattenSeq(s)) <=> \E i \in DOMAIN s : x \in Range(s[i])
  BY <1>2, FlatRange
<1>5. FlattenSeq(s) \in Seq(Items)
  BY <1>2, FlatType
<1>6. ASSUME NEW i \in DOMAIN tbls, NEW x
      PROVE  x \in Range(s[i]) <=>
               \E k \in Key : tbls[i].map[k] # None /\ x = Item(i, k, FALSE)
  <2>1. i - 1 \in Int
    BY TablesAre
  <2> QED BY <1>3, <2>1, ItemsOfIs DEF Item
<1>7. Range(FlattenSeq(s)) = AllItems(FALSE)
  <2>1. \A x : x \in AllItems(FALSE) <=>
               \E i \in DOMAIN tbls, k \in Key : tbls[i].map[k] # None /\ x = Item(i, k, FALSE)
    BY ItemType DEF AllItems
  <2>2. ASSUME NEW x \in Range(FlattenSeq(s)) PROVE x \in AllItems(FALSE)
    <3>1. PICK i \in DOMAIN tbls : x \in Range(s[i])
      BY <1>2, <1>4
    <3>2. \E k \in Key : tbls[i].map[k] # None /\ x = Item(i, k, FALSE)
      BY <1>6, <3>1
    <3> QED BY <2>1, <3>2
  <2>3. ASSUME NEW x \in AllItems(FALSE) PROVE x \in Range(FlattenSeq(s))
    <3>1. PICK i \in DOMAIN tbls, k \in Key : tbls[i].map[k] # None /\ x = Item(i, k, FALSE)
      BY <2>1
    <3>2. x \in Range(s[i])
      BY <1>6, <3>1
    <3> QED BY <1>2, <1>4, <3>2
  <2> QED BY <2>2, <2>3
<1>8. FlattenSeq(s) \in Seq(Range(FlattenSeq(s)))
  BY <1>5, SeqOfRange
<1> QED BY <1>1, <1>7, <1>8

\* The items of a merge, in either order of the SSTs.
LEMMA SstItemsAre ==
  ASSUME TypeOK, Finite, NEW order \in Seq(DOMAIN tbls), Range(order) = DOMAIN tbls
  PROVE  SstItems(order) \in Seq(AllItems(TRUE)) /\ Range(SstItems(order)) = AllItems(TRUE)
<1> DEFINE Of(i) == LET items == ItemsOf(tbls[i].map, SstIndex(i))
                    IN  [n \in DOMAIN items |-> [items[n] EXCEPT !.tranc_id = 0]]
           s == [j \in DOMAIN order |-> Of(order[j])]
<1>1. SstItems(order) = FlattenSeq(s)
  BY DEF SstItems
<1>2. ASSUME NEW i \in DOMAIN tbls
      PROVE  /\ Of(i) \in Seq(Items)
             /\ \A x : x \in Range(Of(i)) <=>
                         \E k \in Key : tbls[i].map[k] # None /\ x = Item(i, k, TRUE)
  <2> DEFINE v == ItemsOf(tbls[i].map, SstIndex(i))
             w == Of(i)
             At(k) == [key |-> k, value |-> tbls[i].map[k].value,
                       tranc_id |-> tbls[i].map[k].tranc_id, idx |-> SstIndex(i)]
  <2>1. SstIndex(i) \in Int
    BY TablesAre
  <2>2. /\ v \in Seq(Items)
        /\ \A x : x \in Range(v) <=> \E k \in Key : tbls[i].map[k] # None /\ x = At(k)
    BY <2>1, ItemsOfIs
  <2>3. w = [n \in DOMAIN v |-> [v[n] EXCEPT !.tranc_id = 0]]
    OBVIOUS
  <2> HIDE DEF v, w
  <2>4. ASSUME NEW n \in DOMAIN v
        PROVE  [v[n] EXCEPT !.tranc_id = 0] \in Items
    <3>1. v[n] \in Items /\ 0 \in TrancId
      BY <2>2, TableAssumption
    <3> QED BY <3>1 DEF Items
  <2>5. w \in Seq(Items) /\ DOMAIN w = DOMAIN v
    <3>1. DOMAIN v = 1 .. Len(v) /\ Len(v) \in Nat
      BY <2>2
    <3>2. w \in [1 .. Len(v) -> Items]
      BY <2>3, <2>4, <3>1
    <3> QED BY <2>3, <3>1, <3>2
  <2>6. \A k : [At(k) EXCEPT !.tranc_id = 0] = Item(i, k, TRUE)
    BY DEF Item
  <2> HIDE DEF At
  <2>7. ASSUME NEW x, x \in Range(w)
        PROVE \E k \in Key : tbls[i].map[k] # None /\ x = Item(i, k, TRUE)
    <3>1. PICK n \in DOMAIN v : x = [v[n] EXCEPT !.tranc_id = 0]
      BY <2>3, <2>7 DEF Range
    <3>2. v[n] \in Range(v)
      BY DEF Range
    <3>3. PICK k \in Key : tbls[i].map[k] # None /\ v[n] = At(k)
      BY <2>2, <3>2
    <3> QED BY <2>6, <3>1, <3>3
  <2>8. ASSUME NEW k \in Key, tbls[i].map[k] # None PROVE Item(i, k, TRUE) \in Range(w)
    <3>1. At(k) \in Range(v)
      BY <2>2, <2>8
    <3>2. PICK n \in DOMAIN v : v[n] = At(k)
      BY <3>1 DEF Range
    <3>3. w[n] = Item(i, k, TRUE)
      BY <2>3, <2>6, <3>2
    <3> QED BY <2>5, <3>3 DEF Range
  <2>9. w = Of(i)
    BY DEF w
  <2> HIDE DEF Of
  <2>10. \A x : x \in Range(w) <=> \E k \in Key : tbls[i].map[k] # None /\ x = Item(i, k, TRUE)
    BY <2>7, <2>8
  <2> QED BY <2>5, <2>9, <2>10
<1>3. s = [j \in DOMAIN order |-> Of(order[j])]
  OBVIOUS
<1> HIDE DEF Of, s
<1>4. \A j \in DOMAIN order : order[j] \in DOMAIN tbls
  OBVIOUS
<1>5. s \in Seq(Seq(Items)) /\ DOMAIN s = DOMAIN order
  <2>1. DOMAIN order = 1 .. Len(order) /\ Len(order) \in Nat
    OBVIOUS
  <2>2. s \in [1 .. Len(order) -> Seq(Items)]
    BY <1>2, <1>3, <1>4, <2>1
  <2> QED BY <1>3, <2>1, <2>2
<1>6. \A x : x \in Range(FlattenSeq(s)) <=> \E j \in DOMAIN s : x \in Range(s[j])
  BY <1>5, FlatRange
<1>7. FlattenSeq(s) \in Seq(Items)
  BY <1>5, FlatType
<1>8. Range(FlattenSeq(s)) = AllItems(TRUE)
  <2>1. \A x : x \in AllItems(TRUE) <=>
               \E i \in DOMAIN tbls, k \in Key : tbls[i].map[k] # None /\ x = Item(i, k, TRUE)
    BY ItemType DEF AllItems
  <2>2. \A i \in DOMAIN tbls : \E j \in DOMAIN order : order[j] = i
    BY DEF Range
  <2>3. ASSUME NEW x PROVE x \in Range(FlattenSeq(s)) <=> \E i \in DOMAIN tbls : x \in Range(Of(i))
    BY <1>3, <1>4, <1>5, <1>6, <2>2
  <2>4. ASSUME NEW x \in Range(FlattenSeq(s)) PROVE x \in AllItems(TRUE)
    <3>1. PICK i \in DOMAIN tbls : x \in Range(Of(i))
      BY <2>3
    <3>2. \E k \in Key : tbls[i].map[k] # None /\ x = Item(i, k, TRUE)
      BY <1>2, <3>1
    <3> QED BY <2>1, <3>2
  <2>5. ASSUME NEW x \in AllItems(TRUE) PROVE x \in Range(FlattenSeq(s))
    <3>1. PICK i \in DOMAIN tbls, k \in Key : tbls[i].map[k] # None /\ x = Item(i, k, TRUE)
      BY <2>1
    <3>2. x \in Range(Of(i))
      BY <1>2, <3>1
    <3> QED BY <2>3, <3>2
  <2> QED BY <2>4, <2>5
<1>9. FlattenSeq(s) \in Seq(Range(FlattenSeq(s)))
  BY <1>7, SeqOfRange
<1> QED BY <1>1, <1>8, <1>9

\* What an item says.
LEMMA ItemOf ==
  ASSUME TypeOK, NEW sst \in BOOLEAN, NEW x \in AllItems(sst)
  PROVE  \E i \in DOMAIN tbls :
            /\ x.key \in Key /\ tbls[i].map[x.key] # None /\ x = Item(i, x.key, sst)
            /\ x.value = tbls[i].map[x.key].value
            /\ x.tranc_id = (IF sst THEN 0 ELSE tbls[i].map[x.key].tranc_id)
            /\ x.idx = (IF sst THEN i - MaxTables ELSE i - 1)
<1>1. PICK i \in DOMAIN tbls, k \in Key : tbls[i].map[k] # None /\ x = Item(i, k, sst)
  BY DEF AllItems
<1>2. /\ x.key = k /\ x.value = tbls[i].map[k].value
      /\ x.tranc_id = (IF sst THEN 0 ELSE tbls[i].map[k].tranc_id)
      /\ x.idx = (IF sst THEN SstIndex(i) ELSE i - 1)
  BY <1>1 DEF Item
<1>3. SstIndex(i) = i - MaxTables
  BY TablesAre DEF SstIndex
<1> QED BY <1>1, <1>2, <1>3

\* Of two copies of such a key the one in the newer table has no smaller id.
LEMMA AllCoherent ==
  ASSUME TypeOK, NEW sst \in BOOLEAN
  PROVE  Coherent(Stepped(sst), AllItems(sst))
<1>1. AllItems(sst) \subseteq Items
  BY DEF AllItems
<1>2. ASSUME NEW a \in AllItems(sst), NEW b \in AllItems(sst), a.key \in Stepped(sst),
             a.key = b.key
      PROVE  /\ a.idx < b.idx => a.tranc_id >= b.tranc_id
             /\ a.idx = b.idx => a.tranc_id = b.tranc_id
  <2>1. PICK i \in DOMAIN tbls :
            /\ a.key \in Key /\ tbls[i].map[a.key] # None
            /\ a.tranc_id = (IF sst THEN 0 ELSE tbls[i].map[a.key].tranc_id)
            /\ a.idx = (IF sst THEN i - MaxTables ELSE i - 1)
    BY ItemOf
  <2>2. PICK j \in DOMAIN tbls :
            /\ tbls[j].map[a.key] # None
            /\ b.tranc_id = (IF sst THEN 0 ELSE tbls[j].map[a.key].tranc_id)
            /\ b.idx = (IF sst THEN j - MaxTables ELSE j - 1)
    BY <1>2, ItemOf
  <2>3. i \in Nat /\ j \in Nat /\ MaxTables \in Nat
    BY TablesAre
  <2>4. (a.idx < b.idx <=> i < j) /\ (a.idx = b.idx <=> i = j)
    BY <2>1, <2>2, <2>3
  <2>5. i < j => a.tranc_id >= b.tranc_id
    <3>1. CASE sst
      <4>1. a.tranc_id = 0 /\ b.tranc_id = 0
        BY <2>1, <2>2, <3>1
      <4> QED BY <4>1
    <3>2. CASE ~sst
      <4>1. a.tranc_id = tbls[i].map[a.key].tranc_id /\ b.tranc_id = tbls[j].map[a.key].tranc_id
        BY <2>1, <2>2, <3>2
      <4>2. InStep(a.key)
        BY <1>2, <3>2 DEF Stepped
      <4> QED BY <2>1, <2>2, <4>1, <4>2 DEF InStep
    <3> QED BY <3>1, <3>2
  <2>6. i = j => a.tranc_id = b.tranc_id
    BY <2>1, <2>2
  <2> QED BY <2>4, <2>5, <2>6
<1> QED BY <1>1, <1>2 DEF Coherent

\* Every item holds what some table does.
LEMMA FirstIsStored ==
  ASSUME TypeOK, NEW sst \in BOOLEAN, NEW G, NEW k, NEW x, First(G, AllItems(sst), k, x)
  PROVE  /\ k \in Key /\ k \in Stored /\ x.key = k /\ x.value \in Value
         /\ \E i \in DOMAIN tbls : tbls[i].map[k] # None /\ tbls[i].map[k].value = x.value
<1>1. x \in AllItems(sst) /\ x.key = k
  BY DEF First
<1>2. PICK i \in DOMAIN tbls :
          k \in Key /\ tbls[i].map[k] # None /\ x.value = tbls[i].map[k].value
  BY <1>1, ItemOf
<1> QED BY <1>1, <1>2, EntryIs DEF Stored

\* For such a key get finds what the first item holds.
LEMMA FirstIsNewest ==
  ASSUME TypeOK, NEW sst \in BOOLEAN, NEW k \in Stepped(sst), NEW x,
         First(Stepped(sst), AllItems(sst), k, x)
  PROVE  k \in Key /\ k \in Stored /\ x.value = Newest(k) /\ x.key = k
<1>1. x \in AllItems(sst) /\ x.key = k
  BY DEF First
<1>2. PICK i \in DOMAIN tbls :
          /\ k \in Key /\ tbls[i].map[k] # None
          /\ x.value = tbls[i].map[k].value
          /\ x.idx = (IF sst THEN i - MaxTables ELSE i - 1)
  BY <1>1, ItemOf
<1> DEFINE hits == {j \in DOMAIN tbls : tbls[j].map[k] # None}
<1>3. i \in hits /\ hits # {}
  BY <1>2
<1>4. ASSUME NEW j \in hits PROVE i <= j /\ i \in Nat /\ j \in Nat
  <2>1. Item(j, k, sst) \in AllItems(sst)
    BY <1>2, ItemType
  <2>2. /\ Item(j, k, sst).key = k
        /\ Item(j, k, sst).idx = (IF sst THEN SstIndex(j) ELSE j - 1)
    BY DEF Item
  <2>3. x.idx <= Item(j, k, sst).idx
    BY <2>1, <2>2 DEF First
  <2>4. i \in Nat /\ j \in Nat /\ MaxTables \in Nat
    BY TablesAre
  <2> QED BY <1>2, <2>2, <2>3, <2>4 DEF SstIndex
<1>5. Min(hits) = i
  <2>1. \A j \in hits : i <= j /\ i \in Nat /\ j \in Nat
    BY <1>4
  <2>2. PICK m : m = Min(hits)
    OBVIOUS
  <2> HIDE DEF hits
  <2>3. m \in hits /\ \A j \in hits : m <= j
    BY <1>3, <2>1, <2>2 DEF Min
  <2> QED BY <1>3, <2>1, <2>2, <2>3
<1>6. Newest(k) = tbls[i].map[k].value
  <2>1. Newest(k) = IF hits = {} THEN 0 ELSE tbls[Min(hits)].map[k].value
    BY DEF Newest
  <2> HIDE DEF hits
  <2> QED BY <1>3, <1>5, <2>1
<1>7. k \in Stored
  BY <1>2 DEF Stored
<1> QED BY <1>1, <1>2, <1>6, <1>7

\* The keys of the items are those stored.
LEMMA KeysOfAll ==
  ASSUME TypeOK, NEW sst \in BOOLEAN
  PROVE  /\ \A x \in AllItems(sst) : x.key \in Stored
         /\ \A k \in Stored : \E x \in AllItems(sst) : x.key = k
<1>1. \A x \in AllItems(sst) : x.key \in Stored
  BY ItemOf DEF Stored
<1>2. ASSUME NEW k \in Stored PROVE \E x \in AllItems(sst) : x.key = k
  <2>1. PICK i \in DOMAIN tbls : k \in Key /\ tbls[i].map[k] # None
    BY DEF Stored
  <2>2. Item(i, k, sst) \in AllItems(sst) /\ Item(i, k, sst).key = k
    BY <2>1, ItemType DEF Item
  <2> QED BY <2>2
<1> QED BY <1>1, <1>2

\* What is stored is finite, and get finds a value for it.
LEMMA StoredIs ==
  ASSUME TypeOK, Finite
  PROVE  /\ Stored \subseteq Key /\ Stored \in SUBSET Nat /\ IsFiniteSet(Stored)
         /\ \A k \in Stored : Newest(k) \in Value
         /\ Live \subseteq Stored
<1>1. Stored \subseteq Key /\ Stored \in SUBSET Nat /\ Live \subseteq Stored
  BY TableAssumption DEF Stored, Live
<1>2. IsFiniteSet(Stored)
  <2> DEFINE K(i) == {k \in Key : tbls[i].map[k] # None}
             n == Len(tbls)
             U(m) == UNION {K(i) : i \in 1 .. m}
             H == {m \in Nat : m <= n => IsFiniteSet(U(m))}
  <2>1. n \in Nat /\ DOMAIN tbls = 1 .. n /\ \A i \in 1 .. n : IsFiniteSet(K(i))
    BY TablesAre DEF Finite
  <2>2. 0 \in H
    <3>1. U(0) = {}
      OBVIOUS
    <3> QED BY <3>1, FS_EmptySet
  <2>3. ASSUME NEW m \in Nat, m \in H PROVE m + 1 \in H
    <3>1. SUFFICES ASSUME m + 1 <= n PROVE IsFiniteSet(U(m + 1))
      OBVIOUS
    <3>2. m <= n /\ m + 1 \in 1 .. n
      BY <2>1, <3>1
    <3>3. IsFiniteSet(U(m)) /\ IsFiniteSet(K(m + 1))
      BY <2>1, <2>3, <3>2
    <3>4. U(m + 1) = U(m) \cup K(m + 1)
      <4>1. \A i \in 1 .. m + 1 : i \in 1 .. m \/ i = m + 1
        OBVIOUS
      <4>2. m + 1 \in 1 .. m + 1 /\ \A i \in 1 .. m : i \in 1 .. m + 1
        OBVIOUS
      <4> HIDE DEF K
      <4> QED BY <4>1, <4>2
    <3>5. PICK a, b : a = U(m) /\ b = K(m + 1)
      OBVIOUS
    <3> HIDE DEF U, K
    <3>6. IsFiniteSet(a) /\ IsFiniteSet(b)
      BY <3>3, <3>5
    <3>7. IsFiniteSet(a \cup b)
      BY <3>6, FS_Union
    <3> QED BY <3>4, <3>5, <3>7
  <2>4. n \in H
    <3> HIDE DEF H
    <3>1. \A m \in Nat : m \in H
      BY <2>2, <2>3, NatInd
    <3> QED BY <2>1, <3>1
  <2>5. Stored = U(n)
    BY <2>1 DEF Stored
  <2>6. IsFiniteSet(U(n))
    BY <2>1, <2>4
  <2> QED BY <2>5, <2>6
<1>3. ASSUME NEW k \in Stored PROVE Newest(k) \in Value
  <2> DEFINE hits == {j \in DOMAIN tbls : tbls[j].map[k] # None}
  <2>1. k \in Key /\ hits # {}
    BY DEF Stored
  <2>2. hits \in SUBSET Nat
    BY TablesAre
  <2>3. Min(hits) \in hits
    <3> HIDE DEF hits
    <3>1. \E i \in hits : \A j \in hits : i <= j
      BY <2>1, <2>2, Least
    <3> QED BY <3>1 DEF Min
  <2>4. Newest(k) = tbls[Min(hits)].map[k].value
    BY <2>1 DEF Newest
  <2>5. tbls[Min(hits)].map[k].value \in Value
    <3>1. PICK m \in DOMAIN tbls : m = Min(hits) /\ tbls[m].map[k] # None
      BY <2>3
    <3> HIDE DEF hits
    <3> QED BY <2>1, <3>1, EntryIs
  <2> QED BY <2>4, <2>5
<1> QED BY <1>1, <1>2, <1>3

-----------------------------------------------------------------------------
(* What a client is shown.                                                 *)

\* The pairs of the keys, in ascending order.
LEMMA ShownIs ==
  ASSUME NEW K \in SUBSET Nat, IsFiniteSet(K)
  PROVE  /\ DOMAIN Shown(K) = DOMAIN Ascending(K)
         /\ \A i \in DOMAIN Ascending(K) :
               Shown(K)[i] = [key |-> Ascending(K)[i], value |-> Newest(Ascending(K)[i])]
         /\ Shown(K) \in Seq([key : K, value : {Newest(k) : k \in K}])
         /\ Len(Shown(K)) = Len(Ascending(K))
<1> DEFINE s == Ascending(K)
           T == [key : K, value : {Newest(k) : k \in K}]
<1>1. s \in Seq(K)
  BY AscendingIs
<1>2. Shown(K) = [i \in DOMAIN s |-> [key |-> s[i], value |-> Newest(s[i])]]
  BY DEF Shown
<1> HIDE DEF s
<1>3. \A i \in DOMAIN s : [key |-> s[i], value |-> Newest(s[i])] \in T
  <2>1. \A k \in K : [key |-> k, value |-> Newest(k)] \in T
    OBVIOUS
  <2>2. \A i \in DOMAIN s : s[i] \in K
    BY <1>1
  <2> HIDE DEF T
  <2> QED BY <2>1, <2>2
<1> HIDE DEF T
<1>4. Shown(K) \in [1 .. Len(s) -> T] /\ Len(s) \in Nat /\ DOMAIN s = 1 .. Len(s)
  BY <1>1, <1>2, <1>3
<1>5. Shown(K) \in Seq(T) /\ Len(Shown(K)) = Len(s)
  BY <1>4
<1> QED BY <1>2, <1>5 DEF s, T

\* The sequence of the pairs shown for keys of the tables.
LEMMA ShownType ==
  ASSUME TypeOK, Finite, NEW K \in SUBSET Stored
  PROVE  /\ Shown(K) \in Seq(Pair) /\ IsFiniteSet(K) /\ K \in SUBSET Nat
<1>1. /\ Stored \subseteq Key /\ Stored \in SUBSET Nat /\ IsFiniteSet(Stored)
      /\ \A k \in Stored : Newest(k) \in Value
  BY StoredIs
<1>2. IsFiniteSet(K) /\ K \in SUBSET Nat
  BY <1>1, FS_Subset
<1>3. Shown(K) \in Seq([key : K, value : {Newest(k) : k \in K}])
  BY <1>2, ShownIs
<1>4. [key : K, value : {Newest(k) : k \in K}] \subseteq Pair
  BY <1>1 DEF Pair
<1>5. Shown(K) \in Seq(Pair)
  BY <1>3, <1>4, SeqWider
<1> QED BY <1>2, <1>5

\* No key, no pair.
LEMMA ShownNone == Shown({}) = << >>
<1>1. IsFiniteSet({}) /\ Cardinality({}) = 0
  BY FS_EmptySet
<1>2. {} \in SUBSET Nat
  OBVIOUS
<1>3. Ascending({}) \in Seq({}) /\ Len(Ascending({})) = 0
  BY <1>1, <1>2, AscendingIs
<1>4. Shown({}) \in Seq([key : {}, value : {Newest(k) : k \in {}}]) /\ Len(Shown({})) = 0
  BY <1>1, <1>2, <1>3, ShownIs
<1> QED BY <1>4

\* A key behind all others adds its pair at the end.
LEMMA ShownNext ==
  ASSUME NEW K \in SUBSET Nat, IsFiniteSet(K), NEW k \in Nat, \A l \in K : l < k
  PROVE  Shown(K \cup {k}) = Append(Shown(K), [key |-> k, value |-> Newest(k)])
<1> DEFINE L == K \cup {k}
           s == Ascending(K)
           t == Ascending(L)
           u == Append(s, k)
<1>1. L \in SUBSET Nat /\ IsFiniteSet(L)
  BY FS_AddElement
<1>2. s \in Seq(K) /\ Range(s) = K /\ Rises(s)
  BY AscendingIs
<1>3. t \in Seq(L) /\ Range(t) = L /\ Rises(t)
  <2> HIDE DEF L
  <2> QED BY <1>1, AscendingIs
<1> HIDE DEF L, s, t
<1>4. K \subseteq L /\ k \in L /\ s \in Seq(L)
  BY <1>2 DEF L
<1>5. /\ u \in Seq(L) /\ Len(u) = Len(s) + 1 /\ Len(s) \in Nat /\ u[Len(s) + 1] = k
      /\ \A i \in 1 .. Len(s) : u[i] = s[i]
      /\ DOMAIN u = 1 .. Len(s) + 1 /\ DOMAIN s = 1 .. Len(s)
  BY <1>2, <1>4
<1>6. Range(u) = L
  <2>1. u = s \o <<k>>
    BY <1>4, AppendIsConcat
  <2>2. PICK y \in Seq(L) : y = <<k>>
    BY <1>4, One
  <2>3. Range(s \o y) = Range(s) \cup Range(y)
    BY <1>4, RangeConcatenation
  <2>4. Range(y) = {k}
    BY <1>4, <2>2, One
  <2> QED BY <1>2, <2>1, <2>2, <2>3, <2>4 DEF L
<1> HIDE DEF u
<1>7. Rises(u)
  <2>1. ASSUME NEW i \in DOMAIN u, NEW j \in DOMAIN u, i < j PROVE u[i] < u[j]
    <3>1. i \in 1 .. Len(s) /\ i \in DOMAIN s
      BY <1>5, <2>1
    <3>2. u[i] = s[i] /\ s[i] \in K
      BY <1>2, <1>5, <3>1
    <3>3. CASE j = Len(s) + 1
      BY <1>5, <3>2, <3>3
    <3>4. CASE j # Len(s) + 1
      <4>1. j \in 1 .. Len(s) /\ j \in DOMAIN s
        BY <1>5, <3>4
      <4> QED BY <1>2, <1>5, <2>1, <3>1, <4>1 DEF Rises
    <3> QED BY <3>3, <3>4
  <2> QED BY <2>1 DEF Rises
<1>8. t = u
  <2>1. u \in Seq(Nat) /\ t \in Seq(Nat)
    BY <1>1, <1>3, <1>5, SeqWider
  <2>2. /\ \A i \in 1 .. Len(u) : u[i] = t[i]
        /\ Len(u) = Len(t)
    BY <1>3, <1>6, <1>7, <2>1, RisesPrefix
  <2> QED BY <2>1, <2>2, SeqEqual
<1> DEFINE P(x) == [key |-> x, value |-> Newest(x)]
           T == [key : L, value : {Newest(l) : l \in L}]
<1>9. /\ DOMAIN Shown(K) = DOMAIN s /\ \A i \in DOMAIN s : Shown(K)[i] = P(s[i])
      /\ Shown(K) \in Seq([key : K, value : {Newest(l) : l \in K}]) /\ Len(Shown(K)) = Len(s)
  BY ShownIs DEF s
<1>10. /\ DOMAIN Shown(L) = DOMAIN t /\ \A i \in DOMAIN t : Shown(L)[i] = P(t[i])
       /\ Shown(L) \in Seq(T) /\ Len(Shown(L)) = Len(t)
  BY <1>1, ShownIs DEF t
<1>11. Shown(K) \in Seq(T) /\ P(k) \in T
  <2>1. [key : K, value : {Newest(l) : l \in K}] \subseteq T
    BY <1>4
  <2>2. P(k) \in T
    BY <1>4
  <2>3. Shown(K) \in Seq([key : K, value : {Newest(l) : l \in K}])
    BY <1>9
  <2> HIDE DEF T, P
  <2>4. Shown(K) \in Seq(T)
    BY <2>1, <2>3, SeqWider
  <2> QED BY <2>2, <2>4
<1> HIDE DEF P, T
<1> DEFINE w == Append(Shown(K), P(k))
<1>12. /\ w \in Seq(T) /\ Len(w) = Len(s) + 1 /\ w[Len(s) + 1] = P(k)
       /\ \A i \in 1 .. Len(s) : w[i] = Shown(K)[i]
  BY <1>9, <1>11
<1> HIDE DEF w
<1>13. ASSUME NEW i \in 1 .. Len(w) PROVE w[i] = Shown(L)[i]
  <2>1. i \in DOMAIN t
    BY <1>5, <1>8, <1>12
  <2>2. CASE i = Len(s) + 1
    BY <1>5, <1>8, <1>10, <1>12, <2>1, <2>2
  <2>3. CASE i # Len(s) + 1
    <3>1. i \in 1 .. Len(s)
      BY <1>5, <1>12, <2>3
    <3> QED BY <1>5, <1>8, <1>9, <1>10, <1>12, <2>1, <3>1
  <2> QED BY <2>2, <2>3
<1>14. Len(w) = Len(Shown(L))
  BY <1>5, <1>8, <1>10, <1>12
<1>15. w = Shown(L)
  BY <1>10, <1>12, <1>13, <1>14, SeqEqual
<1> QED BY <1>15 DEF w, P, L

\* The pairs of the lower keys come first.
LEMMA ShownPrefix ==
  ASSUME NEW K \in SUBSET Nat, IsFiniteSet(K), NEW R \in SUBSET K,
         \A r \in R, k \in K : k \notin R => r < k
  PROVE  IsPrefix(Shown(R), Shown(K))
<1> DEFINE s == Ascending(R)
           t == Ascending(K)
<1>1. R \in SUBSET Nat /\ IsFiniteSet(R)
  BY FS_Subset
<1>2. s \in Seq(Nat) /\ Range(s) = R /\ Rises(s)
  <2>1. s \in Seq(R) /\ Range(s) = R /\ Rises(s)
    BY <1>1, AscendingIs
  <2> QED BY <1>1, <2>1, SeqWider
<1>3. t \in Seq(Nat) /\ Range(t) = K /\ Rises(t)
  <2>1. t \in Seq(K) /\ Range(t) = K /\ Rises(t)
    BY AscendingIs
  <2> QED BY <2>1, SeqWider
<1> HIDE DEF s, t
<1>4. Len(s) <= Len(t) /\ \A i \in 1 .. Len(s) : s[i] = t[i]
  BY <1>2, <1>3, RisesPrefix
<1> DEFINE P(x) == [key |-> x, value |-> Newest(x)]
<1>5. /\ DOMAIN Shown(R) = DOMAIN s /\ \A i \in DOMAIN s : Shown(R)[i] = P(s[i])
      /\ Shown(R) \in Seq([key : R, value : {Newest(l) : l \in R}]) /\ Len(Shown(R)) = Len(s)
  BY <1>1, ShownIs DEF s
<1>6. /\ DOMAIN Shown(K) = DOMAIN t /\ \A i \in DOMAIN t : Shown(K)[i] = P(t[i])
      /\ Shown(K) \in Seq([key : K, value : {Newest(l) : l \in K}]) /\ Len(Shown(K)) = Len(t)
  BY ShownIs DEF t
<1> HIDE DEF P
<1>7. /\ Len(s) \in Nat /\ Len(t) \in Nat /\ DOMAIN s = 1 .. Len(s) /\ DOMAIN t = 1 .. Len(t)
  BY <1>2, <1>3
<1>8. Shown(R) = SubSeq(Shown(K), 1, Len(s)) /\ Shown(R) = SubSeq(Shown(R), 1, Len(s))
  <2> DEFINE u == SubSeq(Shown(K), 1, Len(s))
             T == [key : K, value : {Newest(l) : l \in K}]
             Q == [key : R, value : {Newest(l) : l \in R}]
  <2>1. Q \subseteq T
    OBVIOUS
  <2>2. Shown(R) \in Seq(Q) /\ Shown(K) \in Seq(T)
    BY <1>5, <1>6
  <2> HIDE DEF T, Q
  <2>3. Shown(R) \in Seq(T)
    BY <2>1, <2>2, SeqWider
  <2>4. PICK v \in Seq(T), w \in Seq(T) : v = Shown(R) /\ w = Shown(K)
    BY <2>2, <2>3
  <2>5. PICK m \in Nat : m = Len(s) /\ m = Len(v) /\ m <= Len(w)
    BY <1>4, <1>5, <1>6, <1>7, <2>4
  <2>6. /\ u \in Seq(T) /\ Len(u) = m
        /\ \A i \in 1 .. m : u[i] = w[i]
    BY <2>4, <2>5
  <2> HIDE DEF u
  <2>7. ASSUME NEW i \in 1 .. m PROVE v[i] = u[i]
    <3>1. i \in 1 .. Len(t) /\ s[i] = t[i]
      BY <1>4, <1>7, <2>5
    <3> QED BY <1>5, <1>6, <1>7, <2>4, <2>5, <2>6, <3>1
  <2>8. v = u
    BY <2>5, <2>6, <2>7, SeqEqual
  <2>9. SubSeq(v, 1, m) = v
    BY <2>5
  <2> QED BY <2>4, <2>5, <2>8, <2>9 DEF u
<1>9. Len(Shown(R)) = Len(s) /\ Len(Shown(R)) <= Len(Shown(K))
  BY <1>4, <1>5, <1>6
<1> QED BY <1>8, <1>9 DEF IsPrefix

\* The least key of those stored.
LEMMA MinStored ==
  ASSUME TypeOK, Finite, NEW k \in Stored, \A l \in Stored : k <= l
  PROVE  Min(Stored) = k
<1>1. Stored \in SUBSET Nat
  BY StoredIs
<1>2. \E m \in Stored : \A l \in Stored : m <= l
  OBVIOUS
<1>3. Min(Stored) \in Stored /\ \A l \in Stored : Min(Stored) <= l
  BY <1>2 DEF Min
<1>4. PICK m \in Nat : m = Min(Stored) /\ m <= k
  BY <1>1, <1>3
<1>5. k <= m /\ k \in Nat
  BY <1>1, <1>3, <1>4
<1> QED BY <1>4, <1>5

\* The iterator that begin makes.
LEMMA BeginScanned ==
  ASSUME TypeOK, Finite, NEW id
  PROVE  \E K : Scanned(id, K, Construct(ItemVector(tbls)), << >>)
<1> DEFINE G == Stepped(FALSE)
           S == AllItems(FALSE)
           v == ItemVector(tbls)
<1>1. Coherent(G, S) /\ v \in Seq(S) /\ Range(v) = S
  BY AllCoherent, ItemVectorIs
<1>2. \A x \in S : x.key \in Stored
  BY KeysOfAll
<1>3. \A k \in Stored : \E x \in S : x.key = k
  BY KeysOfAll
<1>4. Construct(v) = SkipDeleted(PushAll(v))
  BY DEF Construct
<1> HIDE DEF S, v, G
<1>5. HeapOf(G, S, PushAll(v)) /\ Range(PushAll(v)) = S
  BY <1>1, PushAllIs
<1>6. Holds(G, S, Stored, PushAll(v))
  BY <1>2, <1>3, <1>5 DEF Holds
<1>7. PICK K, h : /\ h = SkipDeleted(PushAll(v)) /\ Skipped(G, S, Stored, K) /\ Holds(G, S, K, h)
                  /\ h # << >> => h[1].value # 0
  BY <1>1, <1>6, SkipHolds
<1>8. ASSUME NEW k \in Live, InStep(k) PROVE k \in K
  <2> SUFFICES ASSUME k \notin K PROVE FALSE
    OBVIOUS
  <2>1. k \in Stored /\ k \in G
    BY <1>8 DEF Live, Stored, Stepped, G
  <2>2. Dead(G, S, k)
    BY <1>7, <2>1 DEF Skipped
  <2>3. Newest(k) = 0
    BY <2>1, <2>2, FirstIsNewest DEF Dead, S, G
  <2> QED BY <2>3 DEF Live
<1>9. << >> \in Seq(Pair) /\ DOMAIN << >> = {}
  OBVIOUS
<1>10. Scanned(id, K, h, << >>)
  BY <1>7, <1>8, <1>9 DEF Scanned, S, G
<1> QED BY <1>4, <1>7, <1>10 DEF v

\* The iterator that merge_sst_iterator makes.
LEMMA MergeReady ==
  ASSUME TypeOK, Finite, NEW order \in Seq(DOMAIN tbls), Range(order) = DOMAIN tbls
  PROVE  \E K : Ready(K, PushAll(SstItems(order)), << >>)
<1> DEFINE G == Stepped(TRUE)
           S == AllItems(TRUE)
           v == SstItems(order)
           h == PushAll(v)
           W == MergedKeys
<1>1. Coherent(G, S) /\ v \in Seq(S) /\ Range(v) = S
  BY AllCoherent, SstItemsAre
<1>2. \A x \in S : x.key \in Stored
  BY KeysOfAll
<1>3. \A k \in Stored : \E x \in S : x.key = k
  BY KeysOfAll
<1>4. W = {k \in Stored : k \in Live \/ k = Min(Stored)}
  BY DEF MergedKeys
<1> HIDE DEF S, v, W, G
<1>5. HeapOf(G, S, h) /\ Range(h) = S
  BY <1>1, PushAllIs
<1> HIDE DEF h
<1>6. Holds(G, S, Stored, h)
  BY <1>2, <1>3, <1>5 DEF Holds
<1>7. W \ Stored = {}
  BY <1>4
<1>8. ASSUME h # << >> PROVE h[1].key \in W
  <2>1. h[1].key \in Stored /\ \A k \in Stored : h[1].key <= k
    BY <1>1, <1>6, <1>8, RootIs
  <2>2. PICK k \in Stored : k = h[1].key
    BY <2>1
  <2>3. Min(Stored) = k
    BY <2>1, <2>2, MinStored
  <2> QED BY <1>4, <2>2, <2>3
<1>9. << >> = Shown(W \ Stored)
  BY <1>7, ShownNone
<1>10. \A k \in W \ Stored, l \in Stored : k < l
  BY <1>7
<1>11. Ready(Stored, h, << >>)
  BY <1>6, <1>8, <1>9, <1>10 DEF Ready, W, S, G
<1> QED BY <1>11 DEF h, v

\* What a step leaves in the heap: without the root's key, and after a skip without the
\* deleted keys behind it.
Advanced(G, S, K, h, R, g) ==
  /\ Holds(G, S, R, g)
  /\ R \subseteq K \ {h[1].key}
  /\ \A k \in K : k \notin R /\ k # h[1].key => max_tranc_id = 0 /\ Dead(G, S, k)
  /\ max_tranc_id = 0 /\ g # << >> => g[1].value # 0

\* One step of an iterator.
LEMMA IncrementIs ==
  ASSUME NEW G, NEW S, Coherent(G, S), NEW K, NEW h, Holds(G, S, K, h), h # << >>
  PROVE  \E R : Advanced(G, S, K, h, R, Increment(h))
<1>1. PICK key : key = h[1].key
  OBVIOUS
<1>2. PICK L, rest : L = K \ {key} /\ rest = DropKey(Pop(h), key)
  OBVIOUS
<1>3. Holds(G, S, L, rest)
  BY <1>1, <1>2, DropHead
<1>4. Increment(h) = IF top_value_legal(rest) THEN rest ELSE SkipDeleted(rest)
  <2>1. h \in Seq(Items)
    BY DEF Holds, HeapOf, Coherent
  <2>2. Head(h) = h[1]
    BY <2>1
  <2> QED BY <1>1, <1>2, <2>2 DEF Increment
<1>5. CASE top_value_legal(rest)
  <2>1. Head(rest) = rest[1]
    BY <1>3 DEF Holds, HeapOf
  <2>2. max_tranc_id = 0 /\ rest # << >> => rest[1].value # 0
    BY <1>5, <2>1 DEF top_value_legal
  <2>3. Advanced(G, S, K, h, L, rest)
    BY <1>1, <1>2, <1>3, <2>2 DEF Advanced
  <2> QED BY <1>4, <1>5, <2>3
<1>6. CASE ~top_value_legal(rest)
  <2>1. max_tranc_id = 0
    BY <1>6 DEF top_value_legal
  <2>2. PICK R, g : /\ g = SkipDeleted(rest) /\ Skipped(G, S, L, R) /\ Holds(G, S, R, g)
                    /\ g # << >> => g[1].value # 0
    BY <1>3, SkipHolds
  <2>3. R \subseteq L /\ \A k \in L : k \notin R => Dead(G, S, k)
    BY <2>2 DEF Skipped
  <2>4. Advanced(G, S, K, h, R, g)
    BY <1>1, <1>2, <2>1, <2>2, <2>3 DEF Advanced
  <2> QED BY <1>4, <1>6, <2>2, <2>4
<1> QED BY <1>5, <1>6

\* One step of a merge.
LEMMA ReadReady ==
  ASSUME TypeOK, Finite, max_tranc_id = 0,
         NEW K, NEW h, NEW shown, Ready(K, h, shown), h # << >>,
         NEW next, next = Append(shown, [key |-> h[1].key, value |-> h[1].value])
  PROVE  \E R : Ready(R, Increment(h), next)
<1> DEFINE G == Stepped(TRUE)
           S == AllItems(TRUE)
           W == MergedKeys
<1>1. /\ Holds(G, S, K, h) /\ shown = Shown(W \ K)
      /\ \A k \in W \ K, l \in K : k < l
      /\ h[1].key \in W
  BY DEF Ready
<1>2. Coherent(G, S)
  BY AllCoherent
<1>3. W \subseteq Stored /\ Stored \in SUBSET Nat /\ Live \subseteq Stored
  BY StoredIs DEF MergedKeys
<1>4. \A k \in Stored : k \in W <=> k \in Live \/ k = Min(Stored)
  BY DEF MergedKeys
<1>5. \A k \in Stored : \A x : First(G, S, k, x) => x.value = Newest(k)
  <2>1. \A k \in Stored : k \in G
    BY DEF Stored, Stepped
  <2> QED BY <2>1, FirstIsNewest
<1>6. \A x \in S : x.key \in Stored
  BY KeysOfAll
<1>7. PICK R, g : g = Increment(h) /\ Advanced(G, S, K, h, R, g)
  BY <1>1, <1>2, IncrementIs
<1>8. \A Q, f, e : Ready(Q, f, e) <=>
         /\ Holds(G, S, Q, f) /\ e = Shown(W \ Q) /\ \A k \in W \ Q, l \in Q : k < l
         /\ f # << >> => f[1].key \in W
  BY DEF Ready
<1> HIDE DEF S, W, G
<1>9. K \subseteq Stored
  <2>1. \A k \in K : \E x \in S : x.key = k
    BY <1>1 DEF Holds
  <2> QED BY <1>6, <2>1
<1>10. PICK key : key = h[1].key
  OBVIOUS
<1>11. /\ key \in K /\ First(G, S, key, h[1])
       /\ \A k \in K : key <= k
  BY <1>1, <1>2, <1>10, DropHead
<1>12. key \in W /\ key \in Nat /\ h[1].value = Newest(key) /\ key \in Stored
  BY <1>1, <1>3, <1>5, <1>10, <1>11
<1>13. /\ Holds(G, S, R, g) /\ R \subseteq K \ {key}
       /\ \A k \in K : k \notin R /\ k # key => Dead(G, S, k)
       /\ g # << >> => g[1].value # 0
  BY <1>7, <1>10 DEF Advanced
<1>14. next = Shown((W \ K) \cup {key})
  <2>1. W \ K \in SUBSET Stored
    BY <1>3
  <2>2. PICK L : L = W \ K
    OBVIOUS
  <2>3. L \in SUBSET Nat /\ IsFiniteSet(L)
    BY <2>1, <2>2, ShownType
  <2>4. \A l \in L : l < key
    BY <1>1, <1>11, <2>2
  <2>5. Shown(L \cup {key}) = Append(Shown(L), [key |-> key, value |-> Newest(key)])
    BY <1>12, <2>3, <2>4, ShownNext
  <2> QED BY <1>1, <1>10, <1>12, <2>2, <2>5
<1>15. ASSUME NEW k \in K, k # key, k \notin R PROVE k \notin W
  <2>1. PICK x : First(G, S, k, x) /\ x.value = 0
    BY <1>13, <1>15 DEF Dead
  <2>2. k \in Stored /\ key <= k
    BY <1>9, <1>11
  <2>3. k \notin Live
    BY <1>5, <2>1, <2>2 DEF Live
  <2>4. k # Min(Stored)
    <3>1. PICK m : m = Min(Stored)
      OBVIOUS
    <3>2. m \in Stored /\ \A l \in Stored : m <= l
      <4>1. \E l \in Stored : \A j \in Stored : l <= j
        BY <1>3, <2>2, Least
      <4> QED BY <3>1, <4>1 DEF Min
    <3>3. m <= key /\ m \in Nat /\ k \in Nat
      BY <1>3, <1>12, <2>2, <3>2
    <3> QED BY <1>12, <1>15, <2>2, <3>1, <3>3
  <2> QED BY <1>4, <2>2, <2>3, <2>4
<1>16. W \ R = (W \ K) \cup {key}
  BY <1>11, <1>12, <1>13, <1>15
<1>17. ASSUME NEW k \in W \ R, NEW l \in R PROVE k < l
  <2>1. CASE k = key
    <3>1. l \in K /\ l # key /\ key <= l /\ l \in Nat
      BY <1>3, <1>9, <1>11, <1>13
    <3> QED BY <1>12, <2>1, <3>1
  <2>2. CASE k # key
    <3>1. k \in W \ K /\ l \in K
      BY <1>13, <1>16, <2>2
    <3> QED BY <1>1, <3>1
  <2> QED BY <2>1, <2>2
<1>18. ASSUME g # << >> PROVE g[1].key \in W
  <2>1. First(G, S, g[1].key, g[1]) /\ g[1].key \in R
    BY <1>2, <1>13, <1>18, RootIs
  <2>2. g[1].key \in Stored
    BY <1>9, <1>13, <2>1
  <2>3. g[1].key \in Live
    BY <1>5, <1>13, <1>18, <2>1, <2>2 DEF Live
  <2> QED BY <1>4, <2>2, <2>3
<1>19. Ready(R, g, next)
  BY <1>8, <1>13, <1>14, <1>16, <1>17, <1>18
<1> QED BY <1>7, <1>19

\* One step of a scan.
LEMMA ReadScanned ==
  ASSUME TypeOK, NEW id, id = max_tranc_id,
         NEW K, NEW h, NEW shown, Scanned(id, K, h, shown), h # << >>,
         NEW next, next = Append(shown, [key |-> h[1].key, value |-> h[1].value])
  PROVE  \E R : Scanned(id, R, Increment(h), next)
<1> DEFINE G == Stepped(FALSE)
           S == AllItems(FALSE)
           n == Len(shown) + 1
<1>1. /\ Holds(G, S, K, h) /\ shown \in Seq(Pair)
      /\ \A i, j \in DOMAIN shown : i < j => shown[i].key < shown[j].key
      /\ \A i \in DOMAIN shown :
            /\ \A l \in K : shown[i].key < l
            /\ Showable(shown[i])
            /\ id = 0 => shown[i].value # 0
      /\ \A k \in Live :
            InStep(k) => k \in K \/ \E i \in DOMAIN shown : shown[i].key = k
      /\ id = 0 => h[1].value # 0
  BY DEF Scanned
<1>2. Coherent(G, S)
  BY AllCoherent
<1>3. PICK R, g : g = Increment(h) /\ Advanced(G, S, K, h, R, g)
  BY <1>1, <1>2, IncrementIs
<1>4. PICK key, x : key = h[1].key /\ x = h[1]
  OBVIOUS
<1>5. /\ key \in K /\ First(G, S, key, x)
      /\ \A k \in K : key <= k /\ k \in Nat
  BY <1>1, <1>2, <1>4, DropHead, KeysAre
<1>6. /\ Holds(G, S, R, g) /\ R \subseteq K \ {key}
      /\ \A k \in K : k \notin R /\ k # key => id = 0 /\ Dead(G, S, k)
      /\ id = 0 /\ g # << >> => g[1].value # 0
  BY <1>3, <1>4 DEF Advanced
<1>7. /\ key \in Key /\ x.value \in Value
      /\ \E i \in DOMAIN tbls :
            tbls[i].map[key] # None /\ tbls[i].map[key].value = x.value
  <2>1. PICK sst \in BOOLEAN : sst = FALSE
    OBVIOUS
  <2>2. First(G, AllItems(sst), key, x)
    BY <1>5, <2>1
  <2> HIDE DEF G, S
  <2> QED BY <2>2, FirstIsStored
<1>8. PICK p \in Pair : p = [key |-> key, value |-> x.value]
  BY <1>7 DEF Pair
<1>9. Showable(p)
  <2>1. ASSUME InStep(key) PROVE x.value = Newest(key)
    BY <1>5, <1>7, <2>1, FirstIsNewest DEF Stepped
  <2> QED BY <1>7, <1>8, <2>1 DEF Showable
<1>10. ASSUME NEW k \in Live, InStep(k)
       PROVE  k \in R \/ k = key \/ \E i \in DOMAIN shown : shown[i].key = k
  <2> SUFFICES ASSUME k \in K, k \notin R, k # key PROVE FALSE
    BY <1>1, <1>10
  <2>1. PICK y : First(G, S, k, y) /\ y.value = 0
    BY <1>6 DEF Dead
  <2>2. k \in G
    BY <1>10 DEF Live, Stored, Stepped
  <2>3. y.value = Newest(k)
    BY <2>1, <2>2, FirstIsNewest
  <2> QED BY <2>1, <2>3 DEF Live
<1> HIDE DEF G, S
<1>11. /\ next \in Seq(Pair) /\ DOMAIN next = 1 .. n /\ DOMAIN shown = 1 .. Len(shown)
       /\ n \in Nat /\ Len(shown) \in Nat /\ next[n] = p
       /\ \A i \in 1 .. n : i # n => i \in DOMAIN shown /\ next[i] = shown[i]
       /\ n \in 1 .. n /\ \A i \in DOMAIN shown : i \in 1 .. n /\ i # n
  <2>1. next = Append(shown, p)
    BY <1>4, <1>8
  <2> QED BY <1>1, <2>1
<1>12. \A i \in DOMAIN next : \A l \in R : next[i].key < l
  <2> SUFFICES ASSUME NEW i \in DOMAIN next, NEW l \in R PROVE next[i].key < l
    OBVIOUS
  <2>1. l \in K /\ l # key
    BY <1>6
  <2>2. CASE i = n
    <3>1. next[i].key = key /\ key <= l /\ key \in Nat /\ l \in Nat
      BY <1>5, <1>8, <1>11, <2>1, <2>2
    <3> QED BY <2>1, <3>1
  <2>3. CASE i # n
    BY <1>1, <1>11, <2>1, <2>3
  <2> QED BY <2>2, <2>3
<1>13. \A i, j \in DOMAIN next : i < j => next[i].key < next[j].key
  <2> SUFFICES ASSUME NEW i \in DOMAIN next, NEW j \in DOMAIN next, i < j
               PROVE  next[i].key < next[j].key
    OBVIOUS
  <2>1. i # n
    BY <1>11
  <2>2. i \in DOMAIN shown /\ next[i] = shown[i]
    BY <1>11, <2>1
  <2>3. CASE j = n
    BY <1>1, <1>5, <1>8, <1>11, <2>2, <2>3
  <2>4. CASE j # n
    BY <1>1, <1>11, <2>2, <2>4
  <2> QED BY <2>3, <2>4
<1>14. \A i \in DOMAIN next : Showable(next[i]) /\ (id = 0 => next[i].value # 0)
  <2>1. id = 0 => p.value # 0
    BY <1>1, <1>4, <1>8
  <2> QED BY <1>1, <1>9, <1>11, <2>1
<1>15. \A k \in Live : InStep(k) => k \in R \/ \E i \in DOMAIN next : next[i].key = k
  <2> SUFFICES ASSUME NEW k \in Live, InStep(k), k \notin R
               PROVE  \E i \in DOMAIN next : next[i].key = k
    OBVIOUS
  <2>1. CASE k = key
    <3>1. next[n].key = k
      BY <1>8, <1>11, <2>1
    <3> QED BY <1>11, <3>1
  <2>2. CASE k # key
    <3>1. PICK i \in DOMAIN shown : shown[i].key = k
      BY <1>10, <2>2
    <3> QED BY <1>11, <3>1
  <2> QED BY <2>1, <2>2
<1>16. Scanned(id, R, g, next)
  BY <1>6, <1>11, <1>12, <1>13, <1>14, <1>15 DEF Scanned, G, S
<1> QED BY <1>3, <1>16

-----------------------------------------------------------------------------
(* The invariant.                                                          *)

HeapInv == TypeOK /\ Finite /\ Ahead

\* What an iterator has still to do does not change while the tables do not.
LEMMA Kept ==
  ASSUME UNCHANGED tbls, NEW id, NEW K, NEW h, NEW shown,
         max_tranc_id' = id, heap' = h, emitted' = shown
  PROVE  /\ Ready(K, h, shown) => Ready(K, heap, emitted)'
         /\ Scanned(id, K, h, shown) => Scanned(max_tranc_id, K, heap, emitted)'
<1>1. \A k : Newest(k)' = Newest(k)
  BY DEF Newest
<1>2. Stored' = Stored
  BY DEF Stored
<1>3. Live' = Live
  BY <1>1, <1>2 DEF Live
<1>4. MergedKeys' = MergedKeys
  BY <1>2, <1>3 DEF MergedKeys
<1>5. AllItems(TRUE)' = AllItems(TRUE) /\ AllItems(FALSE)' = AllItems(FALSE)
  BY DEF AllItems, Item
<1>6. \A k : InStep(k)' = InStep(k)
  BY DEF InStep
<1>7. Stepped(TRUE)' = Stepped(TRUE) /\ Stepped(FALSE)' = Stepped(FALSE)
  BY <1>6 DEF Stepped
<1>8. Shown(MergedKeys \ K)' = Shown(MergedKeys \ K)
  BY <1>1, <1>4 DEF Shown
<1>9. \A i : Showable(emitted[i])' <=> Showable(shown[i])
  BY <1>1, <1>6 DEF Showable
<1>10. Ready(K, h, shown) => Ready(K, heap, emitted)'
  BY <1>4, <1>5, <1>7, <1>8 DEF Ready
<1>11. ASSUME Scanned(id, K, h, shown) PROVE Scanned(max_tranc_id, K, heap, emitted)'
  BY <1>3, <1>5, <1>6, <1>7, <1>9, <1>11 DEF Scanned
<1> QED BY <1>10, <1>11

\* The items of an iterator have their types.
LEMMA HoldsType ==
  ASSUME TypeOK, NEW sst \in BOOLEAN, NEW G, NEW K, NEW h, Holds(G, AllItems(sst), K, h)
  PROVE  /\ h \in Seq(Items)
         /\ \A i \in DOMAIN h : h[i].idx \in Indexes(IF sst THEN "merge" ELSE "scan")
<1>1. h \in Seq(AllItems(sst))
  BY DEF Holds, HeapOf
<1>2. AllItems(sst) \subseteq Items
  BY DEF AllItems
<1>3. h \in Seq(Items)
  BY <1>1, <1>2, SeqWider
<1>4. ASSUME NEW i \in DOMAIN h
      PROVE  h[i].idx \in Indexes(IF sst THEN "merge" ELSE "scan")
  <2>1. h[i] \in AllItems(sst)
    BY <1>1
  <2>2. PICK j \in DOMAIN tbls : h[i].idx = (IF sst THEN j - MaxTables ELSE j - 1)
    BY <2>1, ItemOf
  <2>3. /\ j - 1 \in 0 .. MaxTables - 1 /\ SstIndex(j) \in 1 - MaxTables .. 0
        /\ j \in Nat /\ MaxTables \in Nat
    BY TablesAre
  <2>4. j - MaxTables \in 1 - MaxTables .. 0
    BY <2>3 DEF SstIndex
  <2> QED BY <2>2, <2>3, <2>4 DEF Indexes
<1> QED BY <1>3, <1>4

\* So have the items and the pairs of a merge and of a scan.
LEMMA ReadyType ==
  ASSUME TypeOK, Finite, NEW id, NEW K, NEW h, NEW shown
  PROVE  /\ Ready(K, h, shown) =>
              /\ h \in Seq(Items) /\ shown \in Seq(Pair)
              /\ \A i \in DOMAIN h : h[i].idx \in Indexes("merge")
         /\ Scanned(id, K, h, shown) =>
              /\ h \in Seq(Items) /\ shown \in Seq(Pair)
              /\ \A i \in DOMAIN h : h[i].idx \in Indexes("scan")
<1>1. ASSUME Ready(K, h, shown)
      PROVE  /\ h \in Seq(Items) /\ shown \in Seq(Pair)
             /\ \A i \in DOMAIN h : h[i].idx \in Indexes("merge")
  <2>1. Holds(Stepped(TRUE), AllItems(TRUE), K, h)
    BY <1>1 DEF Ready
  <2>2. MergedKeys \ K \in SUBSET Stored
    BY DEF MergedKeys
  <2>3. shown \in Seq(Pair)
    BY <1>1, <2>2, ShownType DEF Ready
  <2>4. (IF TRUE THEN "merge" ELSE "scan") = "merge"
    OBVIOUS
  <2> QED BY <2>1, <2>3, <2>4, HoldsType
<1>2. ASSUME Scanned(id, K, h, shown)
      PROVE  /\ h \in Seq(Items) /\ shown \in Seq(Pair)
             /\ \A i \in DOMAIN h : h[i].idx \in Indexes("scan")
  <2>1. Holds(Stepped(FALSE), AllItems(FALSE), K, h) /\ shown \in Seq(Pair)
    BY <1>2 DEF Scanned
  <2>2. (IF FALSE THEN "merge" ELSE "scan") = "scan"
    OBVIOUS
  <2> QED BY <2>1, <2>2, HoldsType
<1> QED BY <1>1, <1>2

\* The program starts with one empty table.
LEMMA InitHolds == Init => HeapInv
<1> SUFFICES ASSUME Init PROVE HeapInv
  OBVIOUS
<1>1. EmptyTable \in TableType /\ \A k \in Key : EmptyTable.map[k] = None
  BY DEF EmptyTable, TableType, Map
<1>2. /\ tbls \in Seq(TableType) /\ Len(tbls) = 1 /\ DOMAIN tbls = 1 .. 1
      /\ tbls[1] = EmptyTable
  BY <1>1 DEF Init
<1>3. 0 \in 0 .. MaxWrites /\ 1 \in 1 .. MaxTables
  BY HeapIteratorAssumption
<1>4. TypeOK
  BY <1>2, <1>3, HeapIteratorAssumption DEF Init, TypeOK
<1>5. \A i \in DOMAIN tbls, k \in Key : tbls[i].map[k] = None
  BY <1>1, <1>2
<1>6. Finite
  <2>1. \A i \in DOMAIN tbls : {k \in Key : tbls[i].map[k] # None} = {}
    BY <1>5
  <2> QED BY <2>1, FS_EmptySet DEF Finite
<1>7. Ahead
  BY DEF Init, Ahead
<1> QED BY <1>4, <1>6, <1>7 DEF HeapInv

\* A put into a table.
LEMMA PutTable ==
  ASSUME NEW t \in TableType, NEW k \in Key, NEW v \in Value, NEW id \in TrancId
  PROVE  /\ TablePut(t, k, v, id) \in TableType
         /\ \A l \in Key : l # k => TablePut(t, k, v, id).map[l] = t.map[l]
<1>1. /\ t.map \in Map /\ t.bytes \in Nat /\ ValLen[v] \in Nat /\ KeyLen[k] \in Nat
      /\ SizeMod \in Nat \ {0}
  BY TableAssumption DEF TableType
<1>2. ASSUME NEW n \in Int PROVE n % SizeMod \in Nat
  BY <1>1, <1>2
<1>3. CASE t.map[k] # None
  <2>1. t.map[k] \in Entry
    BY <1>1, <1>3 DEF Map
  <2>2. PICK m : m = [t.map EXCEPT ![k] = [value |-> v, tranc_id |-> t.map[k].tranc_id]]
    OBVIOUS
  <2>3. /\ m \in Map
        /\ \A l \in Key : l # k => m[l] = t.map[l]
    <3>1. [value |-> v, tranc_id |-> t.map[k].tranc_id] \in Entry
      BY <2>1 DEF Entry
    <3>2. [value |-> v, tranc_id |-> t.map[k].tranc_id] # None
      BY <3>1, TableAssumption
    <3>3. t.map \in [Key -> Entry \cup {None}]
      BY <1>1 DEF Map
    <3> QED BY <2>2, <3>1, <3>2, <3>3 DEF Map
  <2>4. t.map[k].value \in Value
    BY <2>1 DEF Entry
  <2>5. ValLen[t.map[k].value] \in Nat
    BY <2>4, TableAssumption
  <2>6. (t.bytes + ValLen[v] - ValLen[t.map[k].value]) % SizeMod \in Nat
    BY <1>1, <1>2, <2>5
  <2>7. PICK b \in Nat : TablePut(t, k, v, id) = [map |-> m, bytes |-> b]
    BY <1>3, <2>2, <2>6 DEF TablePut
  <2> QED BY <1>3, <2>3, <2>7 DEF TableType
<1>4. CASE t.map[k] = None
  <2>1. PICK m : m = [t.map EXCEPT ![k] = [value |-> v, tranc_id |-> id]]
    OBVIOUS
  <2>2. /\ m \in Map
        /\ \A l \in Key : l # k => m[l] = t.map[l]
    <3>1. [value |-> v, tranc_id |-> id] \in Entry
      BY DEF Entry
    <3>2. [value |-> v, tranc_id |-> id] # None
      BY <3>1, TableAssumption
    <3>3. t.map \in [Key -> Entry \cup {None}]
      BY <1>1 DEF Map
    <3> QED BY <2>1, <3>1, <3>2, <3>3 DEF Map
  <2>3. (t.bytes + EntryBytes(k, v)) % SizeMod \in Nat
    <3>1. t.bytes + EntryBytes(k, v) \in Int
      BY <1>1 DEF EntryBytes
    <3> QED BY <1>2, <3>1
  <2>4. PICK b \in Nat : TablePut(t, k, v, id) = [map |-> m, bytes |-> b]
    BY <1>4, <2>1, <2>3 DEF TablePut
  <2> QED BY <1>4, <2>2, <2>4 DEF TableType
<1> QED BY <1>3, <1>4

\* A write goes to the newest table.
LEMMA WriteKeeps == ASSUME HeapInv, Write PROVE HeapInv'
<1>1. TypeOK /\ Finite /\ Ahead
  BY DEF HeapInv
<1>2. /\ tbls \in Seq(TableType) /\ Len(tbls) \in 1 .. MaxTables /\ 1 \in DOMAIN tbls
      /\ DOMAIN tbls = 1 .. Len(tbls) /\ Len(tbls) \in Nat /\ tbls[1] \in TableType
  BY <1>1, HeapIteratorAssumption DEF TypeOK
<1>3. writes' \in 0 .. MaxWrites /\ \A v \in {0, writes'} : v \in Value
  <2>1. writes \in 0 .. MaxWrites /\ writes < MaxWrites /\ writes' = writes + 1
    BY <1>1 DEF TypeOK, Write
  <2>2. MaxWrites \in Int
    BY HeapIteratorAssumption
  <2>3. writes' \in 0 .. MaxWrites
    BY <2>1, <2>2
  <2> QED BY <2>3, HeapIteratorAssumption, TableAssumption
<1>4. PICK k \in Key, v \in {0, writes'}, t \in TrancId :
        tbls' = [tbls EXCEPT ![1] = TablePut(tbls[1], k, v, t)]
  BY DEF Write
<1>5. PICK u : u = TablePut(tbls[1], k, v, t)
  OBVIOUS
<1>6. u \in TableType /\ \A l \in Key : l # k => u.map[l] = tbls[1].map[l]
  BY <1>2, <1>3, <1>5, PutTable
<1>7. /\ tbls' \in Seq(TableType) /\ Len(tbls') = Len(tbls) /\ DOMAIN tbls' = DOMAIN tbls
      /\ tbls'[1] = u /\ \A i \in DOMAIN tbls : i # 1 => tbls'[i] = tbls[i]
  BY <1>2, <1>4, <1>5, <1>6
<1>8. UNCHANGED <<scanning, max_tranc_id, heap, emitted>> /\ scanning = "none"
  BY DEF Write
<1>9. TypeOK'
  BY <1>1, <1>2, <1>3, <1>7, <1>8 DEF TypeOK
<1>10. ASSUME NEW i \in DOMAIN tbls
       PROVE  IsFiniteSet({l \in Key : tbls'[i].map[l] # None})
  <2> DEFINE A == {l \in Key : tbls[i].map[l] # None}
             B == {l \in Key : tbls'[i].map[l] # None}
  <2>1. IsFiniteSet(A \cup {k})
    BY <1>1, FS_AddElement DEF Finite
  <2>2. B \subseteq A \cup {k}
    BY <1>6, <1>7
  <2> QED BY <2>1, <2>2, FS_Subset
<1>11. Finite'
  BY <1>7, <1>10 DEF Finite
<1>12. Ahead'
  BY <1>1, <1>8 DEF Ahead
<1> QED BY <1>9, <1>11, <1>12 DEF HeapInv

\* A freeze makes every table one older.
LEMMA FreezeKeeps == ASSUME HeapInv, Freeze PROVE HeapInv'
<1>1. TypeOK /\ Finite /\ Ahead
  BY DEF HeapInv
<1>2. /\ tbls \in Seq(TableType) /\ Len(tbls) \in 1 .. MaxTables
      /\ DOMAIN tbls = 1 .. Len(tbls) /\ Len(tbls) \in Nat
      /\ MaxTables \in Nat /\ Len(tbls) < MaxTables
  BY <1>1, HeapIteratorAssumption DEF TypeOK, Freeze
<1>3. EmptyTable \in TableType /\ \A k \in Key : EmptyTable.map[k] = None
  BY DEF EmptyTable, TableType, Map
<1>4. /\ tbls' \in Seq(TableType) /\ Len(tbls') = Len(tbls) + 1
      /\ DOMAIN tbls' = 1 .. Len(tbls) + 1
      /\ tbls'[1] = EmptyTable
      /\ \A i \in 2 .. Len(tbls) + 1 : tbls'[i] = tbls[i - 1]
  <2>1. <<EmptyTable>> \in Seq(TableType) /\ Len(<<EmptyTable>>) = 1
    BY <1>3, One
  <2>2. PICK e \in Seq(TableType) : e = <<EmptyTable>> /\ Len(e) = 1 /\ e[1] = EmptyTable
    BY <2>1
  <2>3. tbls' = e \o tbls
    BY <2>2 DEF Freeze
  <2> HIDE <1>3
  <2>4. /\ e \o tbls \in Seq(TableType) /\ Len(e \o tbls) = Len(tbls) + 1
        /\ (e \o tbls)[1] = EmptyTable
        /\ \A i \in 2 .. Len(tbls) + 1 : (e \o tbls)[i] = tbls[i - 1]
    BY <1>2, <2>2
  <2> QED BY <1>2, <2>3, <2>4
<1>5. UNCHANGED <<writes, scanning, max_tranc_id, heap, emitted>> /\ scanning = "none"
  BY DEF Freeze
<1>6. TypeOK'
  BY <1>1, <1>2, <1>4, <1>5 DEF TypeOK
<1>8. \A i \in DOMAIN tbls' : IsFiniteSet({k \in Key : tbls'[i].map[k] # None})
  <2> SUFFICES ASSUME NEW i \in DOMAIN tbls'
               PROVE  IsFiniteSet({k \in Key : tbls'[i].map[k] # None})
    OBVIOUS
  <2>1. CASE i = 1
    <3>1. {k \in Key : tbls'[i].map[k] # None} = {}
      BY <1>3, <1>4, <2>1
    <3> QED BY <3>1, FS_EmptySet
  <2>2. CASE i # 1
    <3>1. i - 1 \in DOMAIN tbls /\ tbls'[i] = tbls[i - 1]
      BY <1>2, <1>4, <2>2
    <3> QED BY <1>1, <3>1 DEF Finite
  <2> QED BY <2>1, <2>2
<1>9. Finite'
  BY <1>8 DEF Finite
<1>10. Ahead'
  BY <1>1, <1>5 DEF Ahead
<1> QED BY <1>6, <1>9, <1>10 DEF HeapInv

\* The tables do not change while a client holds an iterator.
LEMMA TablesKept ==
  ASSUME TypeOK, Finite, UNCHANGED <<tbls, writes>>, max_tranc_id' \in ScanIds \cup {0},
         NEW K,
         \/ /\ scanning' = "merge" /\ max_tranc_id' = 0
            /\ Ready(K, heap', emitted')
         \/ /\ scanning' = "scan"
            /\ Scanned(max_tranc_id', K, heap', emitted')
  PROVE  HeapInv'
<1>1. PICK id, h, e : id = max_tranc_id' /\ h = heap' /\ e = emitted'
  OBVIOUS
<1>2. \/ scanning' = "merge" /\ id = 0 /\ Ready(K, h, e)
      \/ scanning' = "scan" /\ Scanned(id, K, h, e)
  BY <1>1
<1>3. /\ h \in Seq(Items) /\ e \in Seq(Pair)
      /\ \A i \in DOMAIN h : h[i].idx \in Indexes(scanning')
  BY <1>2, ReadyType
<1>4. TypeOK'
  <2>1. \A i \in DOMAIN heap' : heap'[i].idx \in Indexes(scanning')
    BY <1>1, <1>3
  <2>2. Indexes(scanning)' = Indexes(scanning')
    BY DEF Indexes
  <2>3. scanning' \in {"none", "scan", "merge"}
    BY <1>2
  <2> QED BY <1>1, <1>3, <2>1, <2>2, <2>3 DEF TypeOK
<1>5. Finite'
  BY DEF Finite
<1>6. /\ Ready(K, h, e) => Ready(K, heap, emitted)'
      /\ Scanned(id, K, h, e) => Scanned(max_tranc_id, K, heap, emitted)'
  BY <1>1, Kept
<1>7. Ahead'
  BY <1>1, <1>2, <1>6 DEF Ahead
<1> QED BY <1>4, <1>5, <1>7 DEF HeapInv

\* A scan begins.
LEMMA BeginKeeps == ASSUME HeapInv, begin PROVE HeapInv'
<1>1. TypeOK /\ Finite /\ Ahead
  BY DEF HeapInv
<1>2. /\ scanning' = "scan" /\ max_tranc_id' \in ScanIds /\ UNCHANGED <<tbls, writes>>
      /\ heap' = Construct(ItemVector(tbls)) /\ emitted' = << >>
  BY <1>1 DEF begin, Ahead
<1>3. PICK id : id = max_tranc_id'
  OBVIOUS
<1>4. PICK K : Scanned(id, K, Construct(ItemVector(tbls)), << >>)
  BY <1>1, BeginScanned
<1>5. Scanned(max_tranc_id', K, heap', emitted')
  BY <1>2, <1>3, <1>4
<1> QED BY <1>1, <1>2, <1>5, TablesKept

\* A merge of the SSTs begins, in whichever order they come.
LEMMA MergeKeeps == ASSUME HeapInv, merge_sst_iterator PROVE HeapInv'
<1>1. TypeOK /\ Finite /\ Ahead
  BY DEF HeapInv
<1>2. /\ scanning' = "merge" /\ max_tranc_id' = 0 /\ UNCHANGED <<tbls, writes>>
      /\ emitted' = << >>
  BY <1>1 DEF merge_sst_iterator, Ahead
<1>3. PICK newest : newest = [i \in DOMAIN tbls |-> i]
  OBVIOUS
<1>4. PICK order \in {newest, Reverse(newest)} : heap' = PushAll(SstItems(order))
  BY <1>3 DEF merge_sst_iterator
<1>5. order \in Seq(DOMAIN tbls) /\ Range(order) = DOMAIN tbls
  <2>1. PICK n \in Nat : n = Len(tbls) /\ DOMAIN tbls = 1 .. n
    BY <1>1, TablesAre
  <2>2. newest \in Seq(DOMAIN tbls) /\ Len(newest) = n /\ \A i \in 1 .. n : newest[i] = i
    BY <1>3, <2>1
  <2>3. \A i \in 1 .. n : n - i + 1 \in 1 .. n
    OBVIOUS
  <2>4. /\ Reverse(newest) = [i \in 1 .. n |-> n - i + 1]
        /\ Reverse(newest) \in Seq(DOMAIN tbls)
    <3>1. Reverse(newest) = [i \in 1 .. n |-> newest[(n - i) + 1]]
      BY <2>2 DEF Reverse
    <3>2. Reverse(newest) = [i \in 1 .. n |-> n - i + 1]
      BY <2>2, <2>3, <3>1
    <3>3. [i \in 1 .. n |-> n - i + 1] \in [1 .. n -> DOMAIN tbls]
      BY <2>1, <2>3
    <3> QED BY <3>2, <3>3
  <2>5. Range(newest) = DOMAIN tbls
    BY <1>3 DEF Range
  <2>6. Range(Reverse(newest)) = DOMAIN tbls
    <3>1. \A i \in 1 .. n : n - (n - i + 1) + 1 = i
      OBVIOUS
    <3>2. ASSUME NEW i \in 1 .. n PROVE i \in Range(Reverse(newest))
      <4>1. PICK j \in 1 .. n : j = n - i + 1 /\ n - j + 1 = i
        BY <2>3
      <4> QED BY <2>4, <4>1 DEF Range
    <3>3. Range(Reverse(newest)) \subseteq 1 .. n
      BY <2>3, <2>4 DEF Range
    <3> QED BY <2>1, <3>2, <3>3
  <2> QED BY <2>2, <2>4, <2>5, <2>6
<1>6. PICK K : Ready(K, PushAll(SstItems(order)), << >>)
  BY <1>1, <1>5, MergeReady
<1>7. Ready(K, heap', emitted')
  BY <1>2, <1>4, <1>6
<1> QED BY <1>1, <1>2, <1>7, TablesKept

\* A pair is read.
LEMMA ReadKeeps == ASSUME HeapInv, Read PROVE HeapInv'
<1>1. TypeOK /\ Finite /\ Ahead
  BY DEF HeapInv
<1>2. /\ scanning \in {"scan", "merge"} /\ heap # << >>
      /\ scanning' = scanning /\ max_tranc_id' = max_tranc_id /\ UNCHANGED <<tbls, writes>>
      /\ emitted' = Append(emitted, [key |-> Head(heap).key, value |-> Head(heap).value])
      /\ heap' = Increment(heap)
      /\ max_tranc_id \in ScanIds \cup {0}
  BY <1>1 DEF Read, TypeOK
<1>3. Head(heap) = heap[1]
  BY <1>1, <1>2 DEF TypeOK
<1>4. PICK id, h, e, f :
        /\ id = max_tranc_id /\ h = heap /\ e = emitted
        /\ f = Append(e, [key |-> h[1].key, value |-> h[1].value])
  OBVIOUS
<1>5. CASE scanning = "merge"
  <2>1. PICK K : Ready(K, heap, emitted) /\ max_tranc_id = 0
    BY <1>1, <1>5 DEF Ahead
  <2>2. Ready(K, h, e) /\ h # << >>
    BY <1>2, <1>4, <2>1
  <2>3. PICK R : Ready(R, Increment(h), f)
    BY <1>1, <1>4, <2>1, <2>2, ReadReady
  <2>4. Ready(R, heap', emitted')
    BY <1>2, <1>3, <1>4, <2>3
  <2> QED BY <1>1, <1>2, <1>5, <2>1, <2>4, TablesKept
<1>6. CASE scanning = "scan"
  <2>1. PICK K : Scanned(max_tranc_id, K, heap, emitted)
    BY <1>1, <1>6 DEF Ahead
  <2>2. Scanned(id, K, h, e) /\ h # << >>
    BY <1>2, <1>4, <2>1
  <2>3. PICK R : Scanned(id, R, Increment(h), f)
    BY <1>1, <1>4, <2>2, ReadScanned
  <2>4. Scanned(max_tranc_id', R, heap', emitted')
    BY <1>2, <1>3, <1>4, <2>3
  <2> QED BY <1>1, <1>2, <1>6, <2>4, TablesKept
<1> QED BY <1>2, <1>5, <1>6

\* A client is done with its iterator.
LEMMA EndKeeps == ASSUME HeapInv, End PROVE HeapInv'
<1>1. TypeOK /\ Finite /\ Ahead
  BY DEF HeapInv
<1>2. /\ scanning' = "none" /\ emitted' = << >> /\ max_tranc_id' = 0 /\ heap' = << >>
      /\ UNCHANGED <<tbls, writes>>
  BY DEF End
<1>3. TypeOK'
  BY <1>1, <1>2 DEF TypeOK
<1>4. Finite'
  BY <1>1, <1>2 DEF Finite
<1>5. Ahead'
  BY <1>2 DEF Ahead
<1> QED BY <1>3, <1>4, <1>5 DEF HeapInv

\* The invariant holds in every state.
THEOREM HeapInvariant == Spec => []HeapInv
<1>1. HeapInv /\ [Next]_vars => HeapInv'
  <2> SUFFICES ASSUME HeapInv, [Next]_vars PROVE HeapInv'
    OBVIOUS
  <2>1. CASE UNCHANGED vars
    <3>1. TypeOK' /\ Finite'
      BY <2>1 DEF vars, HeapInv, TypeOK, Finite
    <3>2. scanning' = scanning /\ max_tranc_id' = max_tranc_id /\ heap' = heap
          /\ emitted' = emitted /\ UNCHANGED tbls
      BY <2>1 DEF vars
    <3>3. PICK id, h, e : id = max_tranc_id /\ h = heap /\ e = emitted
      OBVIOUS
    <3>4. ASSUME NEW K
          PROVE  /\ Ready(K, heap, emitted) => Ready(K, heap, emitted)'
                 /\ Scanned(max_tranc_id, K, heap, emitted)
                      => Scanned(max_tranc_id, K, heap, emitted)'
      <4>1. /\ Ready(K, h, e) => Ready(K, heap, emitted)'
            /\ Scanned(id, K, h, e) => Scanned(max_tranc_id, K, heap, emitted)'
        BY <3>2, <3>3, Kept
      <4> QED BY <3>3, <4>1
    <3>5. Ahead'
      BY <3>2, <3>4 DEF HeapInv, Ahead
    <3> QED BY <3>1, <3>5 DEF HeapInv
  <2>2. CASE Write
    BY <2>2, WriteKeeps
  <2>3. CASE Freeze
    BY <2>3, FreezeKeeps
  <2>4. CASE begin
    BY <2>4, BeginKeeps
  <2>5. CASE merge_sst_iterator
    BY <2>5, MergeKeeps
  <2>6. CASE Read
    BY <2>6, ReadKeeps
  <2>7. CASE End
    BY <2>7, EndKeeps
  <2> QED BY <2>1, <2>2, <2>3, <2>4, <2>5, <2>6, <2>7 DEF Next
<1> QED BY <1>1, InitHolds, PTL DEF Spec

\* The tables, the items in the heap and the pairs read have their types, and each
\* item in the heap has the index of a table.
THEOREM HeapTypeOK == Spec => []TypeOK
<1>1. HeapInv => TypeOK
  BY DEF HeapInv
<1> QED BY <1>1, HeapInvariant, PTL

\* A scan reads keys in ascending order and none twice, only what a table holds and,
\* without a transaction id, no deletion; every live key with its ids in step it reads
\* with the value that get would find, whatever the ids of other keys are.
THEOREM HeapScanMatchesGet == Spec => []ScanMatchesGet
<1>1. ASSUME HeapInv PROVE ScanMatchesGet
  <2> SUFFICES ASSUME scanning = "scan"
               PROVE  /\ \A i, j \in DOMAIN emitted : i < j => emitted[i].key < emitted[j].key
                      /\ \A i \in DOMAIN emitted :
                           /\ Passed(emitted[i].key) /\ Showable(emitted[i])
                           /\ max_tranc_id = 0 => emitted[i].value # 0
                      /\ \A k \in Live :
                           InStep(k) /\ Passed(k) => \E i \in DOMAIN emitted : emitted[i].key = k
    BY DEF ScanMatchesGet
  <2>1. TypeOK
    BY <1>1 DEF HeapInv
  <2>2. PICK K : Scanned(max_tranc_id, K, heap, emitted)
    BY <1>1 DEF HeapInv, Ahead
  <2>3. /\ Holds(Stepped(FALSE), AllItems(FALSE), K, heap)
        /\ Coherent(Stepped(FALSE), AllItems(FALSE))
    BY <2>1, <2>2, AllCoherent DEF Scanned
  <2>4. ASSUME heap # << >>
        PROVE  /\ Head(heap) = heap[1] /\ heap[1].key \in K
               /\ \A k \in K : heap[1].key <= k /\ k \in Nat
    <3>1. Head(heap) = heap[1]
      BY <2>1, <2>4 DEF TypeOK
    <3>2. PICK h, G, S : /\ h = heap /\ h # << >> /\ Holds(G, S, K, h) /\ Coherent(G, S)
      BY <2>3, <2>4
    <3>3. h[1].key \in K /\ \A k \in K : h[1].key <= k
      BY <3>2, RootIs
    <3>4. \A k \in K : k \in Nat
      BY <3>2, KeysAre
    <3> QED BY <3>1, <3>2, <3>3, <3>4
  <2>5. heap = << >> => K = {}
    BY <2>3, EmptyIs
  <2>6. ASSUME NEW i \in DOMAIN emitted PROVE Passed(emitted[i].key)
    <3>1. \A l \in K : emitted[i].key < l
      BY <2>2 DEF Scanned
    <3> QED BY <2>4, <3>1 DEF Passed
  <2>7. ASSUME NEW k \in Live, InStep(k), Passed(k)
        PROVE  \E i \in DOMAIN emitted : emitted[i].key = k
    <3>1. k \notin K
      <4>1. ASSUME k \in K, heap # << >> PROVE FALSE
        <5>1. heap[1].key \in Nat /\ heap[1].key <= k /\ k < heap[1].key /\ k \in Nat
          BY <2>4, <2>7, <4>1 DEF Passed
        <5> QED BY <5>1
      <4> QED BY <2>5, <4>1
    <3> QED BY <2>2, <2>7, <3>1 DEF Scanned
  <2> QED BY <2>2, <2>6, <2>7 DEF Scanned
<1> QED BY <1>1, HeapInvariant, PTL

\* A merge yields every key once, in ascending order, with the value of the SST with
\* the highest id, and of the deleted keys at most the first of all.
THEOREM HeapMergeMatchesGet == Spec => []MergeMatchesGet
<1>1. ASSUME HeapInv PROVE MergeMatchesGet
  <2> SUFFICES ASSUME scanning = "merge"
               PROVE  IsPrefix(emitted, Merged) /\ (heap = << >> => emitted = Merged)
    BY DEF MergeMatchesGet
  <2>1. PICK W : W = MergedKeys
    OBVIOUS
  <2>2. Merged = Shown(W)
    BY <2>1 DEF Merged, MergedKeys
  <2>3. W \in SUBSET Stored /\ TypeOK /\ Finite
    BY <1>1, <2>1 DEF MergedKeys, HeapInv
  <2>4. IsFiniteSet(W) /\ W \in SUBSET Nat
    BY <2>3, ShownType
  <2>5. PICK K : Ready(K, heap, emitted)
    BY <1>1 DEF HeapInv, Ahead
  <2>6. /\ emitted = Shown(W \ K) /\ \A k \in W \ K, l \in K : k < l
        /\ Holds(Stepped(TRUE), AllItems(TRUE), K, heap)
    BY <2>1, <2>5 DEF Ready
  <2>7. IsPrefix(Shown(W \ K), Shown(W))
    <3>1. PICK R \in SUBSET W : R = W \ K
      OBVIOUS
    <3>2. \A r \in R, k \in W : k \notin R => r < k
      BY <2>6, <3>1
    <3> QED BY <2>4, <3>1, <3>2, ShownPrefix
  <2>8. ASSUME heap = << >> PROVE emitted = Shown(W)
    <3>1. W \ K = W
      BY <2>6, <2>8, EmptyIs
    <3> QED BY <2>6, <3>1
  <2> QED BY <2>2, <2>6, <2>7, <2>8
<1> QED BY <1>1, HeapInvariant, PTL
==============================================================================
