---------------------------- MODULE SkipListProofs ----------------------------
(***************************************************************************)
(* The SkipList is well linked, is searched as if it were scanned, counts  *)
(* its bytes exactly, keeps a client's iterator useful and implements      *)
(* OrderedMap, for any finite or infinite set of keys and values, any      *)
(* number of addresses and any number of levels.                           *)
(*                                                                         *)
(* The argument: some set L of nodes is linked (Shape): on every lane each *)
(* of them, and the head, leads to the next larger one of L, and is led    *)
(* to by the one its backward pointer names.  Nodes outside of L are       *)
(* removed ones that the iterator still owns; their pointers only ever     *)
(* lead to larger keys (Ascends), so that every walk ends.                 *)
(***************************************************************************)
EXTENDS SkipList, CommonTheorems

\* A node's key, its pointers on lane i, and whether it takes part in lane i.
KeyOf(h, m) == h[m].key
Fwd(h, m, i) == h[m].forward[i]
Bwd(h, m, i) == h[m].backward[i]
Tall(h, m, i) == i \in DOMAIN h[m].forward

\* The nodes are well formed, finitely many, and know each other.
HeapType(h) ==
  /\ Sentinel \in DOMAIN h /\ DOMAIN h \subseteq NodeId \cup {Sentinel}
  /\ IsFiniteSet(DOMAIN h)
  /\ \A n \in DOMAIN h :
       /\ h[n] \in Node
       /\ DOMAIN h[n].forward = DOMAIN h[n].backward
       /\ \A i : Tall(h, n, i) => Bwd(h, n, i) \in DOMAIN h \cup {Nil}
       /\ n # Sentinel => h[n].key \in Key
  /\ DOMAIN h[Sentinel].forward = Level
  /\ h[Sentinel].key = 0 /\ h[Sentinel].value = 0 /\ h[Sentinel].tranc_id = 0

\* Every forward pointer leads on to a larger key, on a lane the node there takes
\* part in.  This holds for removed nodes too.
Ascends(h) ==
  \A n \in DOMAIN h, i \in Level : Tall(h, n, i) =>
    \/ Fwd(h, n, i) = Nil
    \/ /\ Fwd(h, n, i) \in DOMAIN h \ {Sentinel}
       /\ Tall(h, Fwd(h, n, i), i)
       /\ n = Sentinel \/ KeyOf(h, n) < KeyOf(h, Fwd(h, n, i))

-----------------------------------------------------------------------------
(* Recursion over something that gets smaller.                             *)

\* f steps from m until it is in stop: to what it finds there, or to the list of what it
\* passes.
Rule(stop, base, step, kind, f, m) ==
  IF m \in stop THEN base[m] ELSE IF kind = "list" THEN <<m>> \o f[step[m]] ELSE f[step[m]]

Follows(D, stop, base, step, kind, f) ==
  f = [m \in D |-> Rule(stop, base, step, kind, f, m)]

\* Where every step lowers the rank, there is a function that follows the rule.
LEMMA FollowExists ==
  ASSUME NEW D, NEW stop, NEW base, NEW step, NEW kind, NEW N \in Nat, NEW rank,
         \A m \in D : rank[m] \in 0 .. N,
         \A m \in D : m \notin stop => step[m] \in D /\ rank[step[m]] < rank[m]
  PROVE  \E f : Follows(D, stop, base, step, kind, f)
<1> DEFINE Low(n) == {m \in D : rank[m] < n}
           Up(n, g) == g = [m \in Low(n) |-> Rule(stop, base, step, kind, g, m)]
           H == {n \in Nat : ~ \E g : Up(n, g)}
<1>1. SUFFICES H = {}
  <2>1. N + 1 \in Nat /\ N + 1 \notin H
    <3> HIDE DEF H
    <3> QED BY <1>1
  <2>2. Low(N + 1) = D
    OBVIOUS
  <2> QED BY <2>1, <2>2 DEF Follows
<1>2. SUFFICES ASSUME H # {} PROVE FALSE
  OBVIOUS
<1>3. PICK n \in H : \A m \in H : n <= m
  BY <1>2, Least
<1>4. n # 0
  <2>1. Low(0) = {}
    OBVIOUS
  <2> DEFINE g == [m \in {} |-> 0]
  <2>2. g = [m \in {} |-> Rule(stop, base, step, kind, g, m)]
    OBVIOUS
  <2>3. Up(0, g)
    BY <2>1, <2>2
  <2> QED BY <2>3
<1>5. n - 1 \in Nat /\ n - 1 \notin H
  <2>1. n \in Nat /\ n - 1 \in Nat
    BY <1>4
  <2> HIDE DEF H
  <2> QED BY <1>3, <2>1
<1>6. PICK g : Up(n - 1, g)
  BY <1>5
<1> DEFINE h == [m \in Low(n) |-> Rule(stop, base, step, kind, g, m)]
<1>7. ASSUME NEW m \in Low(n), m \notin stop PROVE h[step[m]] = g[step[m]]
  <2>1. step[m] \in Low(n - 1) /\ step[m] \in Low(n)
    BY <1>7, <1>5
  <2>2. g[step[m]] = Rule(stop, base, step, kind, g, step[m])
    BY <1>6, <2>1
  <2>3. h[step[m]] = Rule(stop, base, step, kind, g, step[m])
    BY <2>1
  <2> QED BY <2>2, <2>3
<1>8. ASSUME NEW m \in Low(n)
      PROVE  Rule(stop, base, step, kind, h, m) = Rule(stop, base, step, kind, g, m)
  <2>1. CASE m \in stop
    BY <2>1 DEF Rule
  <2>2. CASE m \notin stop
    <3>1. h[step[m]] = g[step[m]]
      BY <1>7, <2>2
    <3> HIDE DEF h
    <3> QED BY <2>2, <3>1 DEF Rule
  <2> QED BY <2>1, <2>2
<1>9. h = [m \in Low(n) |-> Rule(stop, base, step, kind, h, m)]
  <2>1. h = [m \in Low(n) |-> Rule(stop, base, step, kind, g, m)]
    OBVIOUS
  <2> HIDE DEF h, Low
  <2> QED BY <1>8, <2>1
<1>10. Up(n, h)
  BY <1>9
<1> QED BY <1>3, <1>10

-----------------------------------------------------------------------------
(* Ranks.                                                                  *)

\* A finite set of naturals has an upper bound.
LEMMA Bounded ==
  ASSUME NEW S, IsFiniteSet(S), NEW f, \A x \in S : f[x] \in Nat
  PROVE  \E top \in Nat : \A x \in S : f[x] < top
<1> DEFINE H == {s \in SUBSET S : ~ \E top \in Nat : \A x \in s : f[x] < top}
<1>1. SUFFICES ASSUME H # {} PROVE FALSE
  OBVIOUS
<1>2. \A s \in H : IsFiniteSet(s)
  BY FS_Subset
<1>3. PICK s \in H : \A r \in H : Cardinality(s) <= Cardinality(r)
  BY <1>1, <1>2, Smallest
<1>4. s # {}
  <2>1. 0 \in Nat /\ \A x \in {} : f[x] < 0
    OBVIOUS
  <2> QED BY <2>1
<1>5. PICK x \in s : TRUE
  BY <1>4
<1>6. s \ {x} \notin H
  BY <1>2, <1>3, Smaller
<1>7. PICK top \in Nat : \A y \in s \ {x} : f[y] < top
  BY <1>6
<1>8. x \in S /\ f[x] \in Nat
  OBVIOUS
<1> DEFINE up == IF f[x] < top THEN top ELSE f[x] + 1
<1>9. up \in Nat /\ \A y \in s : f[y] < up
  <2>1. up \in Nat /\ top <= up /\ f[x] < up
    BY <1>8
  <2>2. ASSUME NEW y \in s PROVE f[y] < up
    <3>1. f[y] \in Nat
      OBVIOUS
    <3>2. y # x => f[y] < top
      BY <1>7
    <3> HIDE DEF up
    <3> QED BY <2>1, <3>1, <3>2
  <2> QED BY <2>1, <2>2
<1> HIDE DEF up
<1> QED BY <1>9

\* The lower the rank of a node, the nearer the end of its lanes; top is above all keys.
Rank(h, top, m) ==
  IF m = Nil THEN 0 ELSE IF m = Sentinel THEN top + 1 ELSE top - KeyOf(h, m)

\* Every pointer of every lane lowers the rank.
LEMMA Ranks ==
  ASSUME NEW h, HeapType(h), Ascends(h)
  PROVE  \E top \in Nat :
           /\ \A m \in DOMAIN h \cup {Nil} : Rank(h, top, m) \in 0 .. top + 1
           /\ \A m \in DOMAIN h, i \in Level :
                Tall(h, m, i) => Rank(h, top, Fwd(h, m, i)) < Rank(h, top, m)
<1> DEFINE S == DOMAIN h \ {Sentinel}
           f == [m \in S |-> KeyOf(h, m)]
<1>1. IsFiniteSet(S)
  BY FS_Subset DEF HeapType
<1>2. \A m \in S : KeyOf(h, m) \in Nat
  BY TableAssumption DEF HeapType, KeyOf
<1>3. \A m \in S : f[m] \in Nat /\ f[m] = KeyOf(h, m)
  BY <1>2
<1> HIDE DEF f
<1>4. PICK top \in Nat : \A m \in S : f[m] < top
  BY <1>1, <1>3, Bounded
<1>5. \A m \in S : KeyOf(h, m) \in Nat /\ KeyOf(h, m) < top
  BY <1>3, <1>4
<1>6. Nil \notin DOMAIN h /\ Sentinel # Nil
  BY SkipListAssumption DEF HeapType
<1>7. ASSUME NEW m \in DOMAIN h \cup {Nil} PROVE Rank(h, top, m) \in 0 .. top + 1
  BY <1>5 DEF Rank
<1>8. ASSUME NEW m \in DOMAIN h, NEW i \in Level, Tall(h, m, i)
      PROVE  Rank(h, top, Fwd(h, m, i)) < Rank(h, top, m)
  <2>1. CASE Fwd(h, m, i) = Nil
    BY <1>5, <1>6, <2>1 DEF Rank
  <2>2. CASE Fwd(h, m, i) # Nil
    <3>1. /\ Fwd(h, m, i) \in DOMAIN h \ {Sentinel}
          /\ m = Sentinel \/ KeyOf(h, m) < KeyOf(h, Fwd(h, m, i))
      BY <1>8, <2>2 DEF Ascends
    <3> QED BY <1>5, <1>6, <2>2, <3>1 DEF Rank
  <2> QED BY <2>1, <2>2
<1> QED BY <1>7, <1>8

\* In a set of nodes there is one that leads to no other.
LEMMA LastOne ==
  ASSUME NEW h, HeapType(h), Ascends(h), NEW H, H \subseteq DOMAIN h, H # {}
  PROVE  \E m \in H : \A i \in Level : Tall(h, m, i) => Fwd(h, m, i) \notin H
<1>1. PICK top \in Nat :
        /\ \A m \in DOMAIN h \cup {Nil} : Rank(h, top, m) \in 0 .. top + 1
        /\ \A m \in DOMAIN h, i \in Level :
             Tall(h, m, i) => Rank(h, top, Fwd(h, m, i)) < Rank(h, top, m)
  BY Ranks
<1> DEFINE R == {Rank(h, top, m) : m \in H}
<1>2. R \in SUBSET Nat /\ R # {}
  BY <1>1
<1>3. PICK r \in R : \A q \in R : r <= q
  BY <1>2, Least
<1>4. PICK m \in H : r = Rank(h, top, m)
  BY <1>3
<1>5. ASSUME NEW i \in Level, Tall(h, m, i), Fwd(h, m, i) \in H PROVE FALSE
  <2>1. Rank(h, top, Fwd(h, m, i)) < Rank(h, top, m)
    BY <1>1, <1>5
  <2>2. r <= Rank(h, top, Fwd(h, m, i))
    BY <1>3, <1>5
  <2>3. Rank(h, top, m) \in Nat /\ Rank(h, top, Fwd(h, m, i)) \in Nat
    BY <1>1, <1>5
  <2> QED BY <1>4, <2>1, <2>2, <2>3
<1> QED BY <1>5

-----------------------------------------------------------------------------
(* The recursive functions of the model do what their definitions say.     *)

\* Whether Advance leaves n.
Goes(i, n, keys) == Fwd(heap, n, i) # Nil /\ KeyOf(heap, Fwd(heap, n, i)) \in keys

\* Lanes are made of nodes; every node is on the lowest lane.
LEMMA LaneIs ==
  ASSUME HeapType(heap), Ascends(heap), NEW i \in Level, NEW n \in Lane(i)
  PROVE  /\ n \in DOMAIN heap /\ Tall(heap, n, i) /\ n # Nil
         /\ Fwd(heap, n, i) # Nil => Fwd(heap, n, i) \in Lane(i) \ {Sentinel}
BY SkipListAssumption DEF Lane, HeapType, Ascends, Tall

\* Advance follows lane i as long as the next key is one of keys.
LEMMA AdvanceIs ==
  ASSUME HeapType(heap), Ascends(heap), NEW i \in Level, NEW keys, NEW n \in Lane(i)
  PROVE  Advance(i, n, keys) =
           IF Goes(i, n, keys) THEN Advance(i, Fwd(heap, n, i), keys) ELSE n
<1> DEFINE D == Lane(i)
           W(f) == f = [m \in D |-> LET next == heap[m].forward[i]
                                    IN  IF next # Nil /\ heap[next].key \in keys
                                        THEN f[next] ELSE m]
           w == CHOOSE f : W(f)
           stop == {m \in D : ~ Goes(i, m, keys)}
           base == [m \in D |-> m]
           step == [m \in D |-> Fwd(heap, m, i)]
<1>1. PICK top \in Nat :
        /\ \A m \in DOMAIN heap \cup {Nil} : Rank(heap, top, m) \in 0 .. top + 1
        /\ \A m \in DOMAIN heap, j \in Level :
             Tall(heap, m, j) => Rank(heap, top, Fwd(heap, m, j)) < Rank(heap, top, m)
  BY Ranks
<1> DEFINE rank == [m \in D |-> Rank(heap, top, m)]
<1>2. \A m \in D : rank[m] \in 0 .. top + 1
  BY <1>1, LaneIs
<1>3. \A m \in D : m \notin stop => step[m] \in D /\ rank[step[m]] < rank[m]
  <2> SUFFICES ASSUME NEW m \in D, m \notin stop
               PROVE  step[m] \in D /\ rank[step[m]] < rank[m]
    OBVIOUS
  <2>1. step[m] = Fwd(heap, m, i) /\ Fwd(heap, m, i) # Nil
    BY DEF Goes
  <2>2. Fwd(heap, m, i) \in D /\ m \in DOMAIN heap /\ Tall(heap, m, i)
    BY <2>1, LaneIs
  <2>3. Rank(heap, top, Fwd(heap, m, i)) < Rank(heap, top, m)
    BY <1>1, <2>2
  <2> QED BY <2>1, <2>2, <2>3
<1>5. \E f : f = [m \in D |-> Rule(stop, base, step, "last", f, m)]
  <2> DEFINE most == top + 1
             kind == "last"
  <2>1. most \in Nat /\ \A m \in D : rank[m] \in 0 .. most
    BY <1>2
  <2> HIDE DEF D, stop, base, step, rank, most, kind
  <2>2. \E f : Follows(D, stop, base, step, kind, f)
    BY <1>3, <2>1, FollowExists
  <2> QED BY <2>2 DEF kind, Follows
<1>6. PICK f : f = [m \in D |-> Rule(stop, base, step, "last", f, m)]
  BY <1>5
<1>7. \A m \in D : Rule(stop, base, step, "last", f, m) =
                     IF Fwd(heap, m, i) # Nil /\ KeyOf(heap, Fwd(heap, m, i)) \in keys
                     THEN f[Fwd(heap, m, i)] ELSE m
  BY DEF Rule, Goes
<1>8. W(f)
  <2> HIDE DEF stop, base, step, D
  <2>1. f = [m \in D |-> IF Fwd(heap, m, i) # Nil /\ KeyOf(heap, Fwd(heap, m, i)) \in keys
                         THEN f[Fwd(heap, m, i)] ELSE m]
    BY <1>6, <1>7
  <2> QED BY <2>1 DEF Fwd, KeyOf
<1>9. W(w)
  <2> HIDE DEF W
  <2> QED BY <1>8
<1>10. \A m \in D : Advance(i, m, keys) = w[m]
  BY DEF Advance
<1>11. w[n] = IF Goes(i, n, keys) THEN w[Fwd(heap, n, i)] ELSE n
  <2> HIDE DEF w
  <2> QED BY <1>9 DEF Goes, Fwd, KeyOf
<1>12. Goes(i, n, keys) => Fwd(heap, n, i) \in D
  BY LaneIs DEF Goes
<1> HIDE DEF w, D
<1> QED BY <1>10, <1>11, <1>12 DEF D

\* Chain lists what it passes on the way to end.
LEMMA ChainIs ==
  ASSUME HeapType(heap), Ascends(heap), NEW i \in Level,
         NEW end \in Lane(i) \cup {Nil}, NEW n \in Lane(i) \cup {Nil}
  PROVE  Chain(i, n, end) =
           IF n \in {Nil, end} THEN << >> ELSE <<n>> \o Chain(i, Fwd(heap, n, i), end)
<1> DEFINE D == Lane(i) \cup {Nil, end}
           W(f) == f = [m \in D |-> IF m \in {Nil, end} THEN << >>
                                    ELSE <<m>> \o f[heap[m].forward[i]]]
           w == CHOOSE f : W(f)
           stop == {Nil, end}
           base == [m \in D |-> << >>]
           step == [m \in D |-> Fwd(heap, m, i)]
<1>1. PICK top \in Nat :
        /\ \A m \in DOMAIN heap \cup {Nil} : Rank(heap, top, m) \in 0 .. top + 1
        /\ \A m \in DOMAIN heap, j \in Level :
             Tall(heap, m, j) => Rank(heap, top, Fwd(heap, m, j)) < Rank(heap, top, m)
  BY Ranks
<1> DEFINE rank == [m \in D |-> Rank(heap, top, m)]
<1>2. \A m \in D : rank[m] \in 0 .. top + 1
  BY <1>1, LaneIs
<1>3. \A m \in D : m \notin stop => step[m] \in D /\ rank[step[m]] < rank[m]
  <2> SUFFICES ASSUME NEW m \in D, m \notin stop
               PROVE  step[m] \in D /\ rank[step[m]] < rank[m]
    OBVIOUS
  <2>1. step[m] = Fwd(heap, m, i) /\ m \in Lane(i)
    OBVIOUS
  <2>2. Fwd(heap, m, i) \in D /\ m \in DOMAIN heap /\ Tall(heap, m, i)
    BY <2>1, LaneIs
  <2>3. Rank(heap, top, Fwd(heap, m, i)) < Rank(heap, top, m)
    BY <1>1, <2>2
  <2> QED BY <2>1, <2>2, <2>3
<1>5. \E f : f = [m \in D |-> Rule(stop, base, step, "list", f, m)]
  <2> DEFINE most == top + 1
             kind == "list"
  <2>1. most \in Nat /\ \A m \in D : rank[m] \in 0 .. most
    BY <1>2
  <2> HIDE DEF D, stop, base, step, rank, most, kind
  <2>2. \E f : Follows(D, stop, base, step, kind, f)
    BY <1>3, <2>1, FollowExists
  <2> QED BY <2>2 DEF kind, Follows
<1>6. PICK f : f = [m \in D |-> Rule(stop, base, step, "list", f, m)]
  BY <1>5
<1>7. \A m \in D : Rule(stop, base, step, "list", f, m) =
                     IF m \in {Nil, end} THEN << >> ELSE <<m>> \o f[Fwd(heap, m, i)]
  BY DEF Rule
<1>8. W(f)
  <2> HIDE DEF stop, base, step, D
  <2>1. f = [m \in D |-> IF m \in {Nil, end} THEN << >> ELSE <<m>> \o f[Fwd(heap, m, i)]]
    BY <1>6, <1>7
  <2> QED BY <2>1 DEF Fwd
<1>9. W(w)
  <2> HIDE DEF W
  <2> QED BY <1>8
<1>10. \A m \in D : Chain(i, m, end) = w[m]
  BY DEF Chain
<1>11. w[n] = IF n \in {Nil, end} THEN << >> ELSE <<n>> \o w[Fwd(heap, n, i)]
  <2> HIDE DEF w
  <2> QED BY <1>9 DEF Fwd
<1>12. n \notin {Nil, end} => Fwd(heap, n, i) \in D
  BY LaneIs
<1>13. n \in D
  OBVIOUS
<1> HIDE DEF w, D
<1> QED BY <1>10, <1>11, <1>12, <1>13

-----------------------------------------------------------------------------
(* The shape of the list.                                                  *)

\* The linked nodes of lane i that come after m.
Above(h, L, m, i) ==
  {x \in L : Tall(h, x, i) /\ (m = Sentinel \/ KeyOf(h, m) < KeyOf(h, x))}

\* m leads to the first of them on lane i.
Leads(h, L, m, i) ==
  /\ Fwd(h, m, i) = Nil \/ Fwd(h, m, i) \in Above(h, L, m, i)
  /\ \A x \in Above(h, L, m, i) :
       Fwd(h, m, i) # Nil /\ KeyOf(h, Fwd(h, m, i)) <= KeyOf(h, x)

\* The lanes run through the nodes L in the order of their keys, both ways, and
\* below cl.
Shape(h, cl, L) ==
  /\ HeapType(h) /\ Ascends(h)
  /\ cl \in 1 .. MaxLevel
  /\ L \subseteq DOMAIN h \ {Sentinel}
  /\ \A x, y \in L : KeyOf(h, x) = KeyOf(h, y) => x = y
  /\ \A m \in L \cup {Sentinel}, i \in Level : Tall(h, m, i) => Leads(h, L, m, i)
  /\ \A x \in L, i \in Level : Tall(h, x, i) =>
       /\ i < cl
       /\ Bwd(h, x, i) \in L \cup {Sentinel}
       /\ Tall(h, Bwd(h, x, i), i)
       /\ Fwd(h, Bwd(h, x, i), i) = x

\* p is where a search for k leaves lane i.
IsPred(h, L, i, k, p) ==
  /\ p \in L \cup {Sentinel} /\ Tall(h, p, i)
  /\ p = Sentinel \/ KeyOf(h, p) < k
  /\ Fwd(h, p, i) = Nil \/ KeyOf(h, Fwd(h, p, i)) >= k

\* What the type of the heap says of one node: among others that a node that takes part
\* in a lane takes part in all lanes below it.
LEMMA NodeIs ==
  ASSUME NEW h, HeapType(h), NEW n \in DOMAIN h
  PROVE  /\ Tall(h, n, 0) /\ 0 \in Level
         /\ n # Sentinel => KeyOf(h, n) \in Key
         /\ KeyOf(h, n) \in Nat
         /\ n # Nil
         /\ \A i \in Level : Tall(h, Sentinel, i)
         /\ \A i : Tall(h, n, i) => i \in Level /\ \A j \in 0 .. i : Tall(h, n, j)
<1>1. /\ n \in NodeId \cup {Sentinel} /\ h[n] \in Node
      /\ n # Sentinel => h[n].key \in Key
      /\ DOMAIN h[Sentinel].forward = Level
  BY DEF HeapType
<1>2. PICK l \in 1 .. MaxLevel : h[n].forward \in [0 .. l - 1 -> NodeId \cup {Nil}]
  BY <1>1 DEF Node
<1>3. DOMAIN h[n].forward = 0 .. l - 1
  BY <1>2
<1>4. MaxLevel \in Nat /\ l \in Nat /\ 1 <= l /\ l <= MaxLevel
  BY SkipListAssumption
<1>5. h[n].key \in Key \cup {0} /\ Key \subseteq Nat
  BY <1>1, TableAssumption DEF Node
<1>6. n # Nil
  BY <1>1, SkipListAssumption
<1>7. \A i : Tall(h, n, i) <=> i \in 0 .. l - 1
  BY <1>3 DEF Tall
<1>8. \A i \in Level : Tall(h, Sentinel, i)
  BY <1>1 DEF Tall
<1>9. n # Sentinel => KeyOf(h, n) \in Key
  BY <1>1 DEF KeyOf
<1>10. KeyOf(h, n) \in Nat
  BY <1>5 DEF KeyOf
<1>11. \A i \in 0 .. l - 1 : i \in Level /\ \A j \in 0 .. i : j \in 0 .. l - 1
  BY <1>4 DEF Level
<1>12. 0 \in 0 .. l - 1 /\ 0 \in Level
  BY <1>4 DEF Level
<1> QED BY <1>6, <1>7, <1>8, <1>9, <1>10, <1>11, <1>12

\* The nodes that are not below k are the ones above the node where the search for k
\* leaves the lane.
LEMMA PredAbove ==
  ASSUME NEW h, NEW cl, NEW L, Shape(h, cl, L), NEW i \in Level, NEW k \in Nat,
         NEW p, IsPred(h, L, i, k, p), NEW x \in L, Tall(h, x, i)
  PROVE  x \in Above(h, L, p, i) <=> KeyOf(h, x) >= k
<1>1. Leads(h, L, p, i)
  BY DEF Shape, IsPred
<1>2. HeapType(h) /\ x \in DOMAIN h /\ p \in DOMAIN h
  BY DEF Shape, IsPred, HeapType
<1>3. KeyOf(h, x) \in Nat /\ KeyOf(h, p) \in Nat
  BY <1>2, NodeIs
<1>4. Fwd(h, p, i) # Nil => KeyOf(h, Fwd(h, p, i)) \in Nat
  BY <1>1, <1>2, NodeIs DEF Leads, Above, Shape
<1> QED BY <1>1, <1>3, <1>4 DEF Leads, Above, IsPred

\* There is only one such node.
LEMMA PredUnique ==
  ASSUME NEW h, NEW cl, NEW L, Shape(h, cl, L), NEW i \in Level, NEW k \in Nat,
         NEW p, IsPred(h, L, i, k, p), NEW q, IsPred(h, L, i, k, q)
  PROVE  p = q
<1>1. HeapType(h) /\ q \in DOMAIN h /\ p \in DOMAIN h
  BY DEF Shape, IsPred, HeapType
<1>2. KeyOf(h, q) \in Nat /\ KeyOf(h, p) \in Nat
  BY <1>1, NodeIs
<1>3. /\ p \in L => Tall(h, p, i) /\ ~(KeyOf(h, p) >= k)
      /\ q \in L => Tall(h, q, i) /\ ~(KeyOf(h, q) >= k)
  BY <1>2 DEF IsPred, Shape
<1>4. p \in L => ~(p \in Above(h, L, q, i))
  BY <1>3, PredAbove
<1>5. q \in L => ~(q \in Above(h, L, p, i))
  BY <1>3, PredAbove
<1>6. CASE p \in L /\ q \in L
  BY <1>2, <1>4, <1>5, <1>6 DEF Above, IsPred, Shape
<1>7. CASE ~(p \in L /\ q \in L)
  BY <1>2, <1>4, <1>5, <1>7 DEF Above, IsPred
<1> QED BY <1>6, <1>7

\* Advance finds it from any node of the lane that is below k.
LEMMA AdvancePred ==
  ASSUME NEW L, Shape(heap, current_level, L), NEW i \in Level, NEW k \in Nat,
         NEW n \in L \cup {Sentinel}, Tall(heap, n, i), n = Sentinel \/ KeyOf(heap, n) < k,
         NEW keys,
         \A x \in Key : (n = Sentinel \/ KeyOf(heap, n) < x) => (x \in keys <=> x < k)
  PROVE  IsPred(heap, L, i, k, Advance(i, n, keys))
<1> DEFINE At(m) == /\ m \in L \cup {Sentinel} /\ Tall(heap, m, i)
                    /\ m = Sentinel \/ KeyOf(heap, m) < k
                    /\ m = n \/ (m \in L /\ (n = Sentinel \/ KeyOf(heap, n) < KeyOf(heap, m)))
           H == {m \in L \cup {Sentinel} :
                   At(m) /\ ~IsPred(heap, L, i, k, Advance(i, m, keys))}
<1>1. SUFFICES H = {}
  BY <1>1
<1>2. SUFFICES ASSUME H # {} PROVE FALSE
  OBVIOUS
<1>3. HeapType(heap) /\ Ascends(heap) /\ H \subseteq DOMAIN heap
  BY DEF Shape, HeapType
<1>4. PICK m \in H : \A j \in Level : Tall(heap, m, j) => Fwd(heap, m, j) \notin H
  <2> HIDE DEF H
  <2> QED BY <1>2, <1>3, LastOne
<1>5. /\ At(m) /\ ~IsPred(heap, L, i, k, Advance(i, m, keys)) /\ m \in Lane(i)
      /\ Fwd(heap, m, i) \notin H /\ m \in DOMAIN heap /\ n \in DOMAIN heap
  BY <1>3, <1>4 DEF Lane, Tall, Shape, HeapType
<1> DEFINE next == Fwd(heap, m, i)
<1>6. Leads(heap, L, m, i)
  BY <1>5 DEF Shape
<1>7. next # Nil => /\ next \in L /\ Tall(heap, next, i) /\ KeyOf(heap, next) \in Key
                    /\ n = Sentinel \/ KeyOf(heap, n) < KeyOf(heap, next)
  <2> SUFFICES ASSUME next # Nil
               PROVE  /\ next \in L /\ Tall(heap, next, i) /\ KeyOf(heap, next) \in Key
                      /\ n = Sentinel \/ KeyOf(heap, n) < KeyOf(heap, next)
    OBVIOUS
  <2>1. next \in Above(heap, L, m, i)
    BY <1>6 DEF Leads
  <2>2. next \in L /\ Tall(heap, next, i) /\ next \in DOMAIN heap \ {Sentinel}
    BY <2>1 DEF Above, Shape
  <2>3. KeyOf(heap, next) \in Key /\ KeyOf(heap, next) \in Nat
    BY <1>3, <2>2, NodeIs
  <2>4. KeyOf(heap, m) \in Nat /\ KeyOf(heap, n) \in Nat
    BY <1>3, <1>5, NodeIs
  <2>5. m \in L => m # Sentinel
    BY DEF Shape
  <2> HIDE DEF next
  <2> QED BY <1>5, <2>1, <2>2, <2>3, <2>4, <2>5 DEF Above
<1>8. Advance(i, m, keys) = IF Goes(i, m, keys) THEN Advance(i, next, keys) ELSE m
  BY <1>3, <1>5, AdvanceIs
<1>9. CASE Goes(i, m, keys)
  <2>1. At(next)
    <3>1. next # Nil /\ KeyOf(heap, next) \in keys
      BY <1>9 DEF Goes
    <3>2. KeyOf(heap, next) < k
      BY <1>7, <3>1
    <3> HIDE DEF next
    <3> QED BY <1>7, <3>1, <3>2
  <2>2. IsPred(heap, L, i, k, Advance(i, next, keys))
    <3> HIDE DEF next
    <3> QED BY <1>5, <2>1 DEF next
  <2> QED BY <1>5, <1>8, <1>9, <2>2
<1>10. CASE ~Goes(i, m, keys)
  <2>1. next = Nil \/ KeyOf(heap, next) >= k
    <3> SUFFICES ASSUME next # Nil PROVE KeyOf(heap, next) >= k
      OBVIOUS
    <3>1. KeyOf(heap, next) \notin keys /\ KeyOf(heap, next) \in Key
      BY <1>7, <1>10 DEF Goes
    <3>2. KeyOf(heap, next) \in Nat
      BY <3>1, TableAssumption
    <3>3. ~(KeyOf(heap, next) < k)
      BY <1>7, <3>1
    <3> HIDE DEF next
    <3> QED BY <3>2, <3>3
  <2>2. IsPred(heap, L, i, k, m)
    BY <1>5, <2>1 DEF IsPred
  <2> QED BY <1>5, <1>8, <1>10, <2>2
<1> QED BY <1>9, <1>10

\* A node that a search may come to on lane i with k still ahead.
Below(h, L, i, k, m) ==
  m \in L \cup {Sentinel} /\ Tall(h, m, i) /\ (m = Sentinel \/ KeyOf(h, m) < k)

\* A search goes down from lane to lane: the place where it leaves one is on all
\* the lanes below.
LEMMA PredBelow ==
  ASSUME NEW h, NEW cl, NEW L, Shape(h, cl, L), NEW i \in Level, NEW j \in 0 .. i,
         NEW k, NEW p, IsPred(h, L, i, k, p)
  PROVE  Below(h, L, j, k, p)
BY NodeIs DEF Below, IsPred, Shape, HeapType

\* The descent from lane to lane ends on each lane right before k.
LEMMA UpdateIs ==
  ASSUME NEW L, Shape(heap, current_level, L), NEW k \in Nat, NEW i \in Level
  PROVE  IsPred(heap, L, i, k, Update(k)[i])
<1> DEFINE keys == {x \in Key : x < k}
           W(u) == u = [j \in Level |->
                          IF j >= current_level THEN Sentinel
                          ELSE Advance(j, IF j = current_level - 1 THEN Sentinel
                                          ELSE u[j+1], keys)]
           w == CHOOSE u : W(u)
           U == [j \in Level |-> IF j >= current_level THEN Sentinel
                                 ELSE Advance(j, Sentinel, keys)]
<1>1. HeapType(heap) /\ Sentinel \in DOMAIN heap /\ \A j \in Level : Tall(heap, Sentinel, j)
  BY NodeIs DEF Shape, HeapType
<1>2. ASSUME NEW j \in Level, j >= current_level PROVE IsPred(heap, L, j, k, Sentinel)
  <2>1. Leads(heap, L, Sentinel, j)
    BY <1>1 DEF Shape
  <2>2. Above(heap, L, Sentinel, j) = {}
    BY <1>2 DEF Shape, Above, Level
  <2>3. Fwd(heap, Sentinel, j) = Nil
    BY <2>1, <2>2 DEF Leads
  <2> QED BY <1>1, <2>3 DEF IsPred
<1>3. ASSUME NEW j \in Level, NEW n, Below(heap, L, j, k, n)
      PROVE  IsPred(heap, L, j, k, Advance(j, n, keys))
  BY <1>3, AdvancePred DEF Below
<1>4. \A j \in Level : Below(heap, L, j, k, Sentinel)
  BY <1>1 DEF Below
<1> HIDE DEF keys
<1>5. \A j \in Level : j \in Nat /\ (j < current_level /\ j # current_level - 1 => j + 1 \in Level)
  BY SkipListAssumption DEF Level, Shape
<1>6. W(U)
  <2>1. ASSUME NEW j \in Level, j < current_level, j # current_level - 1
        PROVE  Advance(j, U[j+1], keys) = Advance(j, Sentinel, keys)
    <3>1. j + 1 \in Level /\ j \in 0 .. j + 1 /\ ~(j + 1 >= current_level)
      BY <1>5, <2>1 DEF Shape
    <3>2. U[j+1] = Advance(j + 1, Sentinel, keys)
      BY <3>1
    <3>3. IsPred(heap, L, j + 1, k, U[j+1])
      BY <1>3, <1>4, <3>1, <3>2
    <3>4. Below(heap, L, j, k, U[j+1])
      <4> HIDE DEF U
      <4> QED BY <3>1, <3>3, PredBelow
    <3>5. IsPred(heap, L, j, k, Advance(j, U[j+1], keys))
      BY <1>3, <3>4
    <3>6. IsPred(heap, L, j, k, Advance(j, Sentinel, keys))
      BY <1>3, <1>4
    <3> HIDE DEF U
    <3> QED BY <3>5, <3>6, PredUnique
  <2>2. ASSUME NEW j \in Level
        PROVE  U[j] = IF j >= current_level THEN Sentinel
                      ELSE Advance(j, IF j = current_level - 1 THEN Sentinel ELSE U[j+1], keys)
    <3>1. U[j] = IF j >= current_level THEN Sentinel ELSE Advance(j, Sentinel, keys)
      OBVIOUS
    <3>2. ~(j >= current_level) => j < current_level
      BY <1>5 DEF Shape
    <3> HIDE DEF U
    <3> QED BY <2>1, <3>1, <3>2
  <2>3. U = [j \in Level |-> U[j]]
    OBVIOUS
  <2> HIDE DEF U
  <2> QED BY <2>2, <2>3
<1>7. W(w)
  <2> HIDE DEF W, U
  <2> QED BY <1>6
<1>8. Update(k) = w
  BY DEF Update, Descend, keys
<1> HIDE DEF U
<1>9. ASSUME NEW j \in Level
      PROVE  w[j] = IF j >= current_level THEN Sentinel
                    ELSE Advance(j, IF j = current_level - 1 THEN Sentinel ELSE w[j+1], keys)
  <2> HIDE DEF w
  <2> QED BY <1>7
<1> HIDE DEF W, w
<1> DEFINE H == {d \in 1 .. MaxLevel : ~IsPred(heap, L, MaxLevel - d, k, w[MaxLevel - d])}
<1>10. H = {}
  <2>1. SUFFICES ASSUME H # {} PROVE FALSE
    OBVIOUS
  <2>2. H \in SUBSET Nat
    BY SkipListAssumption
  <2>3. PICK d \in H : \A e \in H : d <= e
    <3> HIDE DEF H
    <3> QED BY <2>1, <2>2, Least
  <2> DEFINE j == MaxLevel - d
  <2>4. j \in Level /\ d \in 1 .. MaxLevel /\ MaxLevel \in Nat
    BY SkipListAssumption DEF Level
  <2>5. ~IsPred(heap, L, j, k, w[j])
    OBVIOUS
  <2>6. j < current_level
    BY <1>2, <1>9, <1>5, <2>4, <2>5 DEF Shape
  <2>7. j # current_level - 1
    <3> SUFFICES ASSUME j = current_level - 1 PROVE FALSE
      OBVIOUS
    <3> HIDE DEF j
    <3>1. ~(j >= current_level)
      BY <1>5, <2>4, <2>6 DEF Shape
    <3>2. w[j] = Advance(j, Sentinel, keys)
      BY <1>9, <2>4, <3>1
    <3> QED BY <1>3, <1>4, <2>4, <2>5, <3>2
  <2>8. j + 1 \in Level /\ j \in 0 .. j + 1 /\ j + 1 = MaxLevel - (d - 1) /\ d - 1 \in 1 .. MaxLevel
    BY <1>5, <2>4, <2>6, <2>7 DEF Level
  <2>9. d - 1 \notin H
    <3>1. ~(d <= d - 1)
      BY <2>4
    <3> HIDE DEF H
    <3> QED BY <2>3, <3>1
  <2>10. IsPred(heap, L, j + 1, k, w[j+1])
    BY <2>8, <2>9
  <2> HIDE DEF j
  <2>11. IsPred(heap, L, j, k, Advance(j, w[j+1], keys))
    BY <1>3, <2>4, <2>8, <2>10, PredBelow
  <2>12. w[j] = Advance(j, w[j+1], keys)
    BY <1>5, <1>9, <2>4, <2>6, <2>7 DEF Shape
  <2> QED BY <2>5, <2>11, <2>12
<1>11. MaxLevel - i \in 1 .. MaxLevel /\ MaxLevel - (MaxLevel - i) = i
  BY SkipListAssumption DEF Level
<1>12. IsPred(heap, L, MaxLevel - (MaxLevel - i), k, w[MaxLevel - (MaxLevel - i)])
  BY <1>10, <1>11
<1> QED BY <1>8, <1>11, <1>12

\* n is the first node that is not below k.
IsLower(h, L, k, n) ==
  /\ n = Nil \/ (n \in L /\ KeyOf(h, n) >= k)
  /\ \A x \in L : KeyOf(h, x) >= k => n # Nil /\ KeyOf(h, n) <= KeyOf(h, x)

\* There is only one such node.
LEMMA LowerUnique ==
  ASSUME NEW h, NEW cl, NEW L, Shape(h, cl, L), NEW k \in Nat,
         NEW m, IsLower(h, L, k, m), NEW n, IsLower(h, L, k, n)
  PROVE  m = n
<1>1. \A x \in L : KeyOf(h, x) \in Nat
  BY NodeIs DEF Shape
<1>2. \A x, y \in L : KeyOf(h, x) = KeyOf(h, y) => x = y
  BY DEF Shape
<1> QED BY <1>1, <1>2 DEF IsLower

\* It is the next one on the lowest lane from where a search ends.
LEMMA PredLower ==
  ASSUME NEW h, NEW cl, NEW L, Shape(h, cl, L), NEW k \in Nat, NEW p, IsPred(h, L, 0, k, p)
  PROVE  IsLower(h, L, k, Fwd(h, p, 0))
<1>1. HeapType(h) /\ 0 \in Level /\ \A x \in L : Tall(h, x, 0)
  BY NodeIs DEF Shape, HeapType
<1>2. Leads(h, L, p, 0)
  BY <1>1 DEF IsPred, Shape
<1>3. \A x \in L : x \in Above(h, L, p, 0) <=> KeyOf(h, x) >= k
  BY <1>1, PredAbove
<1>4. Above(h, L, p, 0) \subseteq L
  BY DEF Above
<1> QED BY <1>2, <1>3, <1>4 DEF Leads, IsLower

\* LowerBound finds it.
LEMMA LowerBoundIs ==
  ASSUME NEW L, Shape(heap, current_level, L), NEW k \in Nat
  PROVE  IsLower(heap, L, k, LowerBound(k))
<1>1. 0 \in Level
  BY NodeIs DEF Shape, HeapType
<1>2. IsPred(heap, L, 0, k, Update(k)[0])
  BY <1>1, UpdateIs
<1>3. LowerBound(k) = Fwd(heap, Update(k)[0], 0)
  BY DEF LowerBound, Fwd
<1> QED BY <1>2, <1>3, PredLower

\* get finds the node with the key, if there is one.
LEMMA GetIs ==
  ASSUME NEW L, Shape(heap, current_level, L), NEW k \in Nat, NEW t
  PROVE  \/ get(k, t) = Nil /\ \A x \in L : KeyOf(heap, x) # k
         \/ /\ get(k, t) \in L /\ KeyOf(heap, get(k, t)) = k
            /\ get(k, t) = LowerBound(k)
<1> DEFINE n == LowerBound(k)
<1>1. /\ n = Nil \/ (n \in L /\ KeyOf(heap, n) >= k)
      /\ \A x \in L : KeyOf(heap, x) >= k =>
                       n # Nil /\ KeyOf(heap, n) <= KeyOf(heap, x)
  BY LowerBoundIs DEF IsLower
<1>2. get(k, t) = IF n # Nil /\ KeyOf(heap, n) = k THEN n ELSE Nil
  BY DEF get, KeyOf
<1>3. \A x \in L : KeyOf(heap, x) \in Nat
  BY NodeIs DEF Shape
<1> HIDE DEF n
<1> QED BY <1>1, <1>2, <1>3 DEF n

-----------------------------------------------------------------------------
(* Chains.                                                                 *)

\* A sequence with one more element in front.
LEMMA ConsIs ==
  ASSUME NEW S, NEW m \in S, NEW d \in Seq(S)
  PROVE  /\ <<m>> \o d \in Seq(S) /\ Len(<<m>> \o d) = Len(d) + 1
         /\ (<<m>> \o d)[1] = m
         /\ \A j \in 1 .. Len(d) : (<<m>> \o d)[j + 1] = d[j]
         /\ \A j \in 2 .. Len(d) + 1 : j - 1 \in 1 .. Len(d) /\ (<<m>> \o d)[j] = d[j - 1]
         /\ Range(<<m>> \o d) = {m} \cup Range(d)
<1> DEFINE c == <<m>> \o d
<1>1. c \in Seq(S) /\ Len(c) = Len(d) + 1 /\ c[1] = m
  OBVIOUS
<1>2. \A j \in 1 .. Len(d) : c[j + 1] = d[j]
  OBVIOUS
<1>3. \A j \in 2 .. Len(d) + 1 : j - 1 \in 1 .. Len(d) /\ c[j] = d[j - 1]
  OBVIOUS
<1>4. DOMAIN c = 1 .. Len(d) + 1 /\ DOMAIN d = 1 .. Len(d) /\ Len(d) \in Nat
  BY <1>1
<1> HIDE DEF c
<1>5. Range(c) = {m} \cup Range(d)
  <2>1. ASSUME NEW x \in Range(c) PROVE x \in {m} \cup Range(d)
    <3>1. PICK j \in 1 .. Len(d) + 1 : x = c[j]
      BY <1>4 DEF Range
    <3>2. j = 1 \/ (j \in 2 .. Len(d) + 1)
      BY <1>4
    <3> QED BY <1>1, <1>3, <1>4, <3>1, <3>2 DEF Range
  <2>2. m \in Range(c)
    BY <1>1, <1>4 DEF Range
  <2>3. ASSUME NEW x \in Range(d) PROVE x \in Range(c)
    <3>1. PICK j \in 1 .. Len(d) : x = d[j]
      BY <1>4 DEF Range
    <3>2. j + 1 \in 1 .. Len(d) + 1 /\ c[j + 1] = x
      BY <1>2, <1>4, <3>1
    <3> QED BY <1>4, <3>2 DEF Range
  <2> QED BY <2>1, <2>2, <2>3
<1> QED BY <1>1, <1>2, <1>3, <1>5 DEF c

\* c follows the pointers of lane i from m, so its keys ascend.
Ascent(h, i, m, c) ==
  /\ c \in Seq(DOMAIN h \ {Sentinel})
  /\ c # << >> => c[1] = m
  /\ \A j \in 1 .. Len(c) : Tall(h, c[j], i) /\ KeyOf(h, m) <= KeyOf(h, c[j])
  /\ \A j \in 2 .. Len(c) : c[j] = Fwd(h, c[j-1], i)
  /\ \A j, l \in 1 .. Len(c) : j < l => KeyOf(h, c[j]) < KeyOf(h, c[l])

\* A node in front of an ascent to a larger key makes an ascent.
LEMMA AscentCons ==
  ASSUME NEW h, HeapType(h), NEW i, NEW m \in DOMAIN h \ {Sentinel}, Tall(h, m, i),
         NEW n, NEW d, d = << >> \/ (/\ Ascent(h, i, n, d) /\ n = Fwd(h, m, i)
                                     /\ KeyOf(h, m) < KeyOf(h, n) /\ n \in DOMAIN h)
  PROVE  Ascent(h, i, m, <<m>> \o d)
<1> DEFINE S == DOMAIN h \ {Sentinel}
           c == <<m>> \o d
<1>1. d \in Seq(S)
  <2>1. CASE d = << >>
    BY <2>1
  <2>2. CASE d # << >>
    BY <2>2 DEF Ascent
  <2> QED BY <2>1, <2>2
<1>2. /\ c \in Seq(S) /\ Len(c) = Len(d) + 1 /\ c[1] = m /\ Len(d) \in Nat
      /\ \A j \in 2 .. Len(d) + 1 : j - 1 \in 1 .. Len(d) /\ c[j] = d[j - 1]
  BY <1>1, ConsIs
<1>3. \A x \in S : KeyOf(h, x) \in Nat
  BY NodeIs
<1>4. \A j \in 1 .. Len(c) : j = 1 \/ (j \in 2 .. Len(d) + 1 /\ j - 1 \in 1 .. Len(d))
  BY <1>2
<1>5. \A j \in 1 .. Len(d) : d[j] \in S /\ KeyOf(h, d[j]) \in Nat
  BY <1>1, <1>3
<1> HIDE DEF c
<1>6. ASSUME NEW j \in 1 .. Len(d)
      PROVE  /\ Tall(h, d[j], i) /\ KeyOf(h, m) < KeyOf(h, d[j])
             /\ d[1] = Fwd(h, m, i)
             /\ j - 1 \in 1 .. Len(d) => d[j] = Fwd(h, d[j-1], i)
  <2>1. Ascent(h, i, n, d) /\ n = Fwd(h, m, i) /\ KeyOf(h, m) < KeyOf(h, n) /\ n \in DOMAIN h
    BY <1>6
  <2>2. KeyOf(h, n) <= KeyOf(h, d[j]) /\ Tall(h, d[j], i) /\ d[1] = n
    BY <1>6, <2>1 DEF Ascent
  <2>3. j - 1 \in 1 .. Len(d) => d[j] = Fwd(h, d[j-1], i)
    BY <1>2, <2>1 DEF Ascent
  <2>4. KeyOf(h, n) \in Nat /\ KeyOf(h, m) \in Nat /\ KeyOf(h, d[j]) \in Nat
    BY <2>1, <1>5, NodeIs
  <2> QED BY <2>1, <2>2, <2>3, <2>4
<1>7. ASSUME NEW j \in 1 .. Len(d), NEW l \in 1 .. Len(d), j < l
      PROVE  KeyOf(h, d[j]) < KeyOf(h, d[l])
  BY <1>7 DEF Ascent
<1>8. \A j \in 1 .. Len(c) : Tall(h, c[j], i) /\ KeyOf(h, m) <= KeyOf(h, c[j])
  BY <1>2, <1>3, <1>4, <1>5, <1>6
<1>9. \A j \in 2 .. Len(c) : c[j] = Fwd(h, c[j-1], i)
  <2> SUFFICES ASSUME NEW j \in 2 .. Len(c) PROVE c[j] = Fwd(h, c[j-1], i)
    OBVIOUS
  <2>1. CASE j = 2
    BY <1>2, <1>6, <2>1
  <2>2. CASE j # 2
    <3>1. j - 1 \in 2 .. Len(d) + 1 /\ j - 1 \in 1 .. Len(d) /\ (j - 1) - 1 \in 1 .. Len(d)
      BY <1>2, <2>2
    <3>2. c[j] = d[j-1] /\ c[j-1] = d[(j-1)-1]
      BY <1>2, <3>1
    <3> QED BY <1>6, <3>1, <3>2
  <2> QED BY <2>1, <2>2
<1>10. \A j, l \in 1 .. Len(c) : j < l => KeyOf(h, c[j]) < KeyOf(h, c[l])
  <2> SUFFICES ASSUME NEW j \in 1 .. Len(c), NEW l \in 1 .. Len(c), j < l
               PROVE  KeyOf(h, c[j]) < KeyOf(h, c[l])
    OBVIOUS
  <2>1. l \in 2 .. Len(d) + 1 /\ l - 1 \in 1 .. Len(d) /\ c[l] = d[l-1]
    BY <1>2
  <2>2. CASE j = 1
    BY <1>2, <1>6, <2>1, <2>2
  <2>3. CASE j # 1
    <3>1. j \in 2 .. Len(d) + 1 /\ j - 1 \in 1 .. Len(d) /\ c[j] = d[j-1] /\ j - 1 < l - 1
      BY <1>2, <2>3
    <3> QED BY <1>7, <2>1, <3>1
  <2> QED BY <2>2, <2>3
<1> QED BY <1>2, <1>8, <1>9, <1>10 DEF Ascent, c

\* A chain follows the pointers.
LEMMA ChainAscends ==
  ASSUME HeapType(heap), Ascends(heap), NEW i \in Level, NEW end \in Lane(i) \cup {Nil},
         NEW n \in Lane(i) \ {Sentinel}
  PROVE  Ascent(heap, i, n, Chain(i, n, end))
<1> DEFINE H == {m \in Lane(i) \ {Sentinel} : ~Ascent(heap, i, m, Chain(i, m, end))}
<1>1. SUFFICES ASSUME H # {} PROVE FALSE
  OBVIOUS
<1>2. H \subseteq DOMAIN heap
  BY LaneIs
<1>3. PICK m \in H : \A j \in Level : Tall(heap, m, j) => Fwd(heap, m, j) \notin H
  <2> HIDE DEF H
  <2> QED BY <1>1, <1>2, LastOne
<1>4. m \in Lane(i) \ {Sentinel} /\ ~Ascent(heap, i, m, Chain(i, m, end))
  OBVIOUS
<1>5. m \in DOMAIN heap /\ Tall(heap, m, i) /\ m # Nil
  BY <1>4, LaneIs
<1>6. Fwd(heap, m, i) \notin H
  BY <1>3, <1>5
<1> DEFINE n1 == Fwd(heap, m, i)
           d == Chain(i, n1, end)
<1>7. n1 \in (Lane(i) \ {Sentinel}) \cup {Nil}
  BY <1>4, LaneIs
<1>8. d = << >> \/ (/\ Ascent(heap, i, n1, d) /\ n1 = Fwd(heap, m, i)
                    /\ KeyOf(heap, m) < KeyOf(heap, n1) /\ n1 \in DOMAIN heap)
  <2>1. CASE n1 = Nil
    BY <2>1, <1>7, ChainIs
  <2>2. CASE n1 # Nil
    <3>1. n1 \in Lane(i) \ {Sentinel} /\ Ascent(heap, i, n1, d)
      BY <1>6, <1>7, <2>2
    <3>2. n1 \in DOMAIN heap
      BY <3>1, LaneIs
    <3>3. KeyOf(heap, m) < KeyOf(heap, n1)
      BY <1>4, <1>5, <2>2 DEF Ascends
    <3> QED BY <3>1, <3>2, <3>3
  <2> QED BY <2>1, <2>2
<1>9. Chain(i, m, end) = IF m = end THEN << >> ELSE <<m>> \o d
  BY <1>4, <1>5, ChainIs
<1> HIDE DEF d, n1
<1>10. Ascent(heap, i, m, <<m>> \o d)
  BY <1>4, <1>5, <1>8, AscentCons
<1>11. Ascent(heap, i, m, << >>)
  BY DEF Ascent
<1> QED BY <1>4, <1>9, <1>10, <1>11

\* Which nodes a chain through the linked nodes has.
Between(h, L, i, n, end) ==
  {x \in L : /\ Tall(h, x, i) /\ KeyOf(h, n) <= KeyOf(h, x)
             /\ end = Nil \/ KeyOf(h, x) < KeyOf(h, end)}

\* A chain through the linked nodes has every node between its ends, and no other.
LEMMA ChainRange ==
  ASSUME NEW L, Shape(heap, current_level, L), NEW i \in Level,
         NEW end \in L \cup {Nil}, end # Nil => Tall(heap, end, i),
         NEW n \in L, Tall(heap, n, i), end = Nil \/ KeyOf(heap, n) <= KeyOf(heap, end)
  PROVE  Range(Chain(i, n, end)) = Between(heap, L, i, n, end)
<1> DEFINE On(m) == Tall(heap, m, i) /\ (end = Nil \/ KeyOf(heap, m) <= KeyOf(heap, end))
           H == {m \in L : On(m) /\ Range(Chain(i, m, end)) # Between(heap, L, i, m, end)}
<1>1. SUFFICES ASSUME H # {} PROVE FALSE
  OBVIOUS
<1>2. /\ HeapType(heap) /\ Ascends(heap) /\ L \subseteq DOMAIN heap \ {Sentinel}
      /\ H \subseteq DOMAIN heap
  BY DEF Shape
<1>3. PICK m \in H : \A j \in Level : Tall(heap, m, j) => Fwd(heap, m, j) \notin H
  <2> HIDE DEF H
  <2> QED BY <1>1, <1>2, LastOne
<1>4. /\ m \in L /\ On(m) /\ Range(Chain(i, m, end)) # Between(heap, L, i, m, end)
      /\ Fwd(heap, m, i) \notin H
  BY <1>3
<1> HIDE DEF H
<1>5. \A x \in L : x \in DOMAIN heap /\ KeyOf(heap, x) \in Nat /\ x # Nil /\ x # Sentinel
  BY <1>2, NodeIs
<1>6. end \in Lane(i) \cup {Nil} /\ m \in Lane(i) \cup {Nil}
  BY <1>4, <1>5 DEF Lane, Tall
<1> DEFINE next == Fwd(heap, m, i)
<1>7. Chain(i, m, end) = IF m = end THEN << >> ELSE <<m>> \o Chain(i, next, end)
  BY <1>2, <1>4, <1>5, <1>6, ChainIs
<1>8. Leads(heap, L, m, i)
  BY <1>4 DEF Shape
<1>9. \A x \in L : /\ KeyOf(heap, x) = KeyOf(heap, m) => x = m
                   /\ end # Nil /\ KeyOf(heap, x) = KeyOf(heap, end) => x = end
  BY <1>4 DEF Shape
<1>10. CASE m = end
  <2>1. Range(<< >>) = {}
    BY DEF Range
  <2>2. Between(heap, L, i, m, end) = {}
    <3>1. m # Nil /\ KeyOf(heap, m) \in Nat
      BY <1>4, <1>5
    <3>2. \A x \in L : ~(KeyOf(heap, m) <= KeyOf(heap, x) /\ KeyOf(heap, x) < KeyOf(heap, m))
      BY <1>5, <3>1
    <3> QED BY <1>10, <3>1, <3>2 DEF Between
  <2> QED BY <1>4, <1>7, <1>10, <2>1, <2>2
<1>11. CASE m # end
  <2>1. Range(Chain(i, m, end)) = {m} \cup Range(Chain(i, next, end))
    <3>1. Chain(i, next, end) \in Seq(DOMAIN heap)
      <4>1. CASE next = Nil
        <5>1. Chain(i, next, end) = << >>
          BY <1>2, <1>6, <4>1, ChainIs
        <5> QED BY <5>1
      <4>2. CASE next # Nil
        <5>1. next \in Lane(i) \ {Sentinel}
          BY <1>2, <1>4, <1>5, <1>6, <4>2, LaneIs
        <5>2. Ascent(heap, i, next, Chain(i, next, end))
          BY <1>2, <1>6, <5>1, ChainAscends
        <5>3. Chain(i, next, end) \in Seq(DOMAIN heap \ {Sentinel})
          BY <5>2 DEF Ascent
        <5> HIDE DEF next
        <5> QED BY <5>3
      <4> QED BY <4>1, <4>2
    <3> QED BY <1>5, <1>4, <1>7, <1>11, <3>1, ConsIs
  <2>2. end # Nil => end \in Above(heap, L, m, i)
    <3> SUFFICES ASSUME end # Nil PROVE end \in Above(heap, L, m, i)
      OBVIOUS
    <3>1. KeyOf(heap, m) <= KeyOf(heap, end) /\ KeyOf(heap, m) # KeyOf(heap, end)
      BY <1>4, <1>9, <1>11
    <3> QED BY <1>4, <1>5, <3>1 DEF Above
  <2>3. CASE next = Nil
    <3>1. Above(heap, L, m, i) = {} /\ end = Nil
      BY <1>8, <2>2, <2>3 DEF Leads
    <3>2. Between(heap, L, i, m, end) = {m}
      BY <1>4, <1>5, <1>9, <3>1 DEF Between, Above
    <3>3. Range(Chain(i, next, end)) = {}
      <4>1. Range(<< >>) = {}
        BY DEF Range
      <4> QED BY <1>2, <1>6, <2>3, <4>1, ChainIs
    <3> QED BY <1>4, <2>1, <3>2, <3>3
  <2>4. CASE next # Nil
    <3>1. next \in L /\ Tall(heap, next, i) /\ KeyOf(heap, m) < KeyOf(heap, next)
      BY <1>4, <1>5, <1>8, <2>4 DEF Leads, Above
    <3>2. end = Nil \/ KeyOf(heap, next) <= KeyOf(heap, end)
      BY <1>8, <2>2 DEF Leads
    <3>3. Range(Chain(i, next, end)) = Between(heap, L, i, next, end)
      BY <1>4, <3>1, <3>2 DEF H
    <3>4. end = Nil \/ KeyOf(heap, m) < KeyOf(heap, end)
      BY <1>4, <1>5, <2>2 DEF Above
    <3>5. \A x \in L : Tall(heap, x, i) =>
            (KeyOf(heap, m) <= KeyOf(heap, x) <=> x = m \/ KeyOf(heap, next) <= KeyOf(heap, x))
      <4> SUFFICES ASSUME NEW x \in L, Tall(heap, x, i)
                   PROVE  KeyOf(heap, m) <= KeyOf(heap, x)
                            <=> x = m \/ KeyOf(heap, next) <= KeyOf(heap, x)
        OBVIOUS
      <4>1. KeyOf(heap, m) < KeyOf(heap, x) => KeyOf(heap, next) <= KeyOf(heap, x)
        BY <1>8 DEF Leads, Above
      <4>2. /\ KeyOf(heap, m) \in Nat /\ KeyOf(heap, x) \in Nat /\ KeyOf(heap, next) \in Nat
            /\ KeyOf(heap, x) = KeyOf(heap, m) => x = m
        BY <1>4, <1>5, <1>9, <3>1
      <4> QED BY <3>1, <4>1, <4>2
    <3>6. Between(heap, L, i, m, end) = {m} \cup Between(heap, L, i, next, end)
      BY <1>4, <3>1, <3>4, <3>5 DEF Between
    <3> QED BY <1>4, <2>1, <3>3, <3>6
  <2> QED BY <2>3, <2>4
<1> QED BY <1>10, <1>11

\* A whole lane, from the head on.
LEMMA LevelListIs ==
  ASSUME NEW L, Shape(heap, current_level, L), NEW i \in Level
  PROVE  /\ LevelList(i) \in Seq(L)
         /\ Range(LevelList(i)) = {x \in L : Tall(heap, x, i)}
         /\ LevelList(i) # << >> => LevelList(i)[1] = Fwd(heap, Sentinel, i)
         /\ \A j \in 2 .. Len(LevelList(i)) :
              LevelList(i)[j] = Fwd(heap, LevelList(i)[j-1], i)
         /\ \A j, l \in 1 .. Len(LevelList(i)) :
              j < l => KeyOf(heap, LevelList(i)[j]) < KeyOf(heap, LevelList(i)[l])
<1> DEFINE n == Fwd(heap, Sentinel, i)
           c == Chain(i, n, Nil)
<1>1. LevelList(i) = c
  BY DEF LevelList, Fwd
<1>2. /\ HeapType(heap) /\ Ascends(heap) /\ L \subseteq DOMAIN heap \ {Sentinel}
      /\ Sentinel \in DOMAIN heap
  BY DEF Shape, HeapType
<1>3. Leads(heap, L, Sentinel, i)
  BY <1>2, NodeIs DEF Shape
<1>4. \A x \in L : x # Nil /\ x # Sentinel /\ x \in DOMAIN heap
  BY <1>2, NodeIs
<1>5. CASE n = Nil
  <2>1. c = << >>
    BY <1>2, <1>5, ChainIs
  <2>2. {x \in L : Tall(heap, x, i)} = {}
    BY <1>3, <1>5 DEF Leads, Above
  <2>3. Range(<< >>) = {} /\ << >> \in Seq(L) /\ Len(<< >>) = 0
    BY DEF Range
  <2> HIDE DEF c
  <2> QED BY <1>1, <2>1, <2>2, <2>3
<1>6. CASE n # Nil
  <2>1. n \in L /\ Tall(heap, n, i) /\ n \in Lane(i) \ {Sentinel}
    BY <1>3, <1>4, <1>6 DEF Leads, Above, Lane, Tall
  <2>2. Ascent(heap, i, n, c)
    BY <1>2, <2>1, ChainAscends
  <2>3. Range(c) = Between(heap, L, i, n, Nil)
    BY <2>1, ChainRange
  <2>4. Between(heap, L, i, n, Nil) = {x \in L : Tall(heap, x, i)}
    BY <1>3 DEF Between, Leads, Above
  <2> HIDE DEF c, n
  <2>5. c \in Seq(L)
    <3>1. c \in Seq(DOMAIN heap \ {Sentinel}) /\ \A j \in 1 .. Len(c) : c[j] \in Range(c)
      BY <2>2 DEF Ascent, Range
    <3>2. \A j \in 1 .. Len(c) : c[j] \in L
      BY <2>3, <2>4, <3>1
    <3> QED BY <3>1, <3>2
  <2> QED BY <1>1, <2>2, <2>3, <2>4, <2>5 DEF Ascent, n
<1> QED BY <1>5, <1>6

-----------------------------------------------------------------------------
(* What the shape says about the properties.                               *)

\* The shape gives the lanes.
LEMMA ShapeLanes ==
  ASSUME NEW L, Shape(heap, current_level, L)
  PROVE  Lanes
<1>1. 0 \in Level
  BY NodeIs DEF Shape, HeapType
<1>2. ASSUME NEW i \in Level
      PROVE  /\ \A a, b \in DOMAIN LevelList(i) :
                  a < b => heap[LevelList(i)[a]].key < heap[LevelList(i)[b]].key
             /\ Range(LevelList(i)) = {n \in Range(LevelList(0)) : i \in DOMAIN heap[n].forward}
             /\ i >= current_level => LevelList(i) = << >>
  <2> DEFINE c == LevelList(i)
  <2>1. /\ c \in Seq(L) /\ Range(c) = {x \in L : Tall(heap, x, i)}
        /\ \A j, l \in 1 .. Len(c) : j < l => KeyOf(heap, c[j]) < KeyOf(heap, c[l])
    BY LevelListIs
  <2>2. Range(LevelList(0)) = {x \in L : Tall(heap, x, 0)}
    BY <1>1, LevelListIs
  <2>3. \A x \in L : Tall(heap, x, 0)
    BY NodeIs DEF Shape
  <2> HIDE DEF c
  <2>4. DOMAIN c = 1 .. Len(c)
    BY <2>1
  <2>5. i >= current_level => c = << >>
    <3> SUFFICES ASSUME i >= current_level, c # << >> PROVE FALSE
      OBVIOUS
    <3>1. 1 \in 1 .. Len(c)
      BY <2>1
    <3>2. c[1] \in Range(c)
      BY <2>4, <3>1 DEF Range
    <3>3. c[1] \in L /\ Tall(heap, c[1], i)
      BY <2>1, <3>2
    <3> QED BY <3>3 DEF Shape, Level
  <2> QED BY <2>1, <2>2, <2>3, <2>4, <2>5 DEF c, Tall, KeyOf
<1> QED BY <1>2 DEF Lanes

\* Whatever leads to a node is its backward pointer.
LEMMA OnePred ==
  ASSUME NEW h, NEW cl, NEW L, Shape(h, cl, L), NEW i \in Level, NEW x \in L, Tall(h, x, i),
         NEW p \in L \cup {Sentinel}, Tall(h, p, i), Fwd(h, p, i) = x
  PROVE  p = Bwd(h, x, i)
<1>1. HeapType(h) /\ L \subseteq DOMAIN h \ {Sentinel}
  BY DEF Shape
<1>2. KeyOf(h, x) \in Nat /\ x # Nil
  BY <1>1, NodeIs
<1>3. ASSUME NEW q \in L \cup {Sentinel}, Tall(h, q, i), Fwd(h, q, i) = x
      PROVE  IsPred(h, L, i, KeyOf(h, x), q)
  <2>1. Leads(h, L, q, i)
    BY <1>3 DEF Shape
  <2>2. x \in Above(h, L, q, i)
    BY <1>2, <1>3, <2>1 DEF Leads
  <2> QED BY <1>2, <1>3, <2>2 DEF IsPred, Above
<1>4. /\ Bwd(h, x, i) \in L \cup {Sentinel} /\ Tall(h, Bwd(h, x, i), i)
      /\ Fwd(h, Bwd(h, x, i), i) = x
  BY DEF Shape
<1> QED BY <1>2, <1>3, <1>4, PredUnique

\* The shape gives the backward pointers.
LEMMA ShapeMirrors ==
  ASSUME NEW L, Shape(heap, current_level, L)
  PROVE  BackwardMirrors
<1> SUFFICES ASSUME NEW i \in Level,
                    NEW a \in 2 .. Len(<<Sentinel>> \o LevelList(i))
             PROVE  heap[(<<Sentinel>> \o LevelList(i))[a]].backward[i]
                      = (<<Sentinel>> \o LevelList(i))[a-1]
  BY DEF BackwardMirrors
<1> DEFINE c == LevelList(i)
           list == <<Sentinel>> \o c
<1>1. /\ c \in Seq(L) /\ Range(c) = {x \in L : Tall(heap, x, i)}
      /\ c # << >> => c[1] = Fwd(heap, Sentinel, i)
      /\ \A j \in 2 .. Len(c) : c[j] = Fwd(heap, c[j-1], i)
  BY LevelListIs
<1>2. c \in Seq(L \cup {Sentinel})
  BY <1>1
<1> HIDE DEF c
<1>3. /\ Len(list) = Len(c) + 1 /\ list[1] = Sentinel
      /\ \A j \in 2 .. Len(c) + 1 : j - 1 \in 1 .. Len(c) /\ list[j] = c[j - 1]
  BY <1>2, ConsIs
<1> HIDE DEF list
<1>4. a \in 2 .. Len(list)
  BY DEF list, c
<1>5. Len(c) \in Nat /\ DOMAIN c = 1 .. Len(c)
  BY <1>1
<1>6. a - 1 \in 1 .. Len(c) /\ list[a] = c[a-1]
  BY <1>3, <1>4, <1>5
<1>7. \A j \in 1 .. Len(c) : c[j] \in L /\ Tall(heap, c[j], i)
  BY <1>1, <1>5 DEF Range
<1>8. /\ list[a-1] \in L \cup {Sentinel} /\ Tall(heap, list[a-1], i)
      /\ Fwd(heap, list[a-1], i) = list[a]
  <2>1. CASE a = 2
    <3>1. Tall(heap, Sentinel, i)
      BY NodeIs DEF Shape, HeapType
    <3> QED BY <1>1, <1>3, <1>6, <2>1, <3>1
  <2>2. CASE a # 2
    <3>1. a - 1 \in 2 .. Len(c) + 1 /\ (a - 1) - 1 \in 1 .. Len(c) /\ a - 1 \in 2 .. Len(c)
      BY <1>4, <1>5, <1>6, <2>2
    <3>2. list[a-1] = c[(a-1)-1]
      BY <1>3, <3>1
    <3> QED BY <1>1, <1>6, <1>7, <3>1, <3>2
  <2> QED BY <2>1, <2>2
<1>9. list[a-1] = Bwd(heap, list[a], i)
  BY <1>6, <1>7, <1>8, OnePred
<1> QED BY <1>9 DEF Bwd, list, c

\* What a node stores.
EntryOf(h, n) == [value |-> h[n].value, tranc_id |-> h[n].tranc_id]

\* The linked nodes store map, and nothing else.
Stores(h, L, map) ==
  /\ map \in Map
  /\ \A n \in L : map[KeyOf(h, n)] = EntryOf(h, n)
  /\ \A k \in Key : (\A n \in L : KeyOf(h, n) # k) => map[k] = None

\* What a node stores is an entry.
LEMMA EntryType ==
  ASSUME NEW h, HeapType(h), NEW n \in DOMAIN h
  PROVE  EntryOf(h, n) \in Entry /\ EntryOf(h, n) # None
<1>1. h[n] \in Node
  BY DEF HeapType
<1>2. EntryOf(h, n) \in Entry
  BY <1>1 DEF EntryOf, Entry, Node
<1> QED BY <1>2, TableAssumption

\* Only one map is the one they store.
LEMMA StoresOne ==
  ASSUME NEW h, NEW L, NEW m1, Stores(h, L, m1), NEW m2, Stores(h, L, m2)
  PROVE  m1 = m2
<1>1. \A k \in Key : m1[k] = m2[k]
  <2> TAKE k \in Key
  <2>1. CASE \E n \in L : KeyOf(h, n) = k
    <3>1. PICK n \in L : KeyOf(h, n) = k
      BY <2>1
    <3> QED BY <3>1 DEF Stores
  <2>2. CASE ~ \E n \in L : KeyOf(h, n) = k
    BY <2>2 DEF Stores
  <2> QED BY <2>1, <2>2
<1>2. m1 \in [Key -> Entry \cup {None}] /\ m2 \in [Key -> Entry \cup {None}]
  BY DEF Stores, Map
<1> QED BY <1>1, <1>2

\* Contents is that map.
LEMMA ContentsStores ==
  ASSUME NEW L, Shape(heap, current_level, L)
  PROVE  Stores(heap, L, Contents)
<1> DEFINE at(k) == {n \in Range(LevelList(0)) : heap[n].key = k}
           entry(k) == IF at(k) = {} THEN None
                       ELSE LET n == CHOOSE n \in at(k) : TRUE
                            IN  [value |-> heap[n].value, tranc_id |-> heap[n].tranc_id]
<1>1. Contents = [k \in Key |-> entry(k)]
  BY DEF Contents
<1>2. HeapType(heap) /\ 0 \in Level /\ L \subseteq DOMAIN heap /\ \A x \in L : Tall(heap, x, 0)
  BY NodeIs DEF Shape, HeapType
<1>3. Range(LevelList(0)) = L
  BY <1>2, LevelListIs
<1>4. \A x \in L : KeyOf(heap, x) \in Key
  BY NodeIs DEF Shape
<1>5. ASSUME NEW n \in L PROVE entry(KeyOf(heap, n)) = EntryOf(heap, n)
  <2>1. at(KeyOf(heap, n)) = {n}
    BY <1>3 DEF Shape, KeyOf
  <2>2. (CHOOSE x \in {n} : TRUE) = n
    OBVIOUS
  <2> HIDE DEF at
  <2> QED BY <2>1, <2>2 DEF EntryOf
<1>6. ASSUME NEW k \in Key, \A n \in L : KeyOf(heap, n) # k PROVE entry(k) = None
  <2>1. at(k) = {}
    BY <1>3, <1>6 DEF KeyOf
  <2> QED BY <2>1
<1>7. ASSUME NEW k \in Key PROVE entry(k) \in Entry \cup {None}
  <2>1. CASE \E n \in L : KeyOf(heap, n) = k
    <3>1. PICK n \in L : KeyOf(heap, n) = k
      BY <2>1
    <3> HIDE DEF entry
    <3> QED BY <1>2, <1>5, <3>1, EntryType
  <2>2. CASE ~ \E n \in L : KeyOf(heap, n) = k
    <3>1. entry(k) = None
      <4> HIDE DEF entry
      <4> QED BY <1>6, <2>2
    <3> HIDE DEF entry
    <3> QED BY <3>1
  <2> QED BY <2>1, <2>2
<1> HIDE DEF entry, at
<1>8. Contents \in Map
  BY <1>1, <1>7 DEF Map
<1> QED BY <1>1, <1>4, <1>5, <1>6, <1>8 DEF Stores

\* The keys that are stored are those of the linked nodes.
LEMMA Present ==
  ASSUME NEW h, HeapType(h), NEW L \in SUBSET (DOMAIN h \ {Sentinel}), NEW map,
         Stores(h, L, map)
  PROVE  {k \in Key : map[k] # None} = {KeyOf(h, x) : x \in L}
<1>1. \A x \in L : KeyOf(h, x) \in Key /\ map[KeyOf(h, x)] # None
  BY NodeIs, EntryType DEF Stores
<1>2. \A k \in Key : map[k] # None => \E x \in L : KeyOf(h, x) = k
  BY DEF Stores
<1> QED BY <1>1, <1>2

-----------------------------------------------------------------------------
(* Ranges.                                                                 *)

\* The keys from one lower bound to another.
LEMMA RangeKeys ==
  ASSUME NEW L, Shape(heap, current_level, L), NEW lo \in Nat, NEW hi \in Nat, lo <= hi,
         NEW m, IsLower(heap, L, lo, m), NEW n, IsLower(heap, L, hi, n)
  PROVE  {heap[x].key : x \in Range(Chain(0, m, n))}
           = {k \in {KeyOf(heap, x) : x \in L} : lo <= k /\ k < hi}
<1>1. /\ HeapType(heap) /\ Ascends(heap) /\ 0 \in Level
      /\ \A x \in L : x \in DOMAIN heap /\ Tall(heap, x, 0) /\ KeyOf(heap, x) \in Nat /\ x # Nil
  BY NodeIs DEF Shape, HeapType
<1>2. n \in Lane(0) \cup {Nil}
  BY <1>1 DEF IsLower, Lane, Tall
<1>3. CASE m = Nil
  <2>1. Chain(0, m, n) = << >>
    BY <1>1, <1>2, <1>3, ChainIs
  <2>2. Range(<< >>) = {}
    BY DEF Range
  <2>3. \A x \in L : ~(lo <= KeyOf(heap, x))
    BY <1>1, <1>3 DEF IsLower
  <2> QED BY <2>1, <2>2, <2>3
<1>4. CASE m # Nil
  <2>1. m \in L /\ (n = Nil \/ KeyOf(heap, m) <= KeyOf(heap, n))
    BY <1>1, <1>4 DEF IsLower
  <2>2. n \in L \cup {Nil} /\ (n # Nil => Tall(heap, n, 0)) /\ Tall(heap, m, 0)
    BY <1>1, <2>1 DEF IsLower
  <2>3. Range(Chain(0, m, n)) = Between(heap, L, 0, m, n)
    BY <1>1, <2>1, <2>2, ChainRange
  <2>4. ASSUME NEW x \in L
        PROVE  x \in Between(heap, L, 0, m, n) <=> lo <= KeyOf(heap, x) /\ KeyOf(heap, x) < hi
    <3>1. KeyOf(heap, m) <= KeyOf(heap, x) <=> lo <= KeyOf(heap, x)
      BY <1>1, <2>1 DEF IsLower
    <3>2. (n = Nil \/ KeyOf(heap, x) < KeyOf(heap, n)) <=> KeyOf(heap, x) < hi
      BY <1>1, <2>2 DEF IsLower
    <3> QED BY <1>1, <3>1, <3>2 DEF Between
  <2>5. Between(heap, L, 0, m, n) \subseteq L
    BY DEF Between
  <2> QED BY <2>3, <2>4, <2>5 DEF KeyOf
<1> QED BY <1>3, <1>4

\* The step of end_preffix.
LEMMA SkipIs ==
  ASSUME HeapType(heap), Ascends(heap), NEW p
  PROVE  \E w :
           /\ end_preffix(p) = w[LowerBound(p.lo)]
           /\ \A m \in DOMAIN heap \cup {Nil} :
                w[m] = IF m # Nil /\ KeyOf(heap, m) >= p.lo /\ KeyOf(heap, m) < p.hi
                       THEN w[Fwd(heap, m, 0)] ELSE m
<1> DEFINE D == DOMAIN heap \cup {Nil}
           W(f) == f = [m \in D |-> IF m # Nil /\ heap[m].key >= p.lo /\ heap[m].key < p.hi
                                    THEN f[heap[m].forward[0]] ELSE m]
           w == CHOOSE f : W(f)
           stop == {m \in D : ~(m # Nil /\ KeyOf(heap, m) >= p.lo /\ KeyOf(heap, m) < p.hi)}
           base == [m \in D |-> m]
           step == [m \in D |-> Fwd(heap, m, 0)]
<1>1. PICK top \in Nat :
        /\ \A m \in DOMAIN heap \cup {Nil} : Rank(heap, top, m) \in 0 .. top + 1
        /\ \A m \in DOMAIN heap, j \in Level :
             Tall(heap, m, j) => Rank(heap, top, Fwd(heap, m, j)) < Rank(heap, top, m)
  BY Ranks
<1> DEFINE rank == [m \in D |-> Rank(heap, top, m)]
           most == top + 1
<1>2. most \in Nat /\ \A m \in D : rank[m] \in 0 .. most
  BY <1>1
<1>3. \A m \in D : m \notin stop => step[m] \in D /\ rank[step[m]] < rank[m]
  <2> SUFFICES ASSUME NEW m \in D, m \notin stop
               PROVE  step[m] \in D /\ rank[step[m]] < rank[m]
    OBVIOUS
  <2>1. step[m] = Fwd(heap, m, 0) /\ m \in DOMAIN heap /\ 0 \in Level /\ Tall(heap, m, 0)
    BY NodeIs
  <2>2. Fwd(heap, m, 0) \in D
    BY <2>1 DEF Ascends
  <2>3. Rank(heap, top, Fwd(heap, m, 0)) < Rank(heap, top, m)
    BY <1>1, <2>1
  <2> QED BY <2>1, <2>2, <2>3
<1>4. \E f : Follows(D, stop, base, step, "last", f)
  <2> DEFINE kind == "last"
  <2> HIDE DEF D, stop, base, step, rank, most, kind
  <2>1. \E f : Follows(D, stop, base, step, kind, f)
    BY <1>2, <1>3, FollowExists
  <2> QED BY <2>1 DEF kind
<1>5. PICK f : Follows(D, stop, base, step, "last", f)
  BY <1>4
<1>6. \A m \in D : Rule(stop, base, step, "last", f, m) =
                     IF m # Nil /\ KeyOf(heap, m) >= p.lo /\ KeyOf(heap, m) < p.hi
                     THEN f[Fwd(heap, m, 0)] ELSE m
  BY DEF Rule
<1>7. W(f)
  <2> HIDE DEF stop, base, step, D
  <2>1. f = [m \in D |-> IF m # Nil /\ KeyOf(heap, m) >= p.lo /\ KeyOf(heap, m) < p.hi
                         THEN f[Fwd(heap, m, 0)] ELSE m]
    BY <1>5, <1>6 DEF Follows
  <2> QED BY <2>1 DEF Fwd, KeyOf
<1>8. W(w)
  <2> HIDE DEF W
  <2> QED BY <1>7
<1>9. end_preffix(p) = w[LowerBound(p.lo)]
  BY DEF end_preffix
<1>10. \A m \in D : w[m] = IF m # Nil /\ KeyOf(heap, m) >= p.lo /\ KeyOf(heap, m) < p.hi
                           THEN w[Fwd(heap, m, 0)] ELSE m
  <2> HIDE DEF w
  <2> QED BY <1>8 DEF Fwd, KeyOf
<1> HIDE DEF w
<1> QED BY <1>9, <1>10

\* end_preffix finds the first node behind the interval.
LEMMA EndPrefixIs ==
  ASSUME NEW L, Shape(heap, current_level, L), NEW p, p.lo \in Nat, p.hi \in Nat, p.lo <= p.hi
  PROVE  IsLower(heap, L, p.hi, end_preffix(p))
<1>1. /\ HeapType(heap) /\ Ascends(heap) /\ 0 \in Level
      /\ \A x \in L : x \in DOMAIN heap /\ Tall(heap, x, 0) /\ KeyOf(heap, x) \in Nat /\ x # Nil
                      /\ x # Sentinel
  BY NodeIs DEF Shape, HeapType
<1>2. PICK w :
        /\ end_preffix(p) = w[LowerBound(p.lo)]
        /\ \A m \in DOMAIN heap \cup {Nil} :
             w[m] = IF m # Nil /\ KeyOf(heap, m) >= p.lo /\ KeyOf(heap, m) < p.hi
                    THEN w[Fwd(heap, m, 0)] ELSE m
  BY <1>1, SkipIs
<1>3. IsLower(heap, L, p.lo, LowerBound(p.lo))
  BY LowerBoundIs
<1> DEFINE H == {m \in L : /\ KeyOf(heap, m) >= p.lo
                           /\ \A x \in L : KeyOf(heap, x) >= p.hi =>
                                             KeyOf(heap, m) <= KeyOf(heap, x)
                           /\ ~IsLower(heap, L, p.hi, w[m])}
<1>4. H = {}
  <2>1. SUFFICES ASSUME H # {} PROVE FALSE
    OBVIOUS
  <2>2. H \subseteq DOMAIN heap
    BY <1>1
  <2>3. PICK m \in H : \A j \in Level : Tall(heap, m, j) => Fwd(heap, m, j) \notin H
    <3> HIDE DEF H
    <3> QED BY <1>1, <2>1, <2>2, LastOne
  <2>4. /\ m \in L /\ KeyOf(heap, m) >= p.lo /\ ~IsLower(heap, L, p.hi, w[m])
        /\ \A x \in L : KeyOf(heap, x) >= p.hi => KeyOf(heap, m) <= KeyOf(heap, x)
        /\ Fwd(heap, m, 0) \notin H
    BY <1>1, <2>3
  <2>5. Leads(heap, L, m, 0) /\ w[Nil] = Nil
    BY <1>1, <1>2, <2>4 DEF Shape
  <2>6. CASE ~(KeyOf(heap, m) < p.hi)
    <3>1. w[m] = m
      BY <1>1, <1>2, <2>4, <2>6
    <3>2. IsLower(heap, L, p.hi, m)
      BY <1>1, <2>4, <2>6 DEF IsLower
    <3> QED BY <2>4, <3>1, <3>2
  <2>7. CASE KeyOf(heap, m) < p.hi
    <3>1. w[m] = w[Fwd(heap, m, 0)]
      BY <1>1, <1>2, <2>4, <2>7
    <3>2. \A x \in L : KeyOf(heap, x) >= p.hi => x \in Above(heap, L, m, 0)
      BY <1>1, <2>4, <2>7 DEF Above
    <3>3. CASE Fwd(heap, m, 0) = Nil
      <4>1. \A x \in L : ~(KeyOf(heap, x) >= p.hi)
        BY <2>5, <3>2, <3>3 DEF Leads
      <4> QED BY <2>4, <2>5, <3>1, <3>3, <4>1 DEF IsLower
    <3>4. CASE Fwd(heap, m, 0) # Nil
      <4>1. /\ Fwd(heap, m, 0) \in L
            /\ KeyOf(heap, m) < KeyOf(heap, Fwd(heap, m, 0))
            /\ KeyOf(heap, Fwd(heap, m, 0)) \in Nat /\ KeyOf(heap, m) \in Nat
        BY <1>1, <2>4, <2>5, <3>4 DEF Leads, Above
      <4>2. KeyOf(heap, Fwd(heap, m, 0)) >= p.lo
        BY <2>4, <4>1
      <4>3. \A x \in L : KeyOf(heap, x) >= p.hi =>
                           KeyOf(heap, Fwd(heap, m, 0)) <= KeyOf(heap, x)
        BY <2>5, <3>2 DEF Leads
      <4> QED BY <2>4, <3>1, <4>1, <4>2, <4>3
    <3> QED BY <3>3, <3>4
  <2> QED BY <2>6, <2>7
<1> DEFINE n == LowerBound(p.lo)
<1>5. CASE n = Nil
  <2>1. w[Nil] = Nil
    BY <1>2
  <2>2. \A x \in L : ~(KeyOf(heap, x) >= p.hi)
    BY <1>1, <1>3, <1>5 DEF IsLower
  <2> QED BY <1>2, <1>5, <2>1, <2>2 DEF IsLower
<1>6. CASE n # Nil
  <2>1. n \in L /\ KeyOf(heap, n) >= p.lo
    BY <1>3, <1>6 DEF IsLower
  <2>2. \A x \in L : KeyOf(heap, x) >= p.hi => KeyOf(heap, n) <= KeyOf(heap, x)
    BY <1>1, <1>3 DEF IsLower
  <2> HIDE DEF n
  <2>3. IsLower(heap, L, p.hi, w[n])
    BY <1>4, <2>1, <2>2
  <2> QED BY <1>2, <2>3 DEF n
<1> QED BY <1>5, <1>6

\* The places that the predicate search comes by.
LEMMA PredicateIs ==
  ASSUME NEW L, Shape(heap, current_level, L), NEW p, p.lo \in Nat, p.hi \in Nat, p.lo <= p.hi
  PROVE  /\ IsLower(heap, L, p.lo, Fwd(heap, Before(p), 0))
         /\ \A n \in L : p.lo <= KeyOf(heap, n) /\ KeyOf(heap, n) < p.hi =>
              IsLower(heap, L, p.hi,
                      Fwd(heap, Advance(0, n, {x \in Key : Predicate(p, x) = 0}), 0))
<1>1. /\ 0 \in Level /\ HeapType(heap)
      /\ \A x \in L : Tall(heap, x, 0) /\ KeyOf(heap, x) \in Nat
  BY NodeIs DEF Shape, HeapType
<1>2. Key \subseteq Nat
  BY TableAssumption
<1>3. IsPred(heap, L, 0, p.lo, Before(p))
  <2> DEFINE left == {x \in Key : Predicate(p, x) > 0}
  <2>1. left = {x \in Key : x < p.lo}
    BY <1>2 DEF Predicate
  <2>2. Before(p) = Advance(0, Update(p.lo)[0], left)
    BY <2>1 DEF Before, Update
  <2>3. IsPred(heap, L, 0, p.lo, Update(p.lo)[0])
    BY <1>1, UpdateIs
  <2>4. \A x \in Key : x \in left <=> x < p.lo
    BY <2>1
  <2> HIDE DEF left
  <2>5. /\ Update(p.lo)[0] \in L \cup {Sentinel} /\ Tall(heap, Update(p.lo)[0], 0)
        /\ Update(p.lo)[0] = Sentinel \/ KeyOf(heap, Update(p.lo)[0]) < p.lo
    BY <2>3 DEF IsPred
  <2> QED BY <1>1, <2>2, <2>4, <2>5, AdvancePred
<1>4. ASSUME NEW n \in L, p.lo <= KeyOf(heap, n), KeyOf(heap, n) < p.hi
      PROVE  IsPred(heap, L, 0, p.hi, Advance(0, n, {x \in Key : Predicate(p, x) = 0}))
  <2> DEFINE inside == {x \in Key : Predicate(p, x) = 0}
  <2>1. \A x \in Key : KeyOf(heap, n) < x => (x \in inside <=> x < p.hi)
    <3> SUFFICES ASSUME NEW x \in Key, KeyOf(heap, n) < x PROVE x \in inside <=> x < p.hi
      OBVIOUS
    <3>1. x \in Nat /\ KeyOf(heap, n) \in Nat
      BY <1>1, <1>2
    <3> QED BY <1>4, <3>1 DEF Predicate
  <2>2. n # Sentinel
    BY DEF Shape
  <2> HIDE DEF inside
  <2>3. IsPred(heap, L, 0, p.hi, Advance(0, n, inside))
    BY <1>1, <1>4, <2>1, <2>2, AdvancePred
  <2> QED BY <2>3 DEF inside
<1> QED BY <1>3, <1>4, PredLower

\* The keys of an iterator range.
KeysBetween(from, to) == {heap[n].key : n \in Range(Chain(0, from, to))}

\* What SearchesAgree says of one range.
RangeAgrees(p, hits, range) ==
  /\ KeysBetween(begin_preffix(p), end_preffix(p)) = hits
  /\ IF hits = {} THEN range = Nil ELSE KeysBetween(range[1], range[2]) = hits

\* The shape makes the searches agree with the list.
LEMMA ShapeSearches ==
  ASSUME NEW L, Shape(heap, current_level, L)
  PROVE  SearchesAgree
<1> DEFINE present == {k \in Key : Contents[k] # None}
<1>1. /\ HeapType(heap) /\ L \in SUBSET (DOMAIN heap \ {Sentinel}) /\ Key \subseteq Nat
      /\ \A x \in L : KeyOf(heap, x) \in Nat /\ x # Nil
  BY NodeIs, TableAssumption DEF Shape
<1>2. present = {KeyOf(heap, x) : x \in L}
  BY <1>1, ContentsStores, Present
<1> HIDE DEF present
<1>3. ASSUME NEW k \in Key
      PROVE  IF k \in present THEN get(k, 0) # Nil /\ heap[get(k, 0)].key = k
             ELSE get(k, 0) = Nil
  <2>1. \/ get(k, 0) = Nil /\ \A x \in L : KeyOf(heap, x) # k
        \/ get(k, 0) \in L /\ KeyOf(heap, get(k, 0)) = k
    BY <1>1, GetIs
  <2> QED BY <1>1, <1>2, <2>1 DEF KeyOf
<1>4. ASSUME NEW lo \in Key \cup {k + 1 : k \in Key}, NEW hi \in Key \cup {k + 1 : k \in Key},
             lo <= hi, NEW p, p = [lo |-> lo, hi |-> hi],
             NEW hits, hits = {k \in present : lo <= k /\ k < hi},
             NEW range, range = iters_monotony_predicate(p)
      PROVE  RangeAgrees(p, hits, range)
  <2>1. p.lo = lo /\ p.hi = hi /\ lo \in Nat /\ hi \in Nat
    BY <1>1, <1>4
  <2>2. IsLower(heap, L, lo, begin_preffix(p)) /\ IsLower(heap, L, hi, end_preffix(p))
    BY <1>4, <2>1, LowerBoundIs, EndPrefixIs DEF begin_preffix
  <2>3. KeysBetween(begin_preffix(p), end_preffix(p)) = hits
    BY <1>2, <1>4, <2>1, <2>2, RangeKeys DEF KeysBetween
  <2> DEFINE first == Fwd(heap, Before(p), 0)
             last  == Advance(0, first, {x \in Key : Predicate(p, x) = 0})
  <2>4. range = IF first = Nil \/ Predicate(p, KeyOf(heap, first)) < 0
                THEN Nil ELSE <<first, Fwd(heap, last, 0)>>
    BY <1>4 DEF iters_monotony_predicate, Fwd, KeyOf
  <2>5. IsLower(heap, L, lo, first)
    BY <1>4, <2>1, PredicateIs
  <2>6. first # Nil => /\ first \in L /\ lo <= KeyOf(heap, first)
                       /\ Predicate(p, KeyOf(heap, first)) < 0 <=> ~(KeyOf(heap, first) < hi)
    <3> SUFFICES ASSUME first # Nil
                 PROVE  /\ first \in L /\ lo <= KeyOf(heap, first)
                        /\ Predicate(p, KeyOf(heap, first)) < 0 <=> ~(KeyOf(heap, first) < hi)
      OBVIOUS
    <3>1. first \in L /\ KeyOf(heap, first) >= lo /\ KeyOf(heap, first) \in Nat
      BY <1>1, <2>5 DEF IsLower
    <3> HIDE DEF first
    <3> QED BY <2>1, <3>1 DEF Predicate
  <2>7. first # Nil /\ KeyOf(heap, first) < hi => IsLower(heap, L, hi, Fwd(heap, last, 0))
    BY <1>4, <2>1, <2>6, PredicateIs
  <2> HIDE DEF first, last
  <2>8. CASE first = Nil \/ ~(KeyOf(heap, first) < hi)
    <3>1. range = Nil
      BY <2>4, <2>6, <2>8
    <3>2. hits = {}
      BY <1>1, <1>2, <1>4, <2>1, <2>5, <2>8 DEF IsLower
    <3> QED BY <2>3, <3>1, <3>2 DEF RangeAgrees
  <2>9. CASE first # Nil /\ KeyOf(heap, first) < hi
    <3>1. range = <<first, Fwd(heap, last, 0)>>
      BY <2>4, <2>6, <2>9
    <3>2. KeysBetween(first, Fwd(heap, last, 0)) = hits
      BY <1>2, <1>4, <2>1, <2>5, <2>7, <2>9, RangeKeys DEF KeysBetween
    <3>3. KeyOf(heap, first) \in hits
      BY <1>2, <1>4, <2>6, <2>9
    <3>4. range[1] = first /\ range[2] = Fwd(heap, last, 0)
      BY <3>1
    <3> QED BY <2>3, <3>2, <3>3, <3>4 DEF RangeAgrees
  <2> QED BY <2>8, <2>9
<1>5. \A lo, hi \in Key \cup {k + 1 : k \in Key} :
        lo <= hi => RangeAgrees([lo |-> lo, hi |-> hi], {k \in present : lo <= k /\ k < hi},
                                iters_monotony_predicate([lo |-> lo, hi |-> hi]))
  BY <1>4
<1> QED BY <1>3, <1>5 DEF SearchesAgree, RangeAgrees, KeysBetween, present

\* A heap has the nodes of another, and maybe more, with the same keys and levels.
Keeps(h, g, D) ==
  \A m \in D : /\ KeyOf(g, m) = KeyOf(h, m)
               /\ \A i : Tall(g, m, i) <=> Tall(h, m, i)

\* What put does to the pointers when it links the new node n.
Links(h, g, n, k, levels, U) ==
  /\ n \notin DOMAIN h /\ DOMAIN g = DOMAIN h \cup {n}
  /\ Keeps(h, g, DOMAIN h)
  /\ KeyOf(g, n) = k /\ \A i : Tall(g, n, i) <=> i \in levels
  /\ \A m \in DOMAIN h, i \in Level : Tall(h, m, i) =>
       /\ Fwd(g, m, i) = IF i \in levels /\ U[i] = m THEN n ELSE Fwd(h, m, i)
       /\ Bwd(g, m, i) = IF i \in levels /\ Fwd(h, U[i], i) = m THEN n ELSE Bwd(h, m, i)
  /\ \A i \in levels : Fwd(g, n, i) = Fwd(h, U[i], i) /\ Bwd(g, n, i) = U[i]

\* Linking a node with a new key where the searches end keeps the shape.
LEMMA LinkShape ==
  ASSUME NEW h, NEW cl, NEW L, Shape(h, cl, L), NEW g, HeapType(g),
         NEW n, NEW k \in Key, NEW levels, NEW U, Links(h, g, n, k, levels, U),
         NEW l \in 1 .. MaxLevel, levels = 0 .. l - 1, NEW c2, c2 = IF cl < l THEN l ELSE cl,
         \A x \in L : KeyOf(h, x) # k,
         \A i \in levels : IsPred(h, L, i, k, U[i])
  PROVE  Shape(g, c2, L \cup {n})
<1> DEFINE M == L \cup {n}
<1>1. /\ HeapType(h) /\ Ascends(h) /\ L \subseteq DOMAIN h \ {Sentinel} /\ cl \in 1 .. MaxLevel
      /\ k \in Nat /\ Sentinel \in DOMAIN h /\ levels \subseteq Level /\ Nil \notin DOMAIN h
      /\ Nil \notin DOMAIN g /\ MaxLevel \in Nat
  BY TableAssumption, SkipListAssumption, NodeIs DEF Shape, HeapType, Level
<1>2. \A m \in DOMAIN h : KeyOf(h, m) \in Nat /\ KeyOf(g, m) = KeyOf(h, m) /\ m # Nil /\ m # n
  BY <1>1, NodeIs DEF Links, Keeps
<1>3. KeyOf(g, n) = k /\ n # Nil /\ n # Sentinel /\ n \in DOMAIN g /\ n \notin L
  BY <1>1 DEF Links
<1>4. ASSUME NEW i \in levels
      PROVE  /\ U[i] \in L \cup {Sentinel} /\ U[i] \in DOMAIN h /\ Tall(h, U[i], i)
             /\ U[i] = Sentinel \/ KeyOf(h, U[i]) < k
             /\ Fwd(h, U[i], i) = Nil \/ Fwd(h, U[i], i) \in Above(h, L, U[i], i)
             /\ Above(h, L, U[i], i) = {x \in L : Tall(h, x, i) /\ k < KeyOf(h, x)}
             /\ \A x \in Above(h, L, U[i], i) :
                  Fwd(h, U[i], i) # Nil /\ KeyOf(h, Fwd(h, U[i], i)) <= KeyOf(h, x)
  <2>1. IsPred(h, L, i, k, U[i]) /\ i \in Level
    BY <1>1
  <2>2. Leads(h, L, U[i], i)
    BY <2>1 DEF Shape, IsPred
  <2>3. \A x \in L : Tall(h, x, i) => (x \in Above(h, L, U[i], i) <=> KeyOf(h, x) >= k)
    BY <1>1, <2>1, PredAbove
  <2>4. \A x \in L : KeyOf(h, x) \in Nat /\ KeyOf(h, x) # k
    BY <1>1, <1>2
  <2>5. Above(h, L, U[i], i) = {x \in L : Tall(h, x, i) /\ k < KeyOf(h, x)}
    BY <1>1, <2>3, <2>4 DEF Above
  <2> QED BY <1>1, <2>1, <2>2, <2>5 DEF IsPred, Leads
<1>5. Ascends(g)
  <2> SUFFICES ASSUME NEW m \in DOMAIN g, NEW i \in Level, Tall(g, m, i), Fwd(g, m, i) # Nil
               PROVE  /\ Fwd(g, m, i) \in DOMAIN g \ {Sentinel}
                      /\ Tall(g, Fwd(g, m, i), i)
                      /\ m = Sentinel \/ KeyOf(g, m) < KeyOf(g, Fwd(g, m, i))
    BY DEF Ascends
  <2>1. CASE m = n
    <3>1. i \in levels /\ Fwd(g, m, i) = Fwd(h, U[i], i)
      BY <2>1 DEF Links
    <3>2. Fwd(h, U[i], i) \in L /\ Tall(h, Fwd(h, U[i], i), i) /\ k < KeyOf(h, Fwd(h, U[i], i))
      BY <1>4, <3>1
    <3> QED BY <1>1, <1>2, <1>3, <2>1, <3>1, <3>2 DEF Links, Keeps
  <2>2. CASE m # n /\ i \in levels /\ U[i] = m
    <3>1. m \in DOMAIN h /\ Tall(h, m, i) /\ Fwd(g, m, i) = n
      BY <2>2 DEF Links, Keeps
    <3> QED BY <1>2, <1>3, <1>4, <2>2, <3>1 DEF Links
  <2>3. CASE m # n /\ ~(i \in levels /\ U[i] = m)
    <3>1. m \in DOMAIN h /\ Tall(h, m, i) /\ Fwd(g, m, i) = Fwd(h, m, i)
      BY <2>3 DEF Links, Keeps
    <3>2. /\ Fwd(h, m, i) \in DOMAIN h \ {Sentinel}
          /\ Tall(h, Fwd(h, m, i), i)
          /\ m = Sentinel \/ KeyOf(h, m) < KeyOf(h, Fwd(h, m, i))
      BY <1>1, <3>1 DEF Ascends
    <3> QED BY <1>2, <3>1, <3>2 DEF Links, Keeps
  <2> QED BY <2>1, <2>2, <2>3
<1>6. M \subseteq DOMAIN g \ {Sentinel}
  BY <1>1, <1>3 DEF Links
<1>7. \A x, y \in M : KeyOf(g, x) = KeyOf(g, y) => x = y
  BY <1>1, <1>2, <1>3 DEF Shape
<1>8. ASSUME NEW m \in M \cup {Sentinel}, NEW i \in Level, Tall(g, m, i) PROVE Leads(g, M, m, i)
  <2>1. Above(g, M, m, i) \subseteq M
    BY DEF Above
  <2>2. \A x \in L : KeyOf(g, x) = KeyOf(h, x) /\ (Tall(g, x, i) <=> Tall(h, x, i)) /\ x # n
    BY <1>1, <1>2 DEF Links, Keeps
  <2>3. CASE m = n
    <3>1. i \in levels /\ Fwd(g, m, i) = Fwd(h, U[i], i)
      BY <1>8, <2>3 DEF Links
    <3>2. Above(g, M, m, i) = {x \in L : Tall(h, x, i) /\ k < KeyOf(h, x)}
      BY <1>1, <1>3, <2>2, <2>3 DEF Above
    <3>3. Above(g, M, m, i) = Above(h, L, U[i], i)
      BY <1>4, <3>1, <3>2
    <3>4. \A x \in Above(g, M, m, i) : x \in L
      BY <3>2
    <3> QED BY <1>4, <2>2, <3>1, <3>3, <3>4 DEF Leads
  <2>4. CASE m # n
    <3>1. /\ m \in L \cup {Sentinel} /\ m \in DOMAIN h /\ Tall(h, m, i)
          /\ KeyOf(g, m) = KeyOf(h, m) /\ KeyOf(h, m) \in Nat
      BY <1>1, <1>2, <1>8, <2>4 DEF Links, Keeps
    <3>2. Leads(h, L, m, i)
      BY <3>1 DEF Shape
    <3>3. Above(g, M, m, i) = Above(h, L, m, i) \cup
            (IF i \in levels /\ (m = Sentinel \/ KeyOf(h, m) < k) THEN {n} ELSE {})
      BY <1>3, <2>2, <3>1 DEF Above, Links
    <3>4. \A x \in Above(h, L, m, i) : x \in L
      BY DEF Above
    <3>5. CASE i \in levels /\ U[i] = m
      <4>1. Fwd(g, m, i) = n /\ n \in Above(g, M, m, i)
        BY <1>4, <3>1, <3>3, <3>5 DEF Links
      <4>2. \A x \in Above(h, L, m, i) : k < KeyOf(h, x)
        BY <1>4, <3>5
      <4>3. ASSUME NEW x \in Above(g, M, m, i) PROVE KeyOf(g, n) <= KeyOf(g, x)
        <5>1. CASE x = n
          BY <1>1, <1>3, <5>1
        <5>2. CASE x # n
          <6>1. x \in Above(h, L, m, i)
            BY <3>3, <5>2
          <6> QED BY <1>1, <1>2, <1>3, <2>2, <3>4, <4>2, <6>1
        <5> QED BY <5>1, <5>2
      <4> QED BY <1>3, <4>1, <4>3 DEF Leads
    <3>6. CASE ~(i \in levels /\ U[i] = m)
      <4>1. Fwd(g, m, i) = Fwd(h, m, i)
        BY <3>1, <3>6 DEF Links
      <4>2. ASSUME i \in levels, m = Sentinel \/ KeyOf(h, m) < k
            PROVE  Fwd(h, m, i) # Nil /\ KeyOf(h, Fwd(h, m, i)) < k
        <5>1. ~IsPred(h, L, i, k, m)
          BY <1>1, <3>6, <4>2, PredUnique
        <5>2. Fwd(h, m, i) # Nil /\ ~(KeyOf(h, Fwd(h, m, i)) >= k)
          BY <3>1, <4>2, <5>1 DEF IsPred
        <5>3. KeyOf(h, Fwd(h, m, i)) \in Nat
          BY <1>1, <1>2, <3>2, <3>4, <5>2 DEF Leads
        <5> QED BY <1>1, <5>2, <5>3
      <4>3. Fwd(h, m, i) # Nil => Fwd(h, m, i) \in L
        BY <3>2, <3>4 DEF Leads
      <4>4. ASSUME NEW x \in Above(g, M, m, i)
            PROVE  Fwd(h, m, i) # Nil /\ KeyOf(g, Fwd(h, m, i)) <= KeyOf(g, x)
        <5>1. CASE x \in Above(h, L, m, i)
          BY <2>2, <3>2, <3>4, <4>3, <5>1 DEF Leads
        <5>2. CASE x \notin Above(h, L, m, i)
          <6>1. x = n /\ i \in levels /\ (m = Sentinel \/ KeyOf(h, m) < k)
            BY <3>3, <5>2
          <6>2. Fwd(h, m, i) # Nil /\ KeyOf(h, Fwd(h, m, i)) < k
            BY <4>2, <6>1
          <6>3. KeyOf(h, Fwd(h, m, i)) \in Nat
            BY <1>1, <1>2, <4>3, <6>2
          <6> QED BY <1>1, <1>3, <2>2, <4>3, <6>1, <6>2, <6>3
        <5> QED BY <5>1, <5>2
      <4> QED BY <3>2, <3>3, <4>1, <4>4 DEF Leads
    <3> QED BY <3>5, <3>6
  <2> QED BY <2>3, <2>4
<1>9. ASSUME NEW x \in M, NEW i \in Level, Tall(g, x, i)
      PROVE  /\ i < c2
             /\ Bwd(g, x, i) \in M \cup {Sentinel}
             /\ Tall(g, Bwd(g, x, i), i)
             /\ Fwd(g, Bwd(g, x, i), i) = x
  <2>1. CASE x = n
    <3>1. i \in levels /\ Bwd(g, x, i) = U[i]
      BY <1>9, <2>1 DEF Links
    <3>2. i < c2
      BY <1>1, <3>1
    <3>3. Fwd(g, U[i], i) = n
      BY <1>1, <1>4, <3>1 DEF Links
    <3> QED BY <1>1, <1>4, <2>1, <3>1, <3>2, <3>3 DEF Links, Keeps
  <2>2. CASE x # n
    <3>1. x \in L /\ x \in DOMAIN h /\ Tall(h, x, i)
      BY <1>1, <1>9, <2>2 DEF Links, Keeps
    <3> DEFINE p == Bwd(h, x, i)
    <3>2. /\ i < cl /\ p \in L \cup {Sentinel} /\ p \in DOMAIN h
          /\ Tall(h, p, i) /\ Fwd(h, p, i) = x
      BY <1>1, <3>1 DEF Shape
    <3>3. i < c2
      BY <1>1, <3>2 DEF Level
    <3>4. CASE i \in levels /\ Fwd(h, U[i], i) = x
      <4>1. Bwd(g, x, i) = n
        BY <3>1, <3>4 DEF Links
      <4>2. Tall(g, n, i) /\ Fwd(g, n, i) = x
        BY <3>4 DEF Links
      <4> QED BY <3>3, <4>1, <4>2
    <3>5. CASE ~(i \in levels /\ Fwd(h, U[i], i) = x)
      <4>1. Bwd(g, x, i) = p
        BY <3>1, <3>5 DEF Links
      <4>2. ~(i \in levels /\ U[i] = p)
        BY <3>2, <3>5
      <4> HIDE DEF p
      <4>3. Fwd(g, p, i) = x /\ Tall(g, p, i)
        BY <3>2, <4>2 DEF Links, Keeps
      <4> QED BY <3>2, <3>3, <4>1, <4>3
    <3> QED BY <3>4, <3>5
  <2> QED BY <2>1, <2>2
<1>10. c2 \in 1 .. MaxLevel
  BY <1>1
<1> HIDE DEF M
<1>11. Shape(g, c2, M)
  BY <1>5, <1>6, <1>7, <1>8, <1>9, <1>10 DEF Shape
<1> QED BY <1>11 DEF M

\* What remove does to the pointers when it takes the node n out of its lanes.
Unlinks(h, g, n, U) ==
  /\ DOMAIN g = DOMAIN h /\ Keeps(h, g, DOMAIN h)
  /\ \A m \in DOMAIN h, i \in Level : Tall(h, m, i) =>
       /\ Fwd(g, m, i) = IF Tall(h, n, i) /\ U[i] = m THEN Fwd(h, n, i) ELSE Fwd(h, m, i)
       /\ Bwd(g, m, i) = IF Tall(h, n, i) /\ Fwd(h, n, i) = m THEN U[i] ELSE Bwd(h, m, i)

\* A search for the key of a linked node stops right before the node on exactly the
\* lanes it takes part in.
LEMMA BeforeNode ==
  ASSUME NEW h, NEW cl, NEW L, Shape(h, cl, L), NEW n \in L, NEW i \in Level,
         NEW p, IsPred(h, L, i, KeyOf(h, n), p)
  PROVE  Tall(h, n, i) <=> Fwd(h, p, i) = n
<1>1. /\ HeapType(h) /\ L \subseteq DOMAIN h \ {Sentinel} /\ n \in DOMAIN h
      /\ \A x \in L : KeyOf(h, x) \in Nat /\ x # Nil
  BY NodeIs DEF Shape
<1>2. Leads(h, L, p, i)
  BY DEF Shape, IsPred
<1>3. Above(h, L, p, i) \subseteq {x \in L : Tall(h, x, i)}
  BY DEF Above
<1>4. ASSUME Tall(h, n, i) PROVE Fwd(h, p, i) = n
  <2>1. n \in Above(h, L, p, i)
    BY <1>1, <1>4, PredAbove
  <2>2. Fwd(h, p, i) \in L /\ KeyOf(h, Fwd(h, p, i)) <= KeyOf(h, n)
    BY <1>2, <1>3, <2>1 DEF Leads
  <2>3. KeyOf(h, Fwd(h, p, i)) >= KeyOf(h, n)
    BY <1>1, <2>2 DEF IsPred
  <2> QED BY <1>1, <2>2, <2>3 DEF Shape
<1>5. ASSUME Fwd(h, p, i) = n PROVE Tall(h, n, i)
  BY <1>1, <1>2, <1>3, <1>5 DEF Leads
<1> QED BY <1>4, <1>5

\* Taking a node out where the searches for its key end keeps the shape.
LEMMA UnlinkShape ==
  ASSUME NEW h, NEW cl, NEW L, Shape(h, cl, L), NEW g, HeapType(g),
         NEW n \in L, NEW U, Unlinks(h, g, n, U),
         \A i \in Level : IsPred(h, L, i, KeyOf(h, n), U[i]),
         NEW c2 \in 1 .. MaxLevel,
         \A i \in 0 .. cl - 1 : Fwd(g, Sentinel, i) # Nil => i < c2
  PROVE  Shape(g, c2, L \ {n})
<1> DEFINE M == L \ {n}
<1>1. /\ HeapType(h) /\ Ascends(h) /\ L \subseteq DOMAIN h \ {Sentinel} /\ cl \in 1 .. MaxLevel
      /\ Sentinel \in DOMAIN h /\ Nil \notin DOMAIN h /\ n \in DOMAIN h /\ n # Sentinel
      /\ DOMAIN g = DOMAIN h
  BY SkipListAssumption DEF Shape, HeapType, Unlinks
<1>2. \A m \in DOMAIN h : /\ KeyOf(h, m) \in Nat /\ KeyOf(g, m) = KeyOf(h, m) /\ m # Nil
                          /\ \A i : Tall(g, m, i) <=> Tall(h, m, i)
  BY <1>1, NodeIs DEF Unlinks, Keeps
<1>3. ASSUME NEW i \in Level, Tall(h, n, i)
      PROVE  /\ U[i] \in M \cup {Sentinel} /\ U[i] \in DOMAIN h /\ Tall(h, U[i], i)
             /\ U[i] = Sentinel \/ KeyOf(h, U[i]) < KeyOf(h, n)
             /\ Fwd(h, U[i], i) = n
             /\ \A m \in L \cup {Sentinel} :
                  Tall(h, m, i) /\ Fwd(h, m, i) = n => m = U[i]
  <2>1. IsPred(h, L, i, KeyOf(h, n), U[i])
    OBVIOUS
  <2>2. Fwd(h, U[i], i) = n
    BY <1>3, BeforeNode
  <2>3. /\ U[i] \in L \cup {Sentinel} /\ Tall(h, U[i], i)
        /\ U[i] = Sentinel \/ KeyOf(h, U[i]) < KeyOf(h, n)
    BY <2>1 DEF IsPred
  <2>4. \A m \in L \cup {Sentinel} :
          Tall(h, m, i) /\ Fwd(h, m, i) = n => m = U[i]
    BY <1>3, <2>2, <2>3, OnePred
  <2> QED BY <1>1, <1>2, <2>2, <2>3, <2>4
<1>4. Ascends(g)
  <2> SUFFICES ASSUME NEW m \in DOMAIN g, NEW i \in Level, Tall(g, m, i), Fwd(g, m, i) # Nil
               PROVE  /\ Fwd(g, m, i) \in DOMAIN g \ {Sentinel}
                      /\ Tall(g, Fwd(g, m, i), i)
                      /\ m = Sentinel \/ KeyOf(g, m) < KeyOf(g, Fwd(g, m, i))
    BY DEF Ascends
  <2>1. m \in DOMAIN h /\ Tall(h, m, i)
    BY <1>1, <1>2
  <2>2. CASE Tall(h, n, i) /\ U[i] = m
    <3>1. Fwd(g, m, i) = Fwd(h, n, i)
      BY <2>1, <2>2 DEF Unlinks
    <3>2. /\ Fwd(h, n, i) \in DOMAIN h \ {Sentinel} /\ Tall(h, Fwd(h, n, i), i)
          /\ KeyOf(h, n) < KeyOf(h, Fwd(h, n, i))
      BY <1>1, <2>2, <3>1 DEF Ascends
    <3>3. m = Sentinel \/ KeyOf(h, m) < KeyOf(h, n)
      BY <1>3, <2>2
    <3>4. m = Sentinel \/ KeyOf(h, m) < KeyOf(h, Fwd(h, n, i))
      BY <1>1, <1>2, <2>1, <3>2, <3>3
    <3> QED BY <1>1, <1>2, <2>1, <3>1, <3>2, <3>4
  <2>3. CASE ~(Tall(h, n, i) /\ U[i] = m)
    <3>1. Fwd(g, m, i) = Fwd(h, m, i)
      BY <2>1, <2>3 DEF Unlinks
    <3> QED BY <1>1, <1>2, <2>1, <3>1 DEF Ascends
  <2> QED BY <2>2, <2>3
<1>5. /\ M \subseteq DOMAIN g \ {Sentinel}
      /\ \A x, y \in M : KeyOf(g, x) = KeyOf(g, y) => x = y
  BY <1>1, <1>2 DEF Shape
<1>6. ASSUME NEW m \in M \cup {Sentinel}, NEW i \in Level, Tall(g, m, i) PROVE Leads(g, M, m, i)
  <2>1. /\ m \in DOMAIN h /\ Tall(h, m, i) /\ m # n /\ m \in L \cup {Sentinel}
        /\ \A x \in L : x \in DOMAIN h
    BY <1>1, <1>2, <1>6
  <2>2. Leads(h, L, m, i)
    BY <2>1 DEF Shape
  <2>3. Above(g, M, m, i) = Above(h, L, m, i) \ {n}
    BY <1>2, <2>1 DEF Above
  <2>4. \A z, x : z \in Above(h, L, m, i) /\ x \in Above(h, L, m, i) =>
                    KeyOf(g, z) = KeyOf(h, z) /\ KeyOf(g, x) = KeyOf(h, x)
    BY <1>2, <2>1 DEF Above
  <2>5. CASE Tall(h, n, i) /\ U[i] = m
    <3>1. Fwd(g, m, i) = Fwd(h, n, i)
      BY <2>1, <2>5 DEF Unlinks
    <3>2. Fwd(h, m, i) = n /\ n # Nil
      BY <1>1, <1>3, <2>5
    <3>3. Leads(h, L, n, i)
      BY <2>5 DEF Shape
    <3>4. Above(h, L, m, i) \ {n} = Above(h, L, n, i)
      <4>1. \A x \in L : /\ KeyOf(h, x) \in Nat /\ KeyOf(h, n) \in Nat
                         /\ m # Sentinel => KeyOf(h, m) \in Nat
                         /\ KeyOf(h, x) = KeyOf(h, n) => x = n
        BY <1>2, <2>1 DEF Shape
      <4>2. n \in Above(h, L, m, i)
        BY <2>2, <3>2 DEF Leads
      <4>3. ASSUME NEW x \in Above(h, L, m, i) \ {n} PROVE x \in Above(h, L, n, i)
        <5>1. x \in L /\ Tall(h, x, i) /\ KeyOf(h, n) <= KeyOf(h, x)
          BY <2>2, <3>2 DEF Leads, Above
        <5> QED BY <1>1, <4>1, <5>1 DEF Above
      <4>4. ASSUME NEW x \in Above(h, L, n, i) PROVE x \in Above(h, L, m, i) \ {n}
        <5>1. x \in L /\ Tall(h, x, i) /\ KeyOf(h, n) < KeyOf(h, x)
          BY <1>1 DEF Above
        <5>2. m = Sentinel \/ KeyOf(h, m) < KeyOf(h, n)
          BY <4>2 DEF Above
        <5> QED BY <4>1, <5>1, <5>2 DEF Above
      <4> QED BY <4>3, <4>4
    <3>5. Above(g, M, m, i) = Above(h, L, n, i)
      BY <2>3, <3>4
    <3>6. \A x \in Above(h, L, n, i) : KeyOf(g, x) = KeyOf(h, x)
      BY <1>2, <2>1 DEF Above
    <3> QED BY <3>1, <3>3, <3>5, <3>6 DEF Leads
  <2>6. CASE ~(Tall(h, n, i) /\ U[i] = m)
    <3>1. Fwd(g, m, i) = Fwd(h, m, i)
      BY <2>1, <2>6 DEF Unlinks
    <3>2. Fwd(h, m, i) # n
      <4>1. CASE Tall(h, n, i)
        BY <1>3, <2>1, <2>6, <4>1
      <4>2. CASE ~Tall(h, n, i)
        BY <1>1, <2>2, <4>2 DEF Leads, Above
      <4> QED BY <4>1, <4>2
    <3> QED BY <2>2, <2>3, <2>4, <3>1, <3>2 DEF Leads
  <2> QED BY <2>5, <2>6
<1>7. ASSUME NEW x \in M, NEW i \in Level, Tall(g, x, i)
      PROVE  /\ i < c2
             /\ Bwd(g, x, i) \in M \cup {Sentinel}
             /\ Tall(g, Bwd(g, x, i), i)
             /\ Fwd(g, Bwd(g, x, i), i) = x
  <2>1. x \in L /\ x \in DOMAIN h /\ Tall(h, x, i) /\ x # n /\ Tall(g, Sentinel, i)
    BY <1>1, <1>2, <1>7, NodeIs
  <2> DEFINE p == Bwd(h, x, i)
  <2>2. /\ i < cl /\ p \in L \cup {Sentinel} /\ p \in DOMAIN h
        /\ Tall(h, p, i) /\ Fwd(h, p, i) = x
    BY <1>1, <2>1 DEF Shape
  <2>3. i < c2
    <3>1. Leads(g, M, Sentinel, i)
      BY <1>6, <2>1
    <3>2. x \in Above(g, M, Sentinel, i)
      BY <1>7 DEF Above
    <3>3. Fwd(g, Sentinel, i) # Nil
      BY <3>1, <3>2 DEF Leads
    <3>4. i \in 0 .. cl - 1
      BY <1>1, <2>2 DEF Level
    <3> QED BY <3>3, <3>4
  <2>4. CASE Tall(h, n, i) /\ Fwd(h, n, i) = x
    <3>1. Bwd(g, x, i) = U[i]
      BY <2>1, <2>4 DEF Unlinks
    <3>2. U[i] \in M \cup {Sentinel} /\ U[i] \in DOMAIN h /\ Tall(h, U[i], i)
      BY <1>3, <2>4
    <3>3. Fwd(g, U[i], i) = x
      BY <2>4, <3>2 DEF Unlinks
    <3> QED BY <1>2, <2>3, <3>1, <3>2, <3>3
  <2>5. CASE ~(Tall(h, n, i) /\ Fwd(h, n, i) = x)
    <3>1. Bwd(g, x, i) = p
      BY <2>1, <2>5 DEF Unlinks
    <3>2. p # n
      BY <2>2, <2>5
    <3>3. ~(Tall(h, n, i) /\ U[i] = p)
      BY <1>3, <2>1, <2>2
    <3> HIDE DEF p
    <3>4. Fwd(g, p, i) = x
      BY <2>2, <3>3 DEF Unlinks
    <3> QED BY <1>2, <2>2, <2>3, <3>1, <3>2, <3>4
  <2> QED BY <2>4, <2>5
<1> HIDE DEF M
<1>8. Shape(g, c2, M)
  BY <1>4, <1>5, <1>6, <1>7 DEF Shape
<1> QED BY <1>8 DEF M

-----------------------------------------------------------------------------
(* Heaps whose pointers are edited.                                        *)

\* A node with other pointers.
Edit(node, f, b) == [node EXCEPT !.forward = f, !.backward = b]

\* A node keeps everything but the pointers that are edited.
LEMMA EditIs ==
  ASSUME NEW x \in Node, DOMAIN x.forward = DOMAIN x.backward,
         NEW f \in [DOMAIN x.forward -> NodeId \cup {Nil}],
         NEW b \in [DOMAIN x.forward -> NodeId \cup {Sentinel, Nil}]
  PROVE  /\ Edit(x, f, b) \in Node
         /\ Edit(x, f, b).key = x.key /\ Edit(x, f, b).value = x.value
         /\ Edit(x, f, b).tranc_id = x.tranc_id
         /\ Edit(x, f, b).forward = f /\ Edit(x, f, b).backward = b
<1>1. PICK l \in 1 .. MaxLevel : x.forward \in [0 .. l - 1 -> NodeId \cup {Nil}]
  BY DEF Node
<1>2. DOMAIN x.forward = 0 .. l - 1
  BY <1>1
<1> DEFINE F == UNION {[0 .. c - 1 -> NodeId \cup {Nil}] : c \in 1 .. MaxLevel}
           B == UNION {[0 .. c - 1 -> NodeId \cup {Sentinel, Nil}] : c \in 1 .. MaxLevel}
           K == Key \cup {0}
           R == [key : K, value : Value, tranc_id : TrancId, forward : F, backward : B]
<1>3. f \in F /\ b \in B
  BY <1>2
<1>4. Node = R
  BY DEF Node
<1> HIDE DEF F, B, K
<1>5. x \in [key : K, value : Value, tranc_id : TrancId, forward : F, backward : B]
  BY <1>4
<1>6. /\ Edit(x, f, b) \in [key : K, value : Value, tranc_id : TrancId, forward : F, backward : B]
      /\ Edit(x, f, b).key = x.key /\ Edit(x, f, b).value = x.value
      /\ Edit(x, f, b).tranc_id = x.tranc_id
      /\ Edit(x, f, b).forward = f /\ Edit(x, f, b).backward = b
  BY <1>3, <1>5 DEF Edit
<1> QED BY <1>4, <1>6

\* A heap of edited nodes.
Edited(h, g, D, f, b) ==
  /\ Sentinel \in D /\ D \subseteq DOMAIN h
  /\ \A m \in D : /\ f[m] \in [DOMAIN h[m].forward -> NodeId \cup {Nil}]
                  /\ b[m] \in [DOMAIN h[m].forward -> D \cup {Nil}]
  /\ g = [m \in D |-> Edit(h[m], f[m], b[m])]

\* It is a heap that keeps its keys, towers and entries, and has those pointers.
LEMMA EditedIs ==
  ASSUME NEW h, HeapType(h), NEW g, NEW D, NEW f, NEW b, Edited(h, g, D, f, b)
  PROVE  /\ HeapType(g) /\ DOMAIN g = D /\ Keeps(h, g, D)
         /\ \A m \in D : EntryOf(g, m) = EntryOf(h, m)
         /\ \A m \in D : \A i : Fwd(g, m, i) = f[m][i] /\ Bwd(g, m, i) = b[m][i]
<1>1. DOMAIN g = D /\ \A m \in D : g[m] = Edit(h[m], f[m], b[m])
  BY DEF Edited
<1>2. /\ Sentinel \in D /\ D \subseteq DOMAIN h /\ DOMAIN h \subseteq NodeId \cup {Sentinel}
      /\ IsFiniteSet(D)
  BY FS_Subset DEF Edited, HeapType
<1>3. ASSUME NEW m \in D
      PROVE  /\ g[m] \in Node /\ g[m].key = h[m].key /\ g[m].value = h[m].value
             /\ g[m].tranc_id = h[m].tranc_id
             /\ g[m].forward = f[m] /\ g[m].backward = b[m]
             /\ DOMAIN g[m].forward = DOMAIN h[m].forward
             /\ DOMAIN g[m].backward = DOMAIN h[m].forward
             /\ \A i \in DOMAIN h[m].forward : b[m][i] \in D \cup {Nil}
  <2>1. h[m] \in Node /\ DOMAIN h[m].forward = DOMAIN h[m].backward
    BY <1>2 DEF HeapType
  <2>2. f[m] \in [DOMAIN h[m].forward -> NodeId \cup {Nil}]
    BY DEF Edited
  <2>3. /\ b[m] \in [DOMAIN h[m].forward -> D \cup {Nil}]
        /\ b[m] \in [DOMAIN h[m].forward -> NodeId \cup {Sentinel, Nil}]
    BY <1>2 DEF Edited
  <2>4. /\ Edit(h[m], f[m], b[m]) \in Node
        /\ Edit(h[m], f[m], b[m]).key = h[m].key /\ Edit(h[m], f[m], b[m]).value = h[m].value
        /\ Edit(h[m], f[m], b[m]).tranc_id = h[m].tranc_id
        /\ Edit(h[m], f[m], b[m]).forward = f[m] /\ Edit(h[m], f[m], b[m]).backward = b[m]
    BY <2>1, <2>2, <2>3, EditIs
  <2> QED BY <1>1, <2>2, <2>3, <2>4
<1>4. HeapType(g)
  <2>1. ASSUME NEW m \in D
        PROVE  /\ g[m] \in Node /\ DOMAIN g[m].forward = DOMAIN g[m].backward
               /\ \A i : Tall(g, m, i) => Bwd(g, m, i) \in D \cup {Nil}
               /\ m # Sentinel => g[m].key \in Key
    BY <1>2, <1>3 DEF Tall, Bwd, HeapType
  <2>2. /\ DOMAIN g[Sentinel].forward = Level
        /\ g[Sentinel].key = 0 /\ g[Sentinel].value = 0 /\ g[Sentinel].tranc_id = 0
    BY <1>2, <1>3 DEF HeapType
  <2> QED BY <1>1, <1>2, <2>1, <2>2 DEF HeapType
<1> QED BY <1>1, <1>3, <1>4 DEF Keeps, KeyOf, Tall, Fwd, Bwd, EntryOf

-----------------------------------------------------------------------------
(* What the owners keep alive.                                             *)

\* The nodes alive own only nodes alive, and nothing more is alive than a set that
\* holds the roots and what its nodes own.
LEMMA AliveIs ==
  ASSUME NEW h, Ascends(h), NEW roots, roots \subseteq DOMAIN h,
         HeapType(h)
  PROVE  /\ roots \subseteq Alive(h, roots) /\ Alive(h, roots) \subseteq DOMAIN h
         /\ \A m \in Alive(h, roots) : \A i : Tall(h, m, i) =>
              Fwd(h, m, i) \in Alive(h, roots) \cup {Nil}
         /\ \A S \in SUBSET DOMAIN h :
              /\ roots \subseteq S
              /\ \A m \in S : \A i : Tall(h, m, i) => Fwd(h, m, i) \in S \cup {Nil}
              => Alive(h, roots) \subseteq S
<1> DEFINE alive == Alive(h, roots)
           Closed(S) == roots \subseteq S /\ Successors(h, S) \subseteq S
<1>1. \A n : n \in alive <=> n \in DOMAIN h /\ \A S \in SUBSET DOMAIN h : Closed(S) => n \in S
  BY DEF Alive
<1>2. ASSUME NEW S, NEW m \in S, NEW i, Tall(h, m, i), Fwd(h, m, i) # Nil
      PROVE  Fwd(h, m, i) \in Successors(h, S)
  BY <1>2 DEF Successors, Tall, Fwd
<1>3. ASSUME NEW S, \A m \in S : \A i : Tall(h, m, i) => Fwd(h, m, i) \in S \cup {Nil}
      PROVE  Successors(h, S) \subseteq S
  BY <1>3 DEF Successors, Tall, Fwd
<1>4. roots \subseteq alive /\ alive \subseteq DOMAIN h
  BY <1>1
<1>5. ASSUME NEW m \in alive, NEW i, Tall(h, m, i), Fwd(h, m, i) # Nil
      PROVE  Fwd(h, m, i) \in alive
  <2>1. m \in DOMAIN h /\ i \in Level
    BY <1>4, <1>5, NodeIs
  <2>2. Fwd(h, m, i) \in DOMAIN h
    BY <1>5, <2>1 DEF Ascends
  <2>3. ASSUME NEW S \in SUBSET DOMAIN h, Closed(S) PROVE Fwd(h, m, i) \in S
    <3>1. m \in S
      BY <1>1, <2>3
    <3>2. Fwd(h, m, i) \in Successors(h, S)
      BY <1>2, <1>5, <3>1
    <3> QED BY <2>3, <3>2
  <2> HIDE DEF alive, Closed
  <2> QED BY <1>1, <2>2, <2>3
<1>6. ASSUME NEW S \in SUBSET DOMAIN h, roots \subseteq S,
             \A m \in S : \A i : Tall(h, m, i) => Fwd(h, m, i) \in S \cup {Nil}
      PROVE  alive \subseteq S
  <2>1. Closed(S)
    BY <1>3, <1>6
  <2> HIDE DEF alive, Closed
  <2> QED BY <1>1, <2>1
<1> HIDE DEF alive
<1> QED BY <1>4, <1>5, <1>6 DEF alive

\* The linked nodes stay alive, and when nobody holds an iterator nothing else does.
LEMMA LinkedAlive ==
  ASSUME NEW h, NEW cl, NEW L, Shape(h, cl, L), NEW roots, Sentinel \in roots,
         roots \subseteq DOMAIN h
  PROVE  /\ L \subseteq Alive(h, roots)
         /\ roots = {Sentinel} => Alive(h, roots) = L \cup {Sentinel}
<1> DEFINE A == Alive(h, roots)
           H == {KeyOf(h, x) : x \in L \ A}
<1>1. /\ HeapType(h) /\ Ascends(h) /\ L \subseteq DOMAIN h \ {Sentinel} /\ 0 \in Level
      /\ Sentinel \in DOMAIN h
      /\ \A x \in L : KeyOf(h, x) \in Nat /\ Tall(h, x, 0) /\ x # Nil
  BY NodeIs DEF Shape, HeapType
<1>2. /\ roots \subseteq A /\ A \subseteq DOMAIN h
      /\ \A m \in A : \A i : Tall(h, m, i) => Fwd(h, m, i) \in A \cup {Nil}
  BY <1>1, AliveIs
<1> HIDE DEF A
<1>3. L \subseteq A
  <2>1. SUFFICES ASSUME H # {} PROVE FALSE
    OBVIOUS
  <2>2. H \in SUBSET Nat
    BY <1>1
  <2>3. PICK k \in H : \A j \in H : k <= j
    <3> HIDE DEF H
    <3> QED BY <2>1, <2>2, Least
  <2>4. PICK x \in L \ A : k = KeyOf(h, x)
    OBVIOUS
  <2> DEFINE p == Bwd(h, x, 0)
  <2>5. p \in L \cup {Sentinel} /\ Tall(h, p, 0) /\ Fwd(h, p, 0) = x
    BY <1>1 DEF Shape
  <2>6. p \in A
    <3>1. CASE p = Sentinel
      BY <1>2, <3>1
    <3>2. CASE p # Sentinel
      <4>1. p \in L /\ p \in DOMAIN h /\ x # Nil
        BY <1>1, <2>5, <3>2
      <4>2. KeyOf(h, p) < KeyOf(h, x)
        BY <1>1, <2>5, <3>2, <4>1 DEF Ascends
      <4>3. KeyOf(h, p) \notin H
        <5>1. ~(k <= KeyOf(h, p))
          BY <1>1, <2>4, <4>1, <4>2
        <5> HIDE DEF H
        <5> QED BY <2>3, <5>1
      <4> HIDE DEF p
      <4> QED BY <4>1, <4>3
    <3> QED BY <3>1, <3>2
  <2> HIDE DEF p
  <2>7. x \in A
    BY <1>1, <1>2, <2>5, <2>6
  <2> QED BY <2>7
<1>4. ASSUME roots = {Sentinel} PROVE A = L \cup {Sentinel}
  <2> DEFINE S == L \cup {Sentinel}
  <2>1. S \in SUBSET DOMAIN h /\ roots \subseteq S
    BY <1>1, <1>4
  <2>2. ASSUME NEW m \in S, NEW i, Tall(h, m, i) PROVE Fwd(h, m, i) \in S \cup {Nil}
    <3>1. i \in Level
      BY <1>1, <2>1, <2>2, NodeIs
    <3>2. Leads(h, L, m, i)
      BY <2>2, <3>1 DEF Shape
    <3> QED BY <3>2 DEF Leads, Above
  <2>3. A \subseteq S
    <3> HIDE DEF S
    <3> QED BY <1>1, <2>1, <2>2, AliveIs DEF A
  <2> QED BY <1>2, <1>3, <2>3
<1> QED BY <1>3, <1>4 DEF A

-----------------------------------------------------------------------------
(* The heap after each operation.                                          *)

\* A heap with the same lanes, and maybe without some of the removed nodes.
LEMMA KeepShape ==
  ASSUME NEW h, NEW cl, NEW L, Shape(h, cl, L), NEW g, HeapType(g),
         DOMAIN g \subseteq DOMAIN h, L \subseteq DOMAIN g, Keeps(h, g, DOMAIN g),
         \A m \in DOMAIN g, i \in Level : Tall(h, m, i) =>
           /\ Fwd(g, m, i) = Fwd(h, m, i) /\ Fwd(h, m, i) \in DOMAIN g \cup {Nil}
           /\ m \in L => Bwd(g, m, i) = Bwd(h, m, i)
  PROVE  Shape(g, cl, L)
<1>1. /\ Sentinel \in DOMAIN g /\ L \subseteq DOMAIN h \ {Sentinel}
      /\ \A m \in DOMAIN g : KeyOf(g, m) = KeyOf(h, m) /\ \A i : Tall(g, m, i) <=> Tall(h, m, i)
  BY DEF Shape, HeapType, Keeps
<1>2. Ascends(g)
  <2> SUFFICES ASSUME NEW m \in DOMAIN g, NEW i \in Level, Tall(g, m, i), Fwd(g, m, i) # Nil
               PROVE  /\ Fwd(g, m, i) \in DOMAIN g \ {Sentinel}
                      /\ Tall(g, Fwd(g, m, i), i)
                      /\ m = Sentinel \/ KeyOf(g, m) < KeyOf(g, Fwd(g, m, i))
    BY DEF Ascends
  <2>1. Tall(h, m, i) /\ Fwd(g, m, i) = Fwd(h, m, i) /\ Fwd(h, m, i) \in DOMAIN g
    BY <1>1
  <2>2. /\ Fwd(h, m, i) # Sentinel /\ Tall(h, Fwd(h, m, i), i)
        /\ m = Sentinel \/ KeyOf(h, m) < KeyOf(h, Fwd(h, m, i))
    BY <2>1 DEF Shape, Ascends
  <2> QED BY <1>1, <2>1, <2>2
<1>3. ASSUME NEW m \in L \cup {Sentinel}, NEW i \in Level, Tall(g, m, i) PROVE Leads(g, L, m, i)
  <2>1. Tall(h, m, i) /\ Fwd(g, m, i) = Fwd(h, m, i) /\ Leads(h, L, m, i)
    BY <1>1, <1>3 DEF Shape
  <2>2. Above(g, L, m, i) = Above(h, L, m, i)
    BY <1>1 DEF Above
  <2>3. \A x \in Above(h, L, m, i) : KeyOf(g, x) = KeyOf(h, x)
    BY <1>1 DEF Above
  <2> QED BY <2>1, <2>2, <2>3 DEF Leads
<1>4. ASSUME NEW x \in L, NEW i \in Level, Tall(g, x, i)
      PROVE  /\ i < cl /\ Bwd(g, x, i) \in L \cup {Sentinel} /\ Tall(g, Bwd(g, x, i), i)
             /\ Fwd(g, Bwd(g, x, i), i) = x
  <2>1. Tall(h, x, i) /\ Bwd(g, x, i) = Bwd(h, x, i)
    BY <1>1, <1>4
  <2>2. /\ i < cl /\ Bwd(h, x, i) \in L \cup {Sentinel} /\ Tall(h, Bwd(h, x, i), i)
        /\ Fwd(h, Bwd(h, x, i), i) = x
    BY <2>1 DEF Shape
  <2> QED BY <1>1, <2>1, <2>2
<1>5. /\ L \subseteq DOMAIN g \ {Sentinel} /\ cl \in 1 .. MaxLevel
      /\ \A x, y \in L : KeyOf(g, x) = KeyOf(g, y) => x = y
  BY <1>1 DEF Shape
<1> QED BY <1>2, <1>3, <1>4, <1>5 DEF Shape

\* What a heap keeps of another when some of its nodes are given back.
Retains(h, g) ==
  /\ DOMAIN g \subseteq DOMAIN h /\ Keeps(h, g, DOMAIN g)
  /\ \A m \in DOMAIN g : /\ EntryOf(g, m) = EntryOf(h, m)
                         /\ \A i : Fwd(g, m, i) = Fwd(h, m, i)

\* Release edits the backward pointers only.
LEMMA EditBack ==
  ASSUME NEW x \in Node, NEW b
  PROVE  [x EXCEPT !.backward = b] = Edit(x, x.forward, b)
BY DEF Edit, Node

\* Giving back what nobody owns keeps the shape, and everything that an iterator
\* can still come to.
LEMMA ReleaseIs ==
  ASSUME NEW h, NEW cl, NEW L, Shape(h, cl, L), NEW it \in (DOMAIN h \ {Sentinel}) \cup {Nil}
  PROVE  /\ Shape(Release(h, it), cl, L) /\ Retains(h, Release(h, it))
         /\ it # Nil => it \in DOMAIN Release(h, it)
         /\ it = Nil => DOMAIN Release(h, it) = L \cup {Sentinel}
<1> DEFINE roots == {Sentinel} \cup ({it} \ {Nil})
           A == Alive(h, roots)
           weak(n) == IF n \in A THEN n ELSE Nil
           f == [m \in A |-> h[m].forward]
           b == [m \in A |-> [i \in DOMAIN h[m].backward |-> weak(h[m].backward[i])]]
           g == Release(h, it)
<1>1. /\ HeapType(h) /\ Ascends(h) /\ roots \subseteq DOMAIN h /\ Sentinel \in roots
      /\ Nil \notin DOMAIN h
      /\ it # Nil => it \in roots
      /\ it = Nil => roots = {Sentinel}
  BY SkipListAssumption DEF Shape, HeapType
<1>2. /\ roots \subseteq A /\ A \subseteq DOMAIN h
      /\ \A m \in A : \A i : Tall(h, m, i) => Fwd(h, m, i) \in A \cup {Nil}
  BY <1>1, AliveIs
<1>3. /\ L \subseteq A
      /\ it = Nil => A = L \cup {Sentinel}
  BY <1>1, LinkedAlive
<1>4. g = [m \in A |-> [h[m] EXCEPT !.backward =
                          [i \in DOMAIN h[m].backward |-> weak(h[m].backward[i])]]]
  BY DEF Release
<1> HIDE DEF roots, A, g
<1>5. ASSUME NEW m \in A
      PROVE  /\ h[m] \in Node /\ DOMAIN h[m].forward = DOMAIN h[m].backward
             /\ f[m] = h[m].forward
             /\ f[m] \in [DOMAIN h[m].forward -> NodeId \cup {Nil}]
             /\ b[m] = [i \in DOMAIN h[m].backward |-> weak(h[m].backward[i])]
             /\ b[m] \in [DOMAIN h[m].forward -> A \cup {Nil}]
  <2>1. h[m] \in Node /\ DOMAIN h[m].forward = DOMAIN h[m].backward
    BY <1>1, <1>2 DEF HeapType
  <2>2. h[m].forward \in [DOMAIN h[m].forward -> NodeId \cup {Nil}]
    <3>1. PICK l \in 1 .. MaxLevel : h[m].forward \in [0 .. l - 1 -> NodeId \cup {Nil}]
      BY <2>1 DEF Node
    <3> QED BY <3>1
  <2> QED BY <2>1, <2>2
<1>6. g = [m \in A |-> Edit(h[m], f[m], b[m])]
  <2>1. ASSUME NEW m \in A
        PROVE  [h[m] EXCEPT !.backward = [i \in DOMAIN h[m].backward |-> weak(h[m].backward[i])]]
                 = Edit(h[m], f[m], b[m])
    BY <1>5, EditBack
  <2> HIDE DEF f, b
  <2> QED BY <1>4, <2>1
<1>7. Edited(h, g, A, f, b)
  <2> HIDE DEF f, b
  <2> QED BY <1>1, <1>2, <1>5, <1>6 DEF Edited
<1>8. /\ HeapType(g) /\ DOMAIN g = A /\ Keeps(h, g, A)
      /\ \A m \in A : EntryOf(g, m) = EntryOf(h, m)
      /\ \A m \in A : \A i : Fwd(g, m, i) = f[m][i] /\ Bwd(g, m, i) = b[m][i]
  <2> HIDE DEF f, b
  <2> QED BY <1>1, <1>7, EditedIs
<1>9. \A m \in A : \A i : Fwd(g, m, i) = Fwd(h, m, i)
  <2>1. ASSUME NEW m \in A, NEW i PROVE Fwd(g, m, i) = Fwd(h, m, i)
    <3>1. Fwd(g, m, i) = f[m][i]
      BY <1>8, Zenon
    <3>2. f[m] = h[m].forward
      OBVIOUS
    <3> HIDE DEF f
    <3> QED BY <3>1, <3>2 DEF Fwd
  <2> QED BY <2>1, Zenon
<1>10. ASSUME NEW x \in L, NEW i \in Level, Tall(h, x, i) PROVE Bwd(g, x, i) = Bwd(h, x, i)
  <2>1. Bwd(h, x, i) \in A
    BY <1>1, <1>2, <1>3, <1>10 DEF Shape
  <2>2. Bwd(g, x, i) = b[x][i] /\ x \in A
    BY <1>3, <1>8
  <2>3. i \in DOMAIN h[x].backward
    BY <1>5, <1>10, <2>2 DEF Tall
  <2>4. b[x][i] = weak(h[x].backward[i])
    BY <2>2, <2>3
  <2> QED BY <2>1, <2>2, <2>4 DEF Bwd
<1> HIDE DEF f, b
<1>11. Shape(g, cl, L)
  <2>1. \A m \in DOMAIN g, i \in Level : Tall(h, m, i) =>
           /\ Fwd(g, m, i) = Fwd(h, m, i) /\ Fwd(h, m, i) \in DOMAIN g \cup {Nil}
           /\ m \in L => Bwd(g, m, i) = Bwd(h, m, i)
    BY <1>2, <1>8, <1>9, <1>10
  <2> QED BY <1>2, <1>3, <1>8, <2>1, KeepShape
<1>12. Retains(h, g)
  BY <1>2, <1>8, <1>9 DEF Retains
<1> QED BY <1>1, <1>2, <1>3, <1>8, <1>11, <1>12 DEF g

\* The heap with another value in the node n.
Rewritten(h, n, v) == [h EXCEPT ![n].value = v]

\* put on a key that is there changes the value of its node and nothing else.
LEMMA RewriteIs ==
  ASSUME NEW h, NEW cl, NEW L, Shape(h, cl, L), NEW n \in L, NEW v \in Value,
         NEW g, g = Rewritten(h, n, v)
  PROVE  /\ Shape(g, cl, L) /\ DOMAIN g = DOMAIN h /\ Keeps(h, g, DOMAIN h)
         /\ \A m \in DOMAIN h : \A i : Fwd(g, m, i) = Fwd(h, m, i)
         /\ \A m \in DOMAIN h \ {n} : EntryOf(g, m) = EntryOf(h, m)
         /\ EntryOf(g, n) = [value |-> v, tranc_id |-> h[n].tranc_id]
<1>1. /\ HeapType(h) /\ Ascends(h) /\ L \subseteq DOMAIN h \ {Sentinel} /\ n # Sentinel
      /\ DOMAIN g = DOMAIN h /\ n \in DOMAIN h /\ h[n] \in Node
  BY DEF Shape, HeapType, Rewritten
<1>2. g[n] = [h[n] EXCEPT !.value = v] /\ \A m \in DOMAIN h \ {n} : g[m] = h[m]
  BY <1>1 DEF Rewritten
<1>3. /\ g[n] \in Node /\ g[n].key = h[n].key /\ g[n].value = v
      /\ g[n].tranc_id = h[n].tranc_id
      /\ g[n].forward = h[n].forward /\ g[n].backward = h[n].backward
  BY <1>1, <1>2 DEF Node
<1>4. ASSUME NEW m \in DOMAIN h
      PROVE  /\ g[m] \in Node /\ g[m].key = h[m].key
             /\ g[m].forward = h[m].forward /\ g[m].backward = h[m].backward
  <2>1. h[m] \in Node
    BY <1>1 DEF HeapType
  <2> QED BY <1>2, <1>3, <2>1
<1>5. /\ Keeps(h, g, DOMAIN h)
      /\ \A m \in DOMAIN h : \A i : Fwd(g, m, i) = Fwd(h, m, i) /\ Bwd(g, m, i) = Bwd(h, m, i)
  BY <1>4 DEF Keeps, KeyOf, Tall, Fwd, Bwd
<1>6. HeapType(g)
  <2>1. Sentinel \in DOMAIN h /\ g[Sentinel] = h[Sentinel]
    BY <1>1, <1>2 DEF HeapType
  <2>2. ASSUME NEW m \in DOMAIN h
        PROVE  /\ g[m] \in Node /\ DOMAIN g[m].forward = DOMAIN g[m].backward
               /\ \A i : Tall(g, m, i) => Bwd(g, m, i) \in DOMAIN h \cup {Nil}
               /\ m # Sentinel => g[m].key \in Key
    <3>1. /\ DOMAIN h[m].forward = DOMAIN h[m].backward
          /\ \A i : Tall(h, m, i) => Bwd(h, m, i) \in DOMAIN h \cup {Nil}
          /\ m # Sentinel => h[m].key \in Key
      BY <1>1 DEF HeapType
    <3> QED BY <1>4, <1>5, <3>1 DEF Keeps
  <2> QED BY <1>1, <2>1, <2>2 DEF HeapType
<1>7. Shape(g, cl, L)
  <2>1. \A m \in DOMAIN g, i \in Level : Tall(h, m, i) =>
          /\ Fwd(g, m, i) = Fwd(h, m, i) /\ Fwd(h, m, i) \in DOMAIN g \cup {Nil}
          /\ m \in L => Bwd(g, m, i) = Bwd(h, m, i)
    BY <1>1, <1>5 DEF Ascends
  <2>2. Keeps(h, g, DOMAIN g) /\ L \subseteq DOMAIN g
    BY <1>1, <1>5
  <2>3. DOMAIN g \subseteq DOMAIN h
    BY <1>1
  <2> QED BY <1>6, <2>1, <2>2, <2>3, KeepShape
<1>8. \A m \in DOMAIN h \ {n} : EntryOf(g, m) = EntryOf(h, m)
  BY <1>2 DEF EntryOf
<1>9. EntryOf(g, n) = [value |-> v, tranc_id |-> h[n].tranc_id]
  BY <1>3 DEF EntryOf
<1> QED BY <1>1, <1>5, <1>7, <1>8, <1>9

\* A node made by put.
LEMMA NewNodeIs ==
  ASSUME NEW k \in Key, NEW v \in Value, NEW t \in TrancId, NEW l \in 1 .. MaxLevel
  PROVE  /\ NewNode(k, v, t, l) \in Node
         /\ NewNode(k, v, t, l).key = k /\ NewNode(k, v, t, l).value = v
         /\ NewNode(k, v, t, l).tranc_id = t
         /\ DOMAIN NewNode(k, v, t, l).forward = 0 .. l - 1
         /\ DOMAIN NewNode(k, v, t, l).backward = 0 .. l - 1
         /\ \A i \in 0 .. l - 1 : NewNode(k, v, t, l).backward[i] = Nil
<1>1. /\ [i \in 0 .. l - 1 |-> Nil]
           \in UNION {[0 .. c - 1 -> NodeId \cup {Nil}] : c \in 1 .. MaxLevel}
      /\ [i \in 0 .. l - 1 |-> Nil]
           \in UNION {[0 .. c - 1 -> NodeId \cup {Sentinel, Nil}] : c \in 1 .. MaxLevel}
  OBVIOUS
<1> QED BY <1>1 DEF NewNode, Node

\* A heap with one more node that nothing leads to yet.
LEMMA WithNode ==
  ASSUME NEW h, HeapType(h), NEW n \in NodeId \ DOMAIN h, NEW g,
         NEW k \in Key, NEW v \in Value, NEW t \in TrancId, NEW l \in 1 .. MaxLevel,
         g = [m \in DOMAIN h \cup {n} |-> IF m = n THEN NewNode(k, v, t, l) ELSE h[m]]
  PROVE  /\ HeapType(g) /\ DOMAIN g = DOMAIN h \cup {n}
         /\ g[n] = NewNode(k, v, t, l) /\ \A m \in DOMAIN h : g[m] = h[m]
<1>1. /\ DOMAIN g = DOMAIN h \cup {n} /\ g[n] = NewNode(k, v, t, l)
      /\ \A m \in DOMAIN h : g[m] = h[m]
  OBVIOUS
<1>2. /\ Sentinel \in DOMAIN g /\ DOMAIN g \subseteq NodeId \cup {Sentinel}
      /\ IsFiniteSet(DOMAIN g) /\ g[Sentinel] = h[Sentinel]
  BY <1>1, FS_AddElement DEF HeapType
<1>3. /\ g[n] \in Node /\ DOMAIN g[n].forward = DOMAIN g[n].backward
      /\ \A i : Tall(g, n, i) => Bwd(g, n, i) \in DOMAIN g \cup {Nil}
      /\ g[n].key \in Key
  BY <1>1, NewNodeIs DEF Tall, Bwd
<1>4. ASSUME NEW m \in DOMAIN h
      PROVE  /\ g[m] \in Node /\ DOMAIN g[m].forward = DOMAIN g[m].backward
             /\ \A i : Tall(g, m, i) => Bwd(g, m, i) \in DOMAIN g \cup {Nil}
             /\ m # Sentinel => g[m].key \in Key
  BY <1>1 DEF HeapType, Tall, Bwd
<1>5. /\ DOMAIN g[Sentinel].forward = Level
      /\ g[Sentinel].key = 0 /\ g[Sentinel].value = 0 /\ g[Sentinel].tranc_id = 0
  BY <1>2 DEF HeapType
<1> QED BY <1>1, <1>2, <1>3, <1>4, <1>5 DEF HeapType

\* put on a new key links a node for it.
LEMMA LinkedIs ==
  ASSUME HeapType(heap), Ascends(heap), NEW n \in NodeId \ DOMAIN heap, NEW g, NEW U,
         NEW k \in Key, NEW v \in Value, NEW t \in TrancId, NEW l \in 1 .. MaxLevel,
         g = Linked(n, NewNode(k, v, t, l), U),
         \A i \in 0 .. l - 1 : U[i] \in DOMAIN heap /\ Tall(heap, U[i], i)
  PROVE  /\ HeapType(g) /\ Links(heap, g, n, k, 0 .. l - 1, U)
         /\ \A m \in DOMAIN heap : EntryOf(g, m) = EntryOf(heap, m)
         /\ EntryOf(g, n) = [value |-> v, tranc_id |-> t]
<1> DEFINE D == DOMAIN heap \cup {n}
           h == [m \in D |-> IF m = n THEN NewNode(k, v, t, l) ELSE heap[m]]
           levels == 0 .. l - 1
           next(i) == heap[U[i]].forward[i]
           f == [m \in D |-> IF m = n THEN [i \in levels |-> next(i)]
                             ELSE [i \in DOMAIN heap[m].forward |->
                                     IF i \in levels /\ U[i] = m THEN n
                                     ELSE heap[m].forward[i]]]
           b == [m \in D |-> IF m = n THEN [i \in levels |-> U[i]]
                             ELSE [i \in DOMAIN heap[m].backward |->
                                     IF i \in levels /\ next(i) = m THEN n
                                     ELSE heap[m].backward[i]]]
<1>1. /\ HeapType(h) /\ DOMAIN h = D /\ h[n] = NewNode(k, v, t, l)
      /\ \A m \in DOMAIN heap : h[m] = heap[m]
  BY WithNode
<1>2. /\ NewNode(k, v, t, l).key = k /\ NewNode(k, v, t, l).value = v
      /\ NewNode(k, v, t, l).tranc_id = t /\ DOMAIN NewNode(k, v, t, l).forward = levels
  BY NewNodeIs
<1>3. \A i \in levels : i \in Level /\ next(i) \in DOMAIN heap \cup {Nil} /\ next(i) \in NodeId \cup {Nil}
  <2> SUFFICES ASSUME NEW i \in levels
               PROVE  i \in Level /\ next(i) \in DOMAIN heap \cup {Nil} /\ next(i) \in NodeId \cup {Nil}
    OBVIOUS
  <2>1. i \in Level
    BY SkipListAssumption DEF Level
  <2>2. Fwd(heap, U[i], i) \in (DOMAIN heap \ {Sentinel}) \cup {Nil}
    BY <2>1 DEF Ascends
  <2> QED BY <2>1, <2>2 DEF Fwd, HeapType
<1>4. ASSUME NEW m \in DOMAIN heap
      PROVE  /\ heap[m] \in Node /\ DOMAIN heap[m].forward = DOMAIN heap[m].backward
             /\ m # n
             /\ \A i \in DOMAIN heap[m].forward :
                  heap[m].forward[i] \in NodeId \cup {Nil} /\ heap[m].backward[i] \in D \cup {Nil}
  <2>1. heap[m] \in Node
    BY DEF HeapType
  <2>2. PICK c \in 1 .. MaxLevel : heap[m].forward \in [0 .. c - 1 -> NodeId \cup {Nil}]
    BY <2>1 DEF Node
  <2>3. \A i \in DOMAIN heap[m].forward : heap[m].forward[i] \in NodeId \cup {Nil}
    BY <2>2
  <2> QED BY <2>1, <2>3 DEF HeapType, Tall, Bwd
<1>5. ASSUME NEW m \in DOMAIN heap
      PROVE  /\ f[m] = [i \in DOMAIN heap[m].forward |->
                          IF i \in levels /\ U[i] = m THEN n ELSE heap[m].forward[i]]
             /\ b[m] = [i \in DOMAIN heap[m].backward |->
                          IF i \in levels /\ next(i) = m THEN n ELSE heap[m].backward[i]]
  BY <1>4
<1>6. f[n] = [i \in levels |-> next(i)] /\ b[n] = [i \in levels |-> U[i]]
  OBVIOUS
<1>7. g = [m \in D |-> Edit(h[m], f[m], b[m])]
  <2>1. g = [m \in D |->
               IF m = n THEN Edit(NewNode(k, v, t, l), [i \in levels |-> next(i)],
                                  [i \in levels |-> U[i]])
               ELSE Edit(heap[m], [i \in DOMAIN heap[m].forward |->
                                     IF i \in levels /\ U[i] = m THEN n
                                     ELSE heap[m].forward[i]],
                                  [i \in DOMAIN heap[m].backward |->
                                     IF i \in levels /\ next(i) = m THEN n
                                     ELSE heap[m].backward[i]])]
    BY <1>2 DEF Linked, Edit
  <2> DEFINE new(m) == IF m = n THEN Edit(NewNode(k, v, t, l), [i \in levels |-> next(i)],
                                         [i \in levels |-> U[i]])
                      ELSE Edit(heap[m], [i \in DOMAIN heap[m].forward |->
                                            IF i \in levels /\ U[i] = m THEN n
                                            ELSE heap[m].forward[i]],
                                         [i \in DOMAIN heap[m].backward |->
                                            IF i \in levels /\ next(i) = m THEN n
                                            ELSE heap[m].backward[i]])
  <2>2. g = [m \in D |-> new(m)]
    BY <2>1
  <2>3. ASSUME NEW m \in D PROVE new(m) = Edit(h[m], f[m], b[m])
    <3>1. CASE m = n
      <4>1. new(n) = Edit(NewNode(k, v, t, l), [i \in levels |-> next(i)], [i \in levels |-> U[i]])
        OBVIOUS
      <4> HIDE DEF new, h, f, b
      <4> QED BY <1>1, <1>6, <3>1, <4>1
    <3>2. CASE m # n
      <4>1. m \in DOMAIN heap
        BY <3>2
      <4>2. new(m) = Edit(heap[m], [i \in DOMAIN heap[m].forward |->
                                     IF i \in levels /\ U[i] = m THEN n
                                     ELSE heap[m].forward[i]],
                                  [i \in DOMAIN heap[m].backward |->
                                     IF i \in levels /\ next(i) = m THEN n
                                     ELSE heap[m].backward[i]])
        BY <3>2
      <4> HIDE DEF new, h, f, b
      <4> QED BY <1>1, <1>5, <4>1, <4>2
    <3> QED BY <3>1, <3>2
  <2> HIDE DEF h, f, b, new, D
  <2> QED BY <2>2, <2>3
<1> HIDE DEF h, f, b
<1>8. ASSUME NEW m \in D
      PROVE  /\ f[m] \in [DOMAIN h[m].forward -> NodeId \cup {Nil}]
             /\ b[m] \in [DOMAIN h[m].forward -> D \cup {Nil}]
  <2>1. CASE m = n
    BY <1>1, <1>2, <1>3, <1>6, <2>1
  <2>2. CASE m # n
    <3>1. /\ m \in DOMAIN heap /\ h[m] = heap[m] /\ n \in D /\ n \in NodeId
          /\ DOMAIN heap[m].forward = DOMAIN heap[m].backward
      BY <1>1, <1>4, <2>2
    <3>2. f[m] \in [DOMAIN heap[m].forward -> NodeId \cup {Nil}]
      <4>1. f[m] = [i \in DOMAIN heap[m].forward |->
                     IF i \in levels /\ U[i] = m THEN n ELSE heap[m].forward[i]]
        BY <1>5, <3>1
      <4> QED BY <1>4, <3>1, <4>1
    <3>3. b[m] \in [DOMAIN heap[m].backward -> D \cup {Nil}]
      <4>1. b[m] = [i \in DOMAIN heap[m].backward |->
                     IF i \in levels /\ next(i) = m THEN n ELSE heap[m].backward[i]]
        BY <1>5, <3>1
      <4> QED BY <1>4, <3>1, <4>1
    <3> QED BY <3>1, <3>2, <3>3
  <2> QED BY <2>1, <2>2
<1>9. Edited(h, g, D, f, b)
  BY <1>1, <1>7, <1>8 DEF Edited, HeapType
<1>10. /\ HeapType(g) /\ DOMAIN g = D /\ Keeps(h, g, D)
       /\ \A m \in D : EntryOf(g, m) = EntryOf(h, m)
       /\ \A m \in D : \A i : Fwd(g, m, i) = f[m][i] /\ Bwd(g, m, i) = b[m][i]
  <2> HIDE DEF D
  <2> QED BY <1>1, <1>9, EditedIs
<1>11. /\ \A m \in DOMAIN heap : EntryOf(g, m) = EntryOf(heap, m)
       /\ EntryOf(g, n) = [value |-> v, tranc_id |-> t]
  BY <1>1, <1>2, <1>10 DEF EntryOf
<1>12. Keeps(heap, g, DOMAIN heap) /\ KeyOf(g, n) = k /\ \A i : Tall(g, n, i) <=> i \in levels
  BY <1>1, <1>2, <1>10 DEF Keeps, KeyOf, Tall
<1>13. ASSUME NEW m \in DOMAIN heap, NEW i \in Level, Tall(heap, m, i)
       PROVE  /\ Fwd(g, m, i) = IF i \in levels /\ U[i] = m THEN n ELSE Fwd(heap, m, i)
              /\ Bwd(g, m, i) = IF i \in levels /\ Fwd(heap, U[i], i) = m THEN n
                                ELSE Bwd(heap, m, i)
  <2>1. i \in DOMAIN heap[m].forward /\ i \in DOMAIN heap[m].backward
    BY <1>4, <1>13 DEF Tall
  <2>2. f[m][i] = IF i \in levels /\ U[i] = m THEN n ELSE heap[m].forward[i]
    <3>1. f[m] = [j \in DOMAIN heap[m].forward |->
                   IF j \in levels /\ U[j] = m THEN n ELSE heap[m].forward[j]]
      BY <1>5
    <3> QED BY <2>1, <3>1
  <2>3. b[m][i] = IF i \in levels /\ next(i) = m THEN n ELSE heap[m].backward[i]
    <3>1. b[m] = [j \in DOMAIN heap[m].backward |->
                   IF j \in levels /\ next(j) = m THEN n ELSE heap[m].backward[j]]
      BY <1>5
    <3> QED BY <2>1, <3>1
  <2> QED BY <1>10, <2>2, <2>3 DEF Fwd, Bwd
<1>14. \A i \in levels : Fwd(g, n, i) = Fwd(heap, U[i], i) /\ Bwd(g, n, i) = U[i]
  BY <1>6, <1>10 DEF Fwd, Bwd
<1> QED BY <1>10, <1>11, <1>12, <1>13, <1>14 DEF Links

\* remove lets the neighbours of the node point to each other on all its lanes.
LEMMA UnlinkedIs ==
  ASSUME NEW L, Shape(heap, current_level, L), NEW n \in L, NEW U,
         \A i \in Level : IsPred(heap, L, i, KeyOf(heap, n), U[i]),
         NEW g, g = Unlinked(n, U)
  PROVE  /\ HeapType(g) /\ Unlinks(heap, g, n, U)
         /\ \A m \in DOMAIN heap : EntryOf(g, m) = EntryOf(heap, m)
<1> DEFINE D == DOMAIN heap
           levels == {i \in 0 .. current_level - 1 :
                        \A j \in 0 .. i : heap[U[j]].forward[j] = n}
           f == [m \in D |-> [i \in DOMAIN heap[m].forward |->
                  IF i \in levels /\ U[i] = m THEN heap[n].forward[i] ELSE heap[m].forward[i]]]
           b == [m \in D |-> [i \in DOMAIN heap[m].backward |->
                  IF i \in levels /\ heap[n].forward[i] = m THEN U[i] ELSE heap[m].backward[i]]]
<1>1. /\ HeapType(heap) /\ Ascends(heap) /\ n \in D /\ L \subseteq D /\ Sentinel \in D
      /\ current_level \in 1 .. MaxLevel /\ MaxLevel \in Nat
  BY SkipListAssumption DEF Shape, HeapType
<1>2. \A i \in Level : Tall(heap, n, i) <=> Fwd(heap, U[i], i) = n
  BY BeforeNode
<1>3. ASSUME NEW i PROVE i \in levels <=> Tall(heap, n, i)
  <2>1. ASSUME Tall(heap, n, i) PROVE i \in levels
    <3>1. i \in Level /\ \A j \in 0 .. i : Tall(heap, n, j)
      BY <1>1, <2>1, NodeIs
    <3>2. i < current_level
      BY <2>1, <3>1 DEF Shape
    <3>3. \A j \in 0 .. i : j \in Level
      BY <3>1, <1>1 DEF Level
    <3>4. \A j \in 0 .. i : heap[U[j]].forward[j] = n
      BY <1>2, <3>1, <3>3 DEF Fwd
    <3> QED BY <1>1, <3>1, <3>2, <3>4 DEF Level
  <2>2. ASSUME i \in levels PROVE Tall(heap, n, i)
    <3>1. i \in Level /\ i \in 0 .. i /\ heap[U[i]].forward[i] = n
      BY <1>1, <2>2 DEF Level
    <3> QED BY <1>2, <3>1 DEF Fwd
  <2> QED BY <2>1, <2>2
<1>4. g = [m \in D |-> [heap[m] EXCEPT
            !.forward  = [i \in DOMAIN heap[m].forward |->
              IF i \in levels /\ U[i] = m THEN heap[n].forward[i] ELSE heap[m].forward[i]],
            !.backward = [i \in DOMAIN heap[m].backward |->
              IF i \in levels /\ heap[n].forward[i] = m THEN U[i] ELSE heap[m].backward[i]]]]
  BY DEF Unlinked
<1> HIDE DEF levels
<1>5. ASSUME NEW m \in D
      PROVE  /\ DOMAIN heap[m].forward = DOMAIN heap[m].backward
             /\ \A i \in DOMAIN heap[m].forward :
                  heap[m].forward[i] \in NodeId \cup {Nil} /\ heap[m].backward[i] \in D \cup {Nil}
  <2>1. heap[m] \in Node
    BY <1>1 DEF HeapType
  <2>2. PICK c \in 1 .. MaxLevel : heap[m].forward \in [0 .. c - 1 -> NodeId \cup {Nil}]
    BY <2>1 DEF Node
  <2>3. \A i \in DOMAIN heap[m].forward : heap[m].forward[i] \in NodeId \cup {Nil}
    BY <2>2
  <2> QED BY <1>1, <2>3 DEF HeapType, Tall, Bwd
<1>6. \A i \in levels : heap[n].forward[i] \in NodeId \cup {Nil} /\ U[i] \in D
  <2> SUFFICES ASSUME NEW i \in levels
               PROVE  heap[n].forward[i] \in NodeId \cup {Nil} /\ U[i] \in D
    OBVIOUS
  <2>1. Tall(heap, n, i) /\ i \in Level
    BY <1>1, <1>3, NodeIs
  <2>2. IsPred(heap, L, i, KeyOf(heap, n), U[i])
    BY <2>1
  <2> QED BY <1>1, <1>5, <2>1, <2>2 DEF Tall, IsPred
<1>7. ASSUME NEW m \in D
      PROVE  /\ f[m] = [i \in DOMAIN heap[m].forward |->
                          IF i \in levels /\ U[i] = m THEN heap[n].forward[i]
                                                      ELSE heap[m].forward[i]]
             /\ b[m] = [i \in DOMAIN heap[m].backward |->
                          IF i \in levels /\ heap[n].forward[i] = m THEN U[i]
                                                                    ELSE heap[m].backward[i]]
  OBVIOUS
<1>8. ASSUME NEW m \in D
      PROVE  /\ f[m] \in [DOMAIN heap[m].forward -> NodeId \cup {Nil}]
             /\ b[m] \in [DOMAIN heap[m].forward -> D \cup {Nil}]
  <2>1. f[m] \in [DOMAIN heap[m].forward -> NodeId \cup {Nil}]
    BY <1>5, <1>6
  <2>2. b[m] \in [DOMAIN heap[m].backward -> D \cup {Nil}]
    BY <1>5, <1>6
  <2> HIDE DEF f, b
  <2> QED BY <1>5, <2>1, <2>2
<1>9. g = [m \in D |-> Edit(heap[m], f[m], b[m])]
  <2> DEFINE new(m) == [heap[m] EXCEPT
            !.forward  = [i \in DOMAIN heap[m].forward |->
              IF i \in levels /\ U[i] = m THEN heap[n].forward[i] ELSE heap[m].forward[i]],
            !.backward = [i \in DOMAIN heap[m].backward |->
              IF i \in levels /\ heap[n].forward[i] = m THEN U[i] ELSE heap[m].backward[i]]]
  <2>1. g = [m \in D |-> new(m)]
    BY <1>4
  <2>2. ASSUME NEW m \in D PROVE new(m) = Edit(heap[m], f[m], b[m])
    BY DEF Edit
  <2> HIDE DEF f, b, new, D
  <2> QED BY <2>1, <2>2
<1>10. Edited(heap, g, D, f, b)
  <2> HIDE DEF f, b
  <2> QED BY <1>1, <1>8, <1>9 DEF Edited
<1>11. /\ HeapType(g) /\ DOMAIN g = D /\ Keeps(heap, g, D)
       /\ \A m \in D : EntryOf(g, m) = EntryOf(heap, m)
       /\ \A m \in D : \A i : Fwd(g, m, i) = f[m][i] /\ Bwd(g, m, i) = b[m][i]
  <2> HIDE DEF D, f, b
  <2> QED BY <1>1, <1>10, EditedIs
<1>12. ASSUME NEW m \in D, NEW i \in Level, Tall(heap, m, i)
       PROVE  /\ Fwd(g, m, i) = IF Tall(heap, n, i) /\ U[i] = m THEN Fwd(heap, n, i)
                                ELSE Fwd(heap, m, i)
              /\ Bwd(g, m, i) = IF Tall(heap, n, i) /\ Fwd(heap, n, i) = m THEN U[i]
                                ELSE Bwd(heap, m, i)
  <2>1. i \in DOMAIN heap[m].forward /\ i \in DOMAIN heap[m].backward
    BY <1>5, <1>12 DEF Tall
  <2>2. f[m][i] = IF i \in levels /\ U[i] = m THEN heap[n].forward[i] ELSE heap[m].forward[i]
    BY <2>1
  <2>3. b[m][i] = IF i \in levels /\ heap[n].forward[i] = m THEN U[i] ELSE heap[m].backward[i]
    BY <2>1
  <2> HIDE DEF f, b
  <2> QED BY <1>3, <1>11, <2>2, <2>3 DEF Fwd, Bwd
<1> HIDE DEF f, b
<1> QED BY <1>11, <1>12 DEF Unlinks

\* The largest of a bounded set.
LEMMA MaxIs ==
  ASSUME NEW top \in Nat, NEW S, S # {}, \A y \in S : y \in 1 .. top
  PROVE  Max(S) \in S /\ \A y \in S : Max(S) >= y
<1> DEFINE T == {top - y : y \in S}
<1>1. T \in SUBSET Nat /\ T # {}
  <2>1. \A y \in S : top - y \in Nat
    OBVIOUS
  <2> QED BY <2>1
<1>2. PICK d \in T : \A e \in T : d <= e
  BY <1>1, Least
<1>3. PICK x \in S : d = top - x
  BY <1>2
<1>4. \A y \in S : x >= y
  <2> TAKE y \in S
  <2>1. top - x <= top - y
    BY <1>2, <1>3
  <2> QED BY <2>1
<1> QED BY <1>4 DEF Max

\* No level in use is given up.
LEMMA LoweredIs ==
  ASSUME current_level \in 1 .. MaxLevel, NEW g
  PROVE  /\ Lowered(g) \in 1 .. MaxLevel
         /\ \A i \in 0 .. current_level - 1 : Fwd(g, Sentinel, i) # Nil => i < Lowered(g)
<1> DEFINE S == {1} \cup {l \in 1 .. current_level : g[Sentinel].forward[l-1] # Nil}
<1>1. (\A y \in S : y \in 1 .. current_level) /\ S # {} /\ current_level \in Nat /\ MaxLevel \in Nat
  BY SkipListAssumption
<1>2. Lowered(g) = Max(S)
  BY DEF Lowered
<1>3. ASSUME NEW i \in 0 .. current_level - 1, Fwd(g, Sentinel, i) # Nil PROVE i + 1 \in S
  <2>1. i + 1 \in 1 .. current_level /\ (i + 1) - 1 = i
    BY <1>1
  <2> QED BY <1>3, <2>1 DEF Fwd
<1> HIDE DEF S
<1>4. Max(S) \in S /\ \A y \in S : Max(S) >= y
  BY <1>1, MaxIs
<1>5. ASSUME NEW i \in 0 .. current_level - 1, Fwd(g, Sentinel, i) # Nil PROVE i < Max(S)
  <2>1. Max(S) \in 1 .. current_level /\ Max(S) >= i + 1
    BY <1>1, <1>3, <1>4, <1>5
  <2> QED BY <1>1, <2>1
<1>6. Max(S) \in 1 .. MaxLevel
  BY <1>1, <1>4
<1> QED BY <1>2, <1>5, <1>6

\* The head node, and how clear makes one.
LEMMA HeadIs ==
  /\ HeadNode \in Node /\ HeadNode.key = 0 /\ HeadNode.value = 0 /\ HeadNode.tranc_id = 0
  /\ DOMAIN HeadNode.forward = Level /\ DOMAIN HeadNode.backward = Level
  /\ \A i \in Level : HeadNode.forward[i] = Nil /\ HeadNode.backward[i] = Nil
<1> DEFINE F == UNION {[0 .. c - 1 -> NodeId \cup {Nil}] : c \in 1 .. MaxLevel}
           B == UNION {[0 .. c - 1 -> NodeId \cup {Sentinel, Nil}] : c \in 1 .. MaxLevel}
           p == [i \in 0 .. MaxLevel - 1 |-> Nil]
<1>1. p \in F /\ p \in B /\ DOMAIN p = Level /\ \A i \in Level : p[i] = Nil
  <2>1. MaxLevel \in 1 .. MaxLevel
    BY SkipListAssumption
  <2>2. p \in [0 .. MaxLevel - 1 -> NodeId \cup {Nil}]
    OBVIOUS
  <2>3. p \in [0 .. MaxLevel - 1 -> NodeId \cup {Sentinel, Nil}]
    OBVIOUS
  <2>4. DOMAIN p = Level /\ \A i \in Level : p[i] = Nil
    BY DEF Level
  <2> HIDE DEF p
  <2> QED BY <2>1, <2>2, <2>3, <2>4
<1>2. HeadNode = [key |-> 0, value |-> 0, tranc_id |-> 0, forward |-> p, backward |-> p]
  BY DEF HeadNode, NewNode
<1>3. Node = [key : Key \cup {0}, value : Value, tranc_id : TrancId, forward : F, backward : B]
  BY DEF Node
<1> HIDE DEF F, B, p
<1> QED BY <1>1, <1>2, <1>3, TableAssumption

\* The list after clear: no lane leads anywhere.
LEMMA ClearedIs ==
  ASSUME NEW L, Shape(heap, current_level, L), NEW g,
         g = [n \in DOMAIN heap |->
                IF n = Sentinel THEN HeadNode
                ELSE [heap[n] EXCEPT !.backward =
                        [i \in DOMAIN heap[n].backward |->
                           IF heap[n].backward[i] = Sentinel THEN Nil
                           ELSE heap[n].backward[i]]]]
  PROVE  Shape(g, current_level, {}) /\ DOMAIN g = DOMAIN heap
<1> DEFINE D == DOMAIN heap
           b(m) == [i \in DOMAIN heap[m].backward |->
                      IF heap[m].backward[i] = Sentinel THEN Nil ELSE heap[m].backward[i]]
<1>1. HeapType(heap) /\ Ascends(heap) /\ Sentinel \in D /\ DOMAIN g = D
  BY DEF Shape, HeapType
<1>2. g[Sentinel] = HeadNode /\ \A m \in D \ {Sentinel} : g[m] = [heap[m] EXCEPT !.backward = b(m)]
  BY <1>1
<1>3. ASSUME NEW m \in D \ {Sentinel}
      PROVE  /\ g[m] \in Node /\ g[m].key = heap[m].key /\ g[m].key \in Key
             /\ g[m].forward = heap[m].forward /\ g[m].backward = b(m)
             /\ DOMAIN g[m].backward = DOMAIN g[m].forward
             /\ \A i \in DOMAIN g[m].backward : g[m].backward[i] \in D \cup {Nil}
  <2>1. /\ heap[m] \in Node /\ DOMAIN heap[m].forward = DOMAIN heap[m].backward
        /\ heap[m].key \in Key
        /\ \A i \in DOMAIN heap[m].backward : heap[m].backward[i] \in D \cup {Nil}
    BY <1>1 DEF HeapType, Tall, Bwd
  <2>2. heap[m].forward \in [DOMAIN heap[m].forward -> NodeId \cup {Nil}]
    <3>1. PICK l \in 1 .. MaxLevel : heap[m].forward \in [0 .. l - 1 -> NodeId \cup {Nil}]
      BY <2>1 DEF Node
    <3> QED BY <3>1
  <2>3. b(m) \in [DOMAIN heap[m].backward -> D \cup {Nil}]
    BY <2>1
  <2>4. b(m) \in [DOMAIN heap[m].forward -> NodeId \cup {Sentinel, Nil}]
    BY <1>1, <2>1, <2>3 DEF HeapType
  <2> HIDE DEF b, D
  <2>5. g[m] = Edit(heap[m], heap[m].forward, b(m))
    BY <1>2, <2>1, EditBack
  <2>6. /\ Edit(heap[m], heap[m].forward, b(m)) \in Node
        /\ Edit(heap[m], heap[m].forward, b(m)).key = heap[m].key
        /\ Edit(heap[m], heap[m].forward, b(m)).forward = heap[m].forward
        /\ Edit(heap[m], heap[m].forward, b(m)).backward = b(m)
    BY <2>1, <2>2, <2>4, EditIs
  <2> QED BY <2>1, <2>3, <2>5, <2>6
<1> HIDE DEF b
<1>4. HeapType(g)
  <2>1. /\ Sentinel \in D /\ D \subseteq NodeId \cup {Sentinel} /\ IsFiniteSet(D)
    BY <1>1 DEF HeapType
  <2>2. ASSUME NEW m \in D
        PROVE  /\ g[m] \in Node /\ DOMAIN g[m].forward = DOMAIN g[m].backward
               /\ \A i : Tall(g, m, i) => Bwd(g, m, i) \in D \cup {Nil}
               /\ m # Sentinel => g[m].key \in Key
    <3>1. CASE m = Sentinel
      BY <1>2, <3>1, HeadIs DEF Tall, Bwd
    <3>2. CASE m # Sentinel
      BY <1>3, <3>2 DEF Tall, Bwd
    <3> QED BY <3>1, <3>2
  <2> QED BY <1>1, <1>2, <2>1, <2>2, HeadIs DEF HeapType
<1>5. \A i \in Level : Fwd(g, Sentinel, i) = Nil
  BY <1>2, HeadIs DEF Fwd
<1>6. Ascends(g)
  <2> SUFFICES ASSUME NEW m \in D, NEW i \in Level, Tall(g, m, i), Fwd(g, m, i) # Nil
               PROVE  /\ Fwd(g, m, i) \in D \ {Sentinel}
                      /\ Tall(g, Fwd(g, m, i), i)
                      /\ m = Sentinel \/ KeyOf(g, m) < KeyOf(g, Fwd(g, m, i))
    BY <1>1 DEF Ascends
  <2>1. m # Sentinel
    BY <1>5
  <2>2. Tall(heap, m, i) /\ Fwd(g, m, i) = Fwd(heap, m, i) /\ KeyOf(g, m) = KeyOf(heap, m)
    BY <1>3, <2>1 DEF Tall, Fwd, KeyOf
  <2>3. /\ Fwd(heap, m, i) \in D \ {Sentinel} /\ Tall(heap, Fwd(heap, m, i), i)
        /\ KeyOf(heap, m) < KeyOf(heap, Fwd(heap, m, i))
    BY <1>1, <2>1, <2>2 DEF Ascends
  <2>4. /\ Tall(g, Fwd(heap, m, i), i)
        /\ KeyOf(g, Fwd(heap, m, i)) = KeyOf(heap, Fwd(heap, m, i))
    BY <1>3, <2>3 DEF Tall, KeyOf
  <2> QED BY <2>2, <2>3, <2>4
<1>7. \A i \in Level : Leads(g, {}, Sentinel, i)
  BY <1>5 DEF Leads, Above
<1>8. current_level \in 1 .. MaxLevel
  BY DEF Shape
<1> QED BY <1>1, <1>4, <1>6, <1>7, <1>8 DEF Shape

\* The list at the start.
LEMMA InitIs ==
  ASSUME NEW g, g = [n \in {Sentinel} |-> HeadNode]
  PROVE  Shape(g, 1, {}) /\ DOMAIN g = {Sentinel}
<1>1. DOMAIN g = {Sentinel} /\ g[Sentinel] = HeadNode
  OBVIOUS
<1>2. HeapType(g)
  BY <1>1, HeadIs, FS_Singleton DEF HeapType, Tall, Bwd
<1>3. \A i \in Level : Fwd(g, Sentinel, i) = Nil
  BY <1>1, HeadIs DEF Fwd
<1>4. Ascends(g)
  BY <1>1, <1>3 DEF Ascends
<1>5. \A i \in Level : Leads(g, {}, Sentinel, i)
  BY <1>3 DEF Leads, Above
<1>6. 1 \in 1 .. MaxLevel
  BY SkipListAssumption
<1> QED BY <1>1, <1>2, <1>4, <1>5, <1>6 DEF Shape

-----------------------------------------------------------------------------
(* The map that is stored, and its bytes.                                  *)

\* The map with e at k.
With(map, k, e) == [map EXCEPT ![k] = e]

\* A new node stores its entry.
LEMMA StoresLink ==
  ASSUME NEW h, NEW L, L \subseteq DOMAIN h, NEW map, Stores(h, L, map), NEW g, NEW n,
         NEW k \in Key, NEW e \in Entry, KeyOf(g, n) = k, EntryOf(g, n) = e,
         \A m \in L : KeyOf(g, m) = KeyOf(h, m) /\ EntryOf(g, m) = EntryOf(h, m),
         \A m \in L : KeyOf(h, m) \in Key /\ KeyOf(h, m) # k
  PROVE  Stores(g, L \cup {n}, With(map, k, e)) /\ map[k] = None
<1> DEFINE map2 == With(map, k, e)
<1>1. map \in [Key -> Entry \cup {None}]
  BY DEF Stores, Map
<1>2. map2 \in Map /\ map2[k] = e /\ \A j \in Key \ {k} : map2[j] = map[j]
  BY <1>1 DEF Map, With
<1> HIDE DEF map2
<1>3. \A m \in L \cup {n} : map2[KeyOf(g, m)] = EntryOf(g, m)
  BY <1>2 DEF Stores
<1>4. \A j \in Key : (\A m \in L \cup {n} : KeyOf(g, m) # j) => map2[j] = None
  BY <1>2 DEF Stores
<1>5. map[k] = None
  BY DEF Stores
<1> QED BY <1>2, <1>3, <1>4, <1>5 DEF Stores, map2

\* A rewritten node stores the new entry.
LEMMA StoresRewrite ==
  ASSUME NEW h, NEW L, NEW map, Stores(h, L, map), NEW g, NEW n \in L,
         NEW e \in Entry, EntryOf(g, n) = e,
         \A m \in L : KeyOf(g, m) = KeyOf(h, m) /\ KeyOf(h, m) \in Key,
         \A m \in L \ {n} : EntryOf(g, m) = EntryOf(h, m) /\ KeyOf(h, m) # KeyOf(h, n)
  PROVE  Stores(g, L, With(map, KeyOf(h, n), e))
<1> DEFINE k == KeyOf(h, n)
           map2 == With(map, k, e)
<1>1. map \in [Key -> Entry \cup {None}] /\ k \in Key
  BY DEF Stores, Map
<1>2. map2 \in Map /\ map2[k] = e /\ \A j \in Key \ {k} : map2[j] = map[j]
  BY <1>1 DEF Map, With
<1> HIDE DEF map2
<1>3. \A m \in L : map2[KeyOf(g, m)] = EntryOf(g, m)
  BY <1>2 DEF Stores
<1>4. \A j \in Key : (\A m \in L : KeyOf(g, m) # j) => map2[j] = None
  BY <1>2 DEF Stores
<1> QED BY <1>2, <1>3, <1>4 DEF Stores, map2

\* Without a node its entry is gone.
LEMMA StoresUnlink ==
  ASSUME NEW h, NEW L, NEW map, Stores(h, L, map), NEW g, NEW n \in L,
         \A m \in L : KeyOf(h, m) \in Key,
         \A m \in L \ {n} : /\ EntryOf(g, m) = EntryOf(h, m) /\ KeyOf(g, m) = KeyOf(h, m)
                            /\ KeyOf(h, m) # KeyOf(h, n)
  PROVE  Stores(g, L \ {n}, With(map, KeyOf(h, n), None))
<1> DEFINE k == KeyOf(h, n)
           map2 == With(map, k, None)
<1>1. map \in [Key -> Entry \cup {None}] /\ k \in Key
  BY DEF Stores, Map
<1>2. map2 \in Map /\ map2[k] = None /\ \A j \in Key \ {k} : map2[j] = map[j]
  BY <1>1 DEF Map, With
<1> HIDE DEF map2
<1>3. \A m \in L \ {n} : map2[KeyOf(g, m)] = EntryOf(g, m)
  BY <1>2 DEF Stores
<1>4. \A j \in Key : (\A m \in L \ {n} : KeyOf(g, m) # j) => map2[j] = None
  BY <1>2 DEF Stores
<1> QED BY <1>2, <1>3, <1>4 DEF Stores, map2

\* The bytes of a map are a sum over its keys.
LEMMA MapBytesIs ==
  ASSUME NEW map, NEW S, S = {k \in Key : map[k] # None}, IsFiniteSet(S),
         NEW f, \A k \in S : f[k] = EntryBytes(k, map[k].value) /\ f[k] \in Int
  PROVE  MapBytes(map) = SumOver(f, S)
<1> DEFINE R(g) == g = [s \in SUBSET S |->
             IF s = {} THEN 0
             ELSE EntryBytes(CHOOSE x \in s : TRUE, map[CHOOSE x \in s : TRUE].value)
                    + g[s \ {CHOOSE x \in s : TRUE}]]
           i == CHOOSE g : R(g)
<1>1. \E g : R(g)
  <2>1. PICK g : IsSum(f, S, g)
    BY SumExists
  <2>2. g = [s \in SUBSET S |-> IF s = {} THEN 0 ELSE f[Pick(s)] + g[s \ {Pick(s)}]]
    BY <2>1 DEF IsSum
  <2>3. \A s \in SUBSET S : s # {} => f[Pick(s)] = EntryBytes(Pick(s), map[Pick(s)].value)
    BY PickIn
  <2>4. g = [s \in SUBSET S |-> IF s = {} THEN 0
                                ELSE EntryBytes(Pick(s), map[Pick(s)].value) + g[s \ {Pick(s)}]]
    BY <2>2, <2>3
  <2>5. R(g)
    BY <2>4 DEF Pick
  <2> HIDE DEF R
  <2> QED BY <2>5
<1>2. R(i)
  <2> HIDE DEF R
  <2> QED BY <1>1
<1>3. IsSum(f, S, i)
  <2>1. i = [s \in SUBSET S |-> IF s = {} THEN 0
                                ELSE EntryBytes(Pick(s), map[Pick(s)].value) + i[s \ {Pick(s)}]]
    BY <1>2 DEF Pick
  <2>2. \A s \in SUBSET S : s # {} => f[Pick(s)] = EntryBytes(Pick(s), map[Pick(s)].value)
    BY PickIn
  <2> HIDE DEF i
  <2>3. i = [s \in SUBSET S |-> IF s = {} THEN 0 ELSE f[Pick(s)] + i[s \ {Pick(s)}]]
    BY <2>1, <2>2
  <2> QED BY <2>3 DEF IsSum
<1>4. MapBytes(map) = i[S]
  BY DEF MapBytes, MapThenSumSet, MapThenFoldSet
<1>5. PICK g : IsSum(f, S, g) /\ SumOver(f, S) = g[S]
  BY SumOverIs
<1> HIDE DEF i
<1>6. i[S] = g[S]
  BY <1>3, <1>5, SumUnique
<1> QED BY <1>4, <1>5, <1>6

\* What the key k adds to the bytes of a map.
Part(map, k) == IF map[k] = None THEN 0 ELSE EntryBytes(k, map[k].value)

\* The byte count of a map with finitely many entries.
Counted(map, size) ==
  /\ map \in Map /\ IsFiniteSet({k \in Key : map[k] # None})
  /\ size = MapBytes(map) % SizeMod

\* An entry adds a number of bytes.
LEMMA EntryBytesType ==
  ASSUME NEW k \in Key, NEW v \in Value
  PROVE  EntryBytes(k, v) \in Nat
<1>1. KeyLen[k] \in Nat /\ ValLen[v] \in Nat
  BY TableAssumption
<1> QED BY <1>1 DEF EntryBytes

\* So does a key.
LEMMA PartIs ==
  ASSUME NEW map \in Map, NEW k \in Key
  PROVE  Part(map, k) \in Int
<1>1. map[k] \in Entry \cup {None}
  BY DEF Map
<1>2. map[k] # None => map[k].value \in Value
  BY <1>1 DEF Entry
<1> QED BY <1>2, EntryBytesType DEF Part

\* A change at one key changes the bytes by what that key adds.
LEMMA BytesChange ==
  ASSUME NEW map \in Map, NEW map2 \in Map, NEW k \in Key,
         IsFiniteSet({j \in Key : map[j] # None}),
         \A j \in Key \ {k} : map2[j] = map[j]
  PROVE  /\ MapBytes(map) \in Int /\ MapBytes(map2) \in Int
         /\ MapBytes(map2) = MapBytes(map) + (Part(map2, k) - Part(map, k))
         /\ IsFiniteSet({j \in Key : map2[j] # None})
<1> DEFINE S(m) == {j \in Key : m[j] # None}
           F(m) == [j \in Key |-> Part(m, j)]
           R == S(map) \ {k}
<1>1. R = S(map2) \ {k} /\ IsFiniteSet(R) /\ k \notin R /\ R \subseteq Key
  BY FS_Subset
<1>2. ASSUME NEW m \in Map, S(m) \ {k} = R
      PROVE  /\ IsFiniteSet(S(m)) /\ SumOver(F(m), R) \in Int /\ Part(m, k) \in Int
             /\ MapBytes(m) = Part(m, k) + SumOver(F(m), R)
  <2> DEFINE s == S(m)
             f == F(m)
  <2>1. /\ s \subseteq Key /\ \A j \in s : f[j] = EntryBytes(j, m[j].value)
        /\ \A j \in Key : f[j] = Part(m, j) /\ f[j] \in Int
    BY PartIs DEF Part
  <2>2. k \notin s => Part(m, k) = 0
    BY DEF Part
  <2>3. s = {j \in Key : m[j] # None}
    OBVIOUS
  <2> HIDE DEF s, f
  <2>4. s = R \/ s = R \cup {k}
    BY <1>2 DEF s
  <2>5. IsFiniteSet(s)
    <3> HIDE DEF R
    <3>1. IsFiniteSet(R \cup {k})
      BY <1>1, FS_AddElement
    <3> QED BY <1>1, <2>4, <3>1
  <2>6. MapBytes(m) = SumOver(f, s)
    BY <2>1, <2>3, <2>5, MapBytesIs
  <2>7. CASE k \in s
    <3>1. s \ {k} = R
      BY <1>1, <2>4
    <3>2. SumOver(f, s \ {k}) \in Int /\ SumOver(f, s) = f[k] + SumOver(f, s \ {k})
      BY <2>1, <2>5, <2>7, SumOverSplit
    <3> QED BY <2>1, <2>5, <2>6, <3>1, <3>2 DEF s, f
  <2>8. CASE k \notin s
    <3>1. s = R
      BY <2>4, <2>8
    <3>2. PICK g : IsSum(f, s, g) /\ SumOver(f, s) = g[s]
      BY <2>1, <2>5, SumOverIs
    <3>3. g[s] \in Int
      BY <2>1, <2>5, <3>2, SumType
    <3> HIDE DEF R
    <3>4. SumOver(f, R) \in Int /\ Part(m, k) \in Int /\ MapBytes(m) = Part(m, k) + SumOver(f, R)
      BY <2>1, <2>2, <2>6, <2>8, <3>1, <3>2, <3>3
    <3> QED BY <2>5, <3>4 DEF s, f
  <2> QED BY <2>7, <2>8
<1>3. SumOver(F(map), R) = SumOver(F(map2), R)
  <2> DEFINE f == F(map)
             f2 == F(map2)
  <2>1. \A j \in R : f[j] \in Int /\ f[j] = f2[j]
    BY <1>1, PartIs DEF Part
  <2> HIDE DEF f, f2, R
  <2>2. SumOver(f, R) = SumOver(f2, R)
    BY <1>1, <2>1, SumOverSame
  <2> QED BY <2>2 DEF f, f2
<1>4. /\ IsFiniteSet(S(map)) /\ SumOver(F(map), R) \in Int /\ Part(map, k) \in Int
      /\ MapBytes(map) = Part(map, k) + SumOver(F(map), R)
  BY <1>2
<1>5. /\ IsFiniteSet(S(map2)) /\ SumOver(F(map2), R) \in Int /\ Part(map2, k) \in Int
      /\ MapBytes(map2) = Part(map2, k) + SumOver(F(map2), R)
  BY <1>1, <1>2
<1> HIDE DEF F, R
<1> QED BY <1>3, <1>4, <1>5

\* So the count may be kept by adding what the key adds now and subtracting what it
\* added, modulo 2^64.
LEMMA CountChange ==
  ASSUME NEW map, NEW size, Counted(map, size), NEW map2 \in Map, NEW k \in Key,
         \A j \in Key \ {k} : map2[j] = map[j],
         NEW d, d = Part(map2, k) - Part(map, k),
         NEW size2, size2 = (size + d) % SizeMod
  PROVE  Counted(map2, size2)
<1>1. /\ MapBytes(map) \in Int /\ MapBytes(map2) \in Int
      /\ MapBytes(map2) = MapBytes(map) + (Part(map2, k) - Part(map, k))
      /\ IsFiniteSet({j \in Key : map2[j] # None})
  BY BytesChange DEF Counted
<1>2. Part(map2, k) \in Int /\ Part(map, k) \in Int /\ SizeMod \in Nat \ {0}
  BY PartIs, TableAssumption DEF Counted
<1> DEFINE a == MapBytes(map)
<1>3. d \in Int /\ a \in Int /\ MapBytes(map2) = a + d
  BY <1>1, <1>2
<1>4. size = a % SizeMod
  BY DEF Counted
<1> HIDE DEF a
<1>5. ((a % SizeMod) + d) % SizeMod = (a + d) % SizeMod
  BY <1>2, <1>3, ModAdd
<1> QED BY <1>1, <1>3, <1>4, <1>5 DEF Counted

\* The count is below 2^64.
LEMMA CountType ==
  ASSUME NEW map, NEW size, Counted(map, size)
  PROVE  size \in 0 .. SizeMod - 1
<1> DEFINE S == {k \in Key : map[k] # None}
           f == [k \in Key |-> Part(map, k)]
           a == MapBytes(map)
<1>1. a \in Int
  <2>1. /\ IsFiniteSet(S) /\ \A k \in S : f[k] = EntryBytes(k, map[k].value) /\ f[k] \in Int
    BY PartIs DEF Counted, Part
  <2>2. S = {k \in Key : map[k] # None}
    OBVIOUS
  <2> HIDE DEF S, f
  <2>3. a = SumOver(f, S)
    BY <2>1, <2>2, MapBytesIs
  <2>4. PICK g : IsSum(f, S, g) /\ SumOver(f, S) = g[S]
    BY <2>1, SumOverIs
  <2> QED BY <2>1, <2>3, <2>4, SumType
<1>2. SizeMod \in Nat \ {0} /\ size = a % SizeMod
  BY TableAssumption DEF Counted
<1> HIDE DEF a
<1> QED BY <1>1, <1>2, ModDef

\* put of a new key adds its entry.
LEMMA CountPutNew ==
  ASSUME NEW map, NEW size, Counted(map, size), NEW k \in Key, map[k] = None,
         NEW v \in Value, NEW t \in TrancId,
         NEW map2, map2 = With(map, k, [value |-> v, tranc_id |-> t]),
         NEW size2, size2 = (size + EntryBytes(k, v)) % SizeMod
  PROVE  /\ Counted(map2, size2)
         /\ [map |-> map2, bytes |-> size2] = TablePut([map |-> map, bytes |-> size], k, v, t)
<1> DEFINE e == [value |-> v, tranc_id |-> t]
<1>1. e \in Entry /\ e # None /\ e.value = v
  BY TableAssumption DEF Entry
<1>2. map \in [Key -> Entry \cup {None}]
  BY DEF Counted, Map
<1>3. map2 \in Map /\ map2[k] = e /\ \A j \in Key \ {k} : map2[j] = map[j]
  BY <1>1, <1>2 DEF Map, With
<1>4. Part(map2, k) = EntryBytes(k, v) /\ Part(map, k) = 0
  BY <1>1, <1>3 DEF Part
<1>5. EntryBytes(k, v) \in Int
  BY EntryBytesType
<1> DEFINE d == Part(map2, k) - Part(map, k)
<1>6. d = Part(map2, k) - Part(map, k) /\ size + d = size + EntryBytes(k, v)
  BY <1>4, <1>5, CountType
<1> HIDE DEF d
<1>7. size2 = (size + d) % SizeMod
  BY <1>6
<1> HIDE DEF e
<1>8. Counted(map2, size2)
  <2> DEFINE m2 == map2
  <2>1. m2 = map2 /\ m2 \in Map /\ \A j \in Key \ {k} : m2[j] = map[j]
    BY <1>3
  <2>2. d = Part(m2, k) - Part(map, k)
    BY <1>6
  <2> HIDE DEF m2
  <2>3. Counted(m2, size2)
    BY ONLY Counted(map, size), k \in Key, <1>7, <2>1, <2>2, CountChange
  <2> QED BY <2>1, <2>3
<1> QED BY <1>8 DEF TablePut, With

\* put of a key that is present adds the change of length, and the entry keeps its
\* transaction id.
LEMMA CountPutExisting ==
  ASSUME NEW map, NEW size, Counted(map, size), NEW k \in Key, map[k] # None,
         NEW v \in Value, NEW t \in TrancId,
         NEW map2, map2 = With(map, k, [value |-> v, tranc_id |-> map[k].tranc_id]),
         NEW size2, size2 = (size + ValLen[v] - ValLen[map[k].value]) % SizeMod
  PROVE  /\ Counted(map2, size2)
         /\ [map |-> map2, bytes |-> size2] = TablePut([map |-> map, bytes |-> size], k, v, t)
<1> DEFINE e == [value |-> v, tranc_id |-> map[k].tranc_id]
<1>1. map \in [Key -> Entry \cup {None}] /\ map[k] \in Entry
  BY DEF Counted, Map
<1>2. e \in Entry /\ e # None /\ e.value = v
  BY <1>1, TableAssumption DEF Entry
<1>3. map2 \in Map /\ map2[k] = e /\ \A j \in Key \ {k} : map2[j] = map[j]
  BY <1>1, <1>2 DEF Map, With
<1>4. Part(map2, k) = EntryBytes(k, v) /\ Part(map, k) = EntryBytes(k, map[k].value)
  BY <1>2, <1>3 DEF Part
<1>5. ValLen[v] \in Nat /\ ValLen[map[k].value] \in Nat /\ KeyLen[k] \in Nat
  BY <1>1, TableAssumption DEF Entry
<1> DEFINE d == Part(map2, k) - Part(map, k)
<1>6. /\ d = Part(map2, k) - Part(map, k)
      /\ size + d = size + ValLen[v] - ValLen[map[k].value]
  BY <1>4, <1>5, CountType DEF EntryBytes
<1> HIDE DEF d
<1>7. size2 = (size + d) % SizeMod
  BY <1>6
<1> HIDE DEF e
<1>8. Counted(map2, size2)
  <2> DEFINE m2 == map2
  <2>1. m2 = map2 /\ m2 \in Map /\ \A j \in Key \ {k} : m2[j] = map[j]
    BY <1>3
  <2>2. d = Part(m2, k) - Part(map, k)
    BY <1>6
  <2> HIDE DEF m2
  <2>3. Counted(m2, size2)
    BY ONLY Counted(map, size), k \in Key, <1>7, <2>1, <2>2, CountChange
  <2> QED BY <2>1, <2>3
<1> QED BY <1>8 DEF TablePut, With

\* remove subtracts the entry.
LEMMA CountRemove ==
  ASSUME NEW map, NEW size, Counted(map, size), NEW k \in Key, map[k] # None,
         NEW map2, map2 = With(map, k, None),
         NEW size2, size2 = (size - EntryBytes(k, map[k].value)) % SizeMod
  PROVE  /\ Counted(map2, size2)
         /\ [map |-> map2, bytes |-> size2] = TableRemove([map |-> map, bytes |-> size], k)
<1>1. map \in [Key -> Entry \cup {None}] /\ map[k] \in Entry
  BY DEF Counted, Map
<1>2. map2 \in Map /\ map2[k] = None /\ \A j \in Key \ {k} : map2[j] = map[j]
  BY <1>1 DEF Map, With
<1>3. Part(map2, k) = 0 /\ Part(map, k) = EntryBytes(k, map[k].value)
  BY <1>2 DEF Part
<1>4. EntryBytes(k, map[k].value) \in Int
  BY <1>1, EntryBytesType DEF Entry
<1> DEFINE d == Part(map2, k) - Part(map, k)
<1>5. /\ d = Part(map2, k) - Part(map, k)
      /\ size + d = size - EntryBytes(k, map[k].value)
  BY <1>3, <1>4, CountType
<1> HIDE DEF d
<1>6. size2 = (size + d) % SizeMod
  BY <1>5
<1>7. Counted(map2, size2)
  BY <1>2, <1>5, <1>6, CountChange
<1> QED BY <1>7 DEF TableRemove, With

\* An empty map has no bytes.
LEMMA CountEmpty ==
  /\ Counted([k \in Key |-> None], 0)
  /\ [map |-> [k \in Key |-> None], bytes |-> 0] = EmptyTable
<1> DEFINE map == [k \in Key |-> None]
           f == [k \in Key |-> 0]
<1>1. map \in Map /\ {k \in Key : map[k] # None} = {}
  BY DEF Map
<1> HIDE DEF map
<1>2. IsFiniteSet({})
  BY FS_EmptySet
<1>3. MapBytes(map) = SumOver(f, {})
  <2> DEFINE S == {}
  <2>1. S = {k \in Key : map[k] # None} /\ IsFiniteSet(S)
        /\ \A k \in S : f[k] = EntryBytes(k, map[k].value) /\ f[k] \in Int
    BY <1>1, <1>2
  <2> HIDE DEF S, f
  <2>2. MapBytes(map) = SumOver(f, S)
    BY <2>1, MapBytesIs
  <2> QED BY <2>2 DEF S
<1>4. MapBytes(map) = 0 /\ 0 % SizeMod = 0
  BY <1>3, SumOverEmpty, TableAssumption
<1> QED BY <1>1, <1>2, <1>4 DEF Counted, EmptyTable, map

-----------------------------------------------------------------------------
(* The client's iterator, the invariant and the steps.                     *)

\* The keys a client still expects lie ahead of its iterator: they are linked, and a
\* node that was unlinked while the iterator could reach it still leads to them.
Ahead(h, it, st, L) ==
  /\ it \in (DOMAIN h \ {Sentinel}) \cup {Nil}
  /\ it = Nil => st = {}
  /\ it # Nil => \A s \in st : KeyOf(h, it) <= s
  /\ st \subseteq {KeyOf(h, x) : x \in L}
  /\ \A m \in DOMAIN h \ (L \cup {Sentinel}), s \in st :
       KeyOf(h, m) < s => Fwd(h, m, 0) # Nil /\ KeyOf(h, Fwd(h, m, 0)) <= s

\* The nodes L are linked and store map, and without an iterator no other node is alive.
State(h, cl, size, it, st, L, map) ==
  /\ Shape(h, cl, L)
  /\ Ahead(h, it, st, L)
  /\ it = Nil => DOMAIN h = L \cup {Sentinel}
  /\ Stores(h, L, map)
  /\ Counted(map, size)

\* What an operation may do to the table.
Promised(tbl, new) ==
  \/ \E k \in Key, v \in Value, t \in TrancId : new = TablePut(tbl, k, v, t)
  \/ \E k \in Key : new = TableRemove(tbl, k)
  \/ new = EmptyTable
  \/ new = tbl

\* A state that a step which keeps the table, or does what it promises, leads to.
Reached(map, size, h, cl, size2, it, st) ==
  \E L, map2 : /\ State(h, cl, size2, it, st, L, map2)
               /\ Promised([map |-> map, bytes |-> size], [map |-> map2, bytes |-> size2])

\* A linked node leads to every linked key above it, so every node does.
LEMMA LeadsOn ==
  ASSUME NEW h, NEW cl, NEW L, Shape(h, cl, L), NEW it, NEW st, Ahead(h, it, st, L),
         NEW m \in DOMAIN h \ {Sentinel}, NEW s \in st, KeyOf(h, m) < s
  PROVE  /\ Fwd(h, m, 0) \in DOMAIN h \ {Sentinel} /\ Fwd(h, m, 0) # Nil
         /\ KeyOf(h, Fwd(h, m, 0)) <= s
<1>1. HeapType(h) /\ Ascends(h) /\ Tall(h, m, 0) /\ 0 \in Level
  BY NodeIs DEF Shape
<1>2. Fwd(h, m, 0) = Nil \/ Fwd(h, m, 0) \in DOMAIN h \ {Sentinel}
  BY <1>1 DEF Ascends
<1>3. CASE m \notin L
  BY <1>2, <1>3 DEF Ahead
<1>4. CASE m \in L
  <2>1. PICK x \in L : s = KeyOf(h, x)
    BY DEF Ahead
  <2>2. x \in DOMAIN h
    BY DEF Shape
  <2>3. Tall(h, x, 0)
    BY <1>1, <2>2, NodeIs
  <2>4. x \in Above(h, L, m, 0)
    BY <2>1, <2>3 DEF Above
  <2>5. Leads(h, L, m, 0)
    BY <1>1, <1>4 DEF Shape
  <2> QED BY <1>2, <2>1, <2>4, <2>5 DEF Leads
<1> QED BY <1>3, <1>4

\* The map is untouched by a release.
LEMMA StoresRetains ==
  ASSUME NEW h, NEW g, NEW L, NEW map, Stores(h, L, map), Retains(h, g), L \subseteq DOMAIN g
  PROVE  Stores(g, L, map)
  BY DEF Stores, Retains, Keeps

\* A release keeps what the client waits for.
LEMMA AheadReleased ==
  ASSUME NEW h, NEW cl, NEW L, Shape(h, cl, L), NEW it, NEW st, Ahead(h, it, st, L),
         NEW map, Stores(h, L, map), NEW size, Counted(map, size),
         NEW g, g = Release(h, it)
  PROVE  State(g, cl, size, it, st, L, map)
<1>1. /\ Shape(g, cl, L) /\ Retains(h, g)
      /\ it # Nil => it \in DOMAIN g
  BY ReleaseIs DEF Ahead
<1>2. it = Nil => DOMAIN g = L \cup {Sentinel}
  BY ReleaseIs DEF Ahead
<1>3. L \subseteq DOMAIN g /\ HeapType(g) /\ Ascends(g)
  BY <1>1 DEF Shape
<1>4. Stores(g, L, map)
  BY <1>1, <1>3, StoresRetains
<1>5. \A m \in DOMAIN g : m \in DOMAIN h /\ KeyOf(g, m) = KeyOf(h, m) /\ Fwd(g, m, 0) = Fwd(h, m, 0)
  BY <1>1 DEF Retains, Keeps
<1>6. it \in (DOMAIN g \ {Sentinel}) \cup {Nil}
  BY <1>1 DEF Ahead
<1>7. it # Nil => \A s \in st : KeyOf(g, it) <= s
  BY <1>5, <1>6 DEF Ahead
<1>8. st \subseteq {KeyOf(g, x) : x \in L}
  BY <1>3, <1>5 DEF Ahead
<1>9. ASSUME NEW m \in DOMAIN g \ (L \cup {Sentinel}), NEW s \in st, KeyOf(g, m) < s
      PROVE  Fwd(g, m, 0) # Nil /\ KeyOf(g, Fwd(g, m, 0)) <= s
  <2>1. Fwd(h, m, 0) # Nil /\ KeyOf(h, Fwd(h, m, 0)) <= s
    BY <1>5, <1>9 DEF Ahead
  <2>2. Tall(g, m, 0) /\ 0 \in Level
    BY <1>3, <1>9, NodeIs
  <2>3. Fwd(g, m, 0) = Nil \/ Fwd(g, m, 0) \in DOMAIN g \ {Sentinel}
    BY <1>3, <1>9, <2>2 DEF Ascends
  <2> QED BY <1>5, <2>1, <2>3
<1>10. Ahead(g, it, st, L)
  BY <1>6, <1>7, <1>8, <1>9 DEF Ahead
<1> QED BY <1>1, <1>2, <1>4, <1>10 DEF State

\* put of a key that is present.
LEMMA PutExistingReaches ==
  ASSUME NEW L, NEW map, State(heap, current_level, size_bytes, iter, stable, L, map),
         NEW k \in Key, NEW v \in Value, NEW n, n = get(k, 0), n # Nil,
         NEW g, g = Rewritten(heap, n, v),
         NEW size2, size2 = (size_bytes + ValLen[v] - ValLen[heap[n].value]) % SizeMod
  PROVE  Reached(map, size_bytes, g, current_level, size2, iter, stable)
<1>1. Shape(heap, current_level, L) /\ k \in Nat
  BY TableAssumption DEF State
<1>2. n \in L /\ KeyOf(heap, n) = k
  BY <1>1, GetIs
<1>3. /\ Shape(g, current_level, L) /\ DOMAIN g = DOMAIN heap /\ Keeps(heap, g, DOMAIN heap)
      /\ \A m \in DOMAIN heap : \A i : Fwd(g, m, i) = Fwd(heap, m, i)
      /\ \A m \in DOMAIN heap \ {n} : EntryOf(g, m) = EntryOf(heap, m)
      /\ EntryOf(g, n) = [value |-> v, tranc_id |-> heap[n].tranc_id]
  BY <1>1, <1>2, RewriteIs
<1>4. /\ HeapType(heap) /\ L \subseteq DOMAIN heap \ {Sentinel} /\ n \in DOMAIN heap
      /\ HeapType(g)
  BY <1>1, <1>2, <1>3 DEF Shape
<1>5. \A m \in L : KeyOf(heap, m) \in Key /\ m \in DOMAIN heap
  BY <1>4, NodeIs
<1>6. \A m \in L \ {n} : KeyOf(heap, m) # KeyOf(heap, n)
  BY <1>1, <1>2 DEF Shape
<1>7. map[k] = EntryOf(heap, n) /\ EntryOf(heap, n) # None
  BY <1>2, <1>4, EntryType DEF State, Stores
<1>8. map[k] # None /\ map[k].value = heap[n].value /\ map[k].tranc_id = heap[n].tranc_id
  BY <1>7 DEF EntryOf
<1>9. heap[n].tranc_id \in TrancId
  BY <1>4 DEF HeapType, Node
<1> DEFINE e == [value |-> v, tranc_id |-> map[k].tranc_id]
           map2 == With(map, k, e)
<1>10. e \in Entry /\ EntryOf(g, n) = e
  BY <1>3, <1>8, <1>9 DEF Entry
<1>11. Stores(g, L, map2)
  <2> HIDE DEF e
  <2>1. \A m \in L : KeyOf(g, m) = KeyOf(heap, m) /\ KeyOf(heap, m) \in Key
    BY <1>3, <1>5 DEF Keeps
  <2>2. \A m \in L \ {n} : EntryOf(g, m) = EntryOf(heap, m) /\ KeyOf(heap, m) # KeyOf(heap, n)
    BY <1>3, <1>5, <1>6
  <2>3. Stores(heap, L, map)
    BY DEF State
  <2>4. Stores(g, L, With(map, KeyOf(heap, n), e))
    BY <1>2, <1>10, <2>1, <2>2, <2>3, StoresRewrite
  <2> QED BY <1>2, <2>4
<1>12. /\ Counted(map2, size2)
       /\ [map |-> map2, bytes |-> size2]
            = TablePut([map |-> map, bytes |-> size_bytes], k, v, 0)
  <2>1. Counted(map, size_bytes) /\ 0 \in TrancId
    BY TableAssumption DEF State
  <2>2. map2 = With(map, k, [value |-> v, tranc_id |-> map[k].tranc_id])
    OBVIOUS
  <2>3. size2 = (size_bytes + ValLen[v] - ValLen[map[k].value]) % SizeMod
    BY <1>8
  <2> HIDE DEF map2
  <2> QED BY <1>8, <2>1, <2>2, <2>3, CountPutExisting
<1> HIDE DEF map2
<1>13. Ahead(heap, iter, stable, L)
  BY DEF State
<1>14. \A m \in DOMAIN heap : KeyOf(g, m) = KeyOf(heap, m) /\ Fwd(g, m, 0) = Fwd(heap, m, 0)
  BY <1>3 DEF Keeps
<1>15. ASSUME NEW m \in DOMAIN g \ (L \cup {Sentinel}), NEW s \in stable, KeyOf(g, m) < s
       PROVE  Fwd(g, m, 0) # Nil /\ KeyOf(g, Fwd(g, m, 0)) <= s
  <2>1. m \in DOMAIN heap \ {Sentinel} /\ KeyOf(heap, m) < s
    BY <1>3, <1>14, <1>15
  <2>2. Fwd(heap, m, 0) \in DOMAIN heap /\ Fwd(heap, m, 0) # Nil
        /\ KeyOf(heap, Fwd(heap, m, 0)) <= s
    BY <1>1, <1>13, <2>1, LeadsOn
  <2> QED BY <1>14, <2>1, <2>2
<1>16. Ahead(g, iter, stable, L)
  BY <1>3, <1>5, <1>13, <1>14, <1>15 DEF Ahead
<1>17. iter = Nil => DOMAIN g = L \cup {Sentinel}
  BY <1>3 DEF State
<1>18. State(g, current_level, size2, iter, stable, L, map2)
  BY <1>3, <1>11, <1>12, <1>16, <1>17 DEF State
<1>19. Promised([map |-> map, bytes |-> size_bytes], [map |-> map2, bytes |-> size2])
  BY <1>12, TableAssumption DEF Promised
<1> QED BY <1>18, <1>19 DEF Reached

\* put of a new key.
LEMMA PutNewReaches ==
  ASSUME NEW L, NEW map, State(heap, current_level, size_bytes, iter, stable, L, map),
         NEW k \in Key, NEW v \in Value, NEW t \in TrancId, NEW l \in 1 .. MaxLevel,
         get(k, 0) = Nil, Free # {},
         NEW g, g = Linked(Min(Free), NewNode(k, v, t, l), Update(k)),
         NEW cl2, cl2 = Max({current_level, l}),
         NEW size2, size2 = (size_bytes + EntryBytes(k, v)) % SizeMod
  PROVE  Reached(map, size_bytes, g, cl2, size2, iter, stable)
<1> DEFINE n == Min(Free)
           U == Update(k)
           levels == 0 .. l - 1
<1>1. /\ Shape(heap, current_level, L) /\ k \in Nat /\ HeapType(heap) /\ Ascends(heap)
      /\ L \subseteq DOMAIN heap \ {Sentinel} /\ current_level \in 1 .. MaxLevel
  BY TableAssumption DEF State, Shape
<1>2. n \in NodeId \ DOMAIN heap
  <2>1. Free \in SUBSET Nat
    BY SkipListAssumption DEF Free
  <2>2. \E i \in Free : \A j \in Free : i <= j
    BY <2>1, Least
  <2>3. n \in Free
    BY <2>2 DEF Min
  <2> QED BY <2>3 DEF Free
<1>3. \A x \in L : KeyOf(heap, x) # k
  BY <1>1, SkipListAssumption, GetIs DEF Shape, HeapType
<1>4. levels \subseteq Level
  BY SkipListAssumption DEF Level
<1>5. \A i \in levels : IsPred(heap, L, i, k, U[i])
  BY <1>1, <1>4, UpdateIs
<1>6. \A i \in levels : U[i] \in DOMAIN heap /\ Tall(heap, U[i], i) /\ U[i] \in L \cup {Sentinel}
  BY <1>1, <1>5 DEF IsPred, HeapType
<1> HIDE DEF n, U
<1>7. /\ HeapType(g) /\ Links(heap, g, n, k, levels, U)
      /\ \A m \in DOMAIN heap : EntryOf(g, m) = EntryOf(heap, m)
      /\ EntryOf(g, n) = [value |-> v, tranc_id |-> t]
  <2>1. g = Linked(n, NewNode(k, v, t, l), U)
    BY DEF n, U
  <2> QED BY <1>1, <1>2, <1>6, <2>1, LinkedIs
<1>8. cl2 = IF current_level < l THEN l ELSE current_level
  <2>1. current_level \in Nat /\ l \in Nat /\ MaxLevel \in Nat
    BY <1>1, SkipListAssumption
  <2>2. \A y \in {current_level, l} : y \in 1 .. MaxLevel
    BY <1>1
  <2>3. cl2 \in {current_level, l} /\ \A y \in {current_level, l} : cl2 >= y
    BY <2>1, <2>2, MaxIs
  <2> QED BY <2>1, <2>3
<1> HIDE DEF levels
<1>9. Shape(g, cl2, L \cup {n})
  <2>1. levels = 0 .. l - 1
    BY DEF levels
  <2> QED BY <1>1, <1>3, <1>5, <1>7, <1>8, <2>1, LinkShape
<1> DEFINE e == [value |-> v, tranc_id |-> t]
           map2 == With(map, k, e)
<1>10. DOMAIN g = DOMAIN heap \cup {n} /\ KeyOf(g, n) = k
       /\ \A m \in DOMAIN heap : KeyOf(g, m) = KeyOf(heap, m)
  BY <1>7 DEF Links, Keeps
<1>11. Stores(g, L \cup {n}, map2) /\ map[k] = None
  <2>1. e \in Entry /\ EntryOf(g, n) = e
    BY <1>7 DEF Entry
  <2> HIDE DEF e
  <2>2. \A m \in L : KeyOf(g, m) = KeyOf(heap, m) /\ EntryOf(g, m) = EntryOf(heap, m)
    BY <1>1, <1>7, <1>10
  <2>3. \A m \in L : KeyOf(heap, m) \in Key /\ KeyOf(heap, m) # k
    BY <1>1, <1>3, NodeIs
  <2>4. L \subseteq DOMAIN heap /\ Stores(heap, L, map)
    BY <1>1 DEF State
  <2>5. KeyOf(g, n) = k
    BY <1>10
  <2> QED BY <2>1, <2>2, <2>3, <2>4, <2>5, StoresLink
<1>12. /\ Counted(map2, size2)
       /\ [map |-> map2, bytes |-> size2]
            = TablePut([map |-> map, bytes |-> size_bytes], k, v, t)
  <2>1. Counted(map, size_bytes)
    BY DEF State
  <2>2. map2 = With(map, k, [value |-> v, tranc_id |-> t])
    OBVIOUS
  <2> HIDE DEF map2
  <2> QED BY <1>11, <2>1, <2>2, CountPutNew
<1> HIDE DEF map2
<1>13. Ahead(heap, iter, stable, L)
  BY DEF State
<1>14. ASSUME NEW m \in DOMAIN g \ (L \cup {n} \cup {Sentinel}), NEW s \in stable, KeyOf(g, m) < s
       PROVE  Fwd(g, m, 0) # Nil /\ KeyOf(g, Fwd(g, m, 0)) <= s
  <2>1. m \in DOMAIN heap \ {Sentinel} /\ m \notin L /\ KeyOf(heap, m) < s
    BY <1>10, <1>14
  <2>2. Fwd(heap, m, 0) \in DOMAIN heap /\ Fwd(heap, m, 0) # Nil
        /\ KeyOf(heap, Fwd(heap, m, 0)) <= s
    BY <1>1, <1>13, <2>1, LeadsOn
  <2>3. Tall(heap, m, 0) /\ 0 \in Level
    BY <1>1, <2>1, NodeIs
  <2>4. Fwd(g, m, 0) = IF 0 \in levels /\ U[0] = m THEN n ELSE Fwd(heap, m, 0)
    BY <1>7, <2>1, <2>3 DEF Links
  <2>5. 0 \in levels => U[0] # m
    BY <1>6, <2>1
  <2> QED BY <1>10, <2>2, <2>4, <2>5
<1>15. iter \in (DOMAIN g \ {Sentinel}) \cup {Nil}
  BY <1>10, <1>13 DEF Ahead
<1>16. iter # Nil => \A s \in stable : KeyOf(g, iter) <= s
  BY <1>10, <1>13 DEF Ahead
<1>17. stable \subseteq {KeyOf(g, x) : x \in L \cup {n}}
  BY <1>1, <1>10, <1>13 DEF Ahead
<1>18. Ahead(g, iter, stable, L \cup {n})
  BY <1>13, <1>14, <1>15, <1>16, <1>17 DEF Ahead
<1>19. iter = Nil => DOMAIN g = (L \cup {n}) \cup {Sentinel}
  BY <1>10 DEF State
<1>20. State(g, cl2, size2, iter, stable, L \cup {n}, map2)
  BY <1>9, <1>11, <1>12, <1>18, <1>19 DEF State
<1>21. Promised([map |-> map, bytes |-> size_bytes], [map |-> map2, bytes |-> size2])
  BY <1>12 DEF Promised
<1> QED BY <1>20, <1>21 DEF Reached

\* remove of a key that is present.
LEMMA RemoveReaches ==
  ASSUME NEW L, NEW map, State(heap, current_level, size_bytes, iter, stable, L, map),
         NEW k \in Key, NEW n, n = get(k, 0), n # Nil,
         NEW h, h = Unlinked(n, Update(k)),
         NEW g, g = Release(h, iter),
         NEW size2, size2 = (size_bytes - EntryBytes(k, heap[n].value)) % SizeMod,
         NEW st2, st2 = stable \ {k}
  PROVE  Reached(map, size_bytes, g, Lowered(h), size2, iter, st2)
<1> DEFINE U == Update(k)
           R == L \ {n}
           map2 == With(map, k, None)
           cl2 == Lowered(h)
<1>1. /\ Shape(heap, current_level, L) /\ k \in Nat /\ HeapType(heap) /\ Ascends(heap)
      /\ L \subseteq DOMAIN heap \ {Sentinel} /\ current_level \in 1 .. MaxLevel
  BY TableAssumption DEF State, Shape
<1>2. n \in L /\ KeyOf(heap, n) = k
  BY <1>1, GetIs
<1>3. \A i \in Level : IsPred(heap, L, i, KeyOf(heap, n), U[i])
  BY <1>1, <1>2, UpdateIs
<1> HIDE DEF U
<1>4. /\ HeapType(h) /\ Unlinks(heap, h, n, U)
      /\ \A m \in DOMAIN heap : EntryOf(h, m) = EntryOf(heap, m)
  <2>1. h = Unlinked(n, U)
    BY DEF U
  <2> QED BY <1>1, <1>2, <1>3, <2>1, UnlinkedIs
<1>5. /\ cl2 \in 1 .. MaxLevel
      /\ \A i \in 0 .. current_level - 1 : Fwd(h, Sentinel, i) # Nil => i < cl2
  BY <1>1, LoweredIs
<1> HIDE DEF cl2
<1>6. Shape(h, cl2, R)
  BY <1>1, <1>2, <1>3, <1>4, <1>5, UnlinkShape
<1>7. DOMAIN h = DOMAIN heap /\ \A m \in DOMAIN heap : KeyOf(h, m) = KeyOf(heap, m)
  BY <1>4 DEF Unlinks, Keeps
<1>8. \A m \in L : KeyOf(heap, m) \in Key /\ m \in DOMAIN heap
  BY <1>1, NodeIs
<1>9. \A m \in R : KeyOf(heap, m) # KeyOf(heap, n)
  BY <1>1, <1>2 DEF Shape
<1>10. Stores(h, R, map2)
  <2>1. \A m \in L : KeyOf(heap, m) \in Key
    BY <1>8
  <2>2. \A m \in L \ {n} : /\ EntryOf(h, m) = EntryOf(heap, m) /\ KeyOf(h, m) = KeyOf(heap, m)
                           /\ KeyOf(heap, m) # KeyOf(heap, n)
    BY <1>4, <1>7, <1>8, <1>9
  <2>3. Stores(heap, L, map)
    BY DEF State
  <2>4. Stores(h, L \ {n}, With(map, KeyOf(heap, n), None))
    BY <1>2, <2>1, <2>2, <2>3, StoresUnlink
  <2> QED BY <1>2, <2>4
<1>11. map[k] # None /\ map[k].value = heap[n].value
  <2>1. map[k] = EntryOf(heap, n) /\ EntryOf(heap, n) # None
    BY <1>1, <1>2, <1>8, EntryType DEF State, Stores
  <2> QED BY <2>1 DEF EntryOf
<1>12. /\ Counted(map2, size2)
       /\ [map |-> map2, bytes |-> size2]
            = TableRemove([map |-> map, bytes |-> size_bytes], k)
  <2>1. Counted(map, size_bytes)
    BY DEF State
  <2>2. map2 = With(map, k, None)
    OBVIOUS
  <2>3. size2 = (size_bytes - EntryBytes(k, map[k].value)) % SizeMod
    BY <1>11
  <2> HIDE DEF map2
  <2> QED BY <1>11, <2>1, <2>2, <2>3, CountRemove
<1> HIDE DEF map2
<1>13. Ahead(heap, iter, stable, L)
  BY DEF State
<1>14. ASSUME NEW m \in DOMAIN h \ (R \cup {Sentinel}), NEW s \in st2, KeyOf(h, m) < s
       PROVE  Fwd(h, m, 0) # Nil /\ KeyOf(h, Fwd(h, m, 0)) <= s
  <2>1. m \in DOMAIN heap \ {Sentinel} /\ KeyOf(heap, m) < s /\ s \in stable
    BY <1>7, <1>14
  <2>2. /\ Fwd(heap, m, 0) \in DOMAIN heap /\ Fwd(heap, m, 0) # Nil
        /\ KeyOf(heap, Fwd(heap, m, 0)) <= s
    BY <1>1, <1>13, <2>1, LeadsOn
  <2>3. Tall(heap, m, 0) /\ 0 \in Level
    BY <1>1, <2>1, NodeIs
  <2>4. Fwd(h, m, 0) = IF Tall(heap, n, 0) /\ U[0] = m THEN Fwd(heap, n, 0)
                                                      ELSE Fwd(heap, m, 0)
    BY <1>4, <2>1, <2>3 DEF Unlinks
  <2>5. U[0] # m
    <3>1. U[0] \in L \cup {Sentinel} /\ (U[0] = Sentinel \/ KeyOf(heap, U[0]) < KeyOf(heap, n))
      BY <1>3, <2>3 DEF IsPred
    <3>2. m \notin R
      BY <1>14
    <3>3. KeyOf(heap, n) \in Nat
      BY <1>1, <1>2
    <3> QED BY <2>1, <3>1, <3>2, <3>3
  <2> QED BY <1>7, <2>2, <2>4, <2>5
<1>15. iter \in (DOMAIN h \ {Sentinel}) \cup {Nil}
  BY <1>7, <1>13 DEF Ahead
<1>16. iter # Nil => \A s \in st2 : KeyOf(h, iter) <= s
  BY <1>7, <1>13, <1>15 DEF Ahead
<1>17. st2 \subseteq {KeyOf(h, x) : x \in R}
  <2> SUFFICES ASSUME NEW s \in st2 PROVE \E x \in R : s = KeyOf(h, x)
    OBVIOUS
  <2>1. PICK x \in L : s = KeyOf(heap, x)
    BY <1>13 DEF Ahead
  <2>2. x # n
    BY <1>2, <2>1
  <2> QED BY <1>7, <1>8, <2>1, <2>2
<1>18. iter = Nil => st2 = {}
  BY <1>13 DEF Ahead
<1>19. Ahead(h, iter, st2, R)
  BY <1>14, <1>15, <1>16, <1>17, <1>18 DEF Ahead
<1>20. State(g, cl2, size2, iter, st2, R, map2)
  <2> HIDE DEF R
  <2> QED BY <1>6, <1>10, <1>12, <1>19, AheadReleased
<1>21. Promised([map |-> map, bytes |-> size_bytes], [map |-> map2, bytes |-> size2])
  BY <1>12 DEF Promised
<1> QED BY <1>20, <1>21 DEF Reached, cl2

\* A heap after clear, before the old nodes are released.
Cleared ==
  [n \in DOMAIN heap |->
     IF n = Sentinel THEN HeadNode
     ELSE [heap[n] EXCEPT !.backward =
             [i \in DOMAIN heap[n].backward |->
                IF heap[n].backward[i] = Sentinel THEN Nil
                ELSE heap[n].backward[i]]]]

\* clear.
LEMMA ClearReaches ==
  ASSUME NEW L, NEW map, State(heap, current_level, size_bytes, iter, stable, L, map),
         NEW h, h = Cleared,
         NEW g, g = Release(h, iter)
  PROVE  Reached(map, size_bytes, g, current_level, 0, iter, {})
<1> DEFINE map2 == [k \in Key |-> None]
<1>1. Shape(heap, current_level, L) /\ Ahead(heap, iter, stable, L)
  BY DEF State
<1>2. Shape(h, current_level, {}) /\ DOMAIN h = DOMAIN heap
  BY <1>1, ClearedIs DEF Cleared
<1>3. Counted(map2, 0) /\ [map |-> map2, bytes |-> 0] = EmptyTable
  BY CountEmpty
<1>4. Stores(h, {}, map2)
  BY DEF Stores, Map
<1> HIDE DEF map2
<1>5. Ahead(h, iter, {}, {})
  BY <1>1, <1>2 DEF Ahead
<1>6. State(g, current_level, 0, iter, {}, {}, map2)
  BY <1>2, <1>3, <1>4, <1>5, AheadReleased
<1>7. Promised([map |-> map, bytes |-> size_bytes], [map |-> map2, bytes |-> 0])
  BY <1>3 DEF Promised
<1> QED BY <1>6, <1>7 DEF Reached

\* A client takes an iterator.
LEMMA NewIteratorReaches ==
  ASSUME NEW L, NEW map, State(heap, current_level, size_bytes, iter, stable, L, map),
         iter = Nil, NEW k \in Key, NEW it, it = LowerBound(k),
         NEW st, st = {heap[n].key : n \in Range(Chain(0, it, Nil))}
  PROVE  Reached(map, size_bytes, heap, current_level, size_bytes, it, st)
<1>1. /\ Shape(heap, current_level, L) /\ k \in Nat /\ HeapType(heap) /\ Ascends(heap)
      /\ L \subseteq DOMAIN heap \ {Sentinel} /\ DOMAIN heap = L \cup {Sentinel}
  BY TableAssumption DEF State, Shape
<1>2. IsLower(heap, L, k, it)
  BY <1>1, LowerBoundIs
<1>3. 0 \in Level /\ Sentinel \in DOMAIN heap
  BY <1>1, NodeIs DEF HeapType
<1>4. ASSUME it = Nil PROVE Ahead(heap, it, st, L)
  <2>1. Chain(0, it, Nil) = << >>
    BY <1>1, <1>3, <1>4, ChainIs
  <2>2. st = {}
    BY <2>1 DEF Range
  <2> QED BY <1>1, <1>4, <2>2 DEF Ahead
<1>5. ASSUME it # Nil PROVE Ahead(heap, it, st, L)
  <2>1. it \in L
    BY <1>2, <1>5 DEF IsLower
  <2>2. Tall(heap, it, 0) /\ it \in DOMAIN heap
    BY <1>1, <2>1, NodeIs
  <2>3. Range(Chain(0, it, Nil)) = Between(heap, L, 0, it, Nil)
    BY <1>1, <1>3, <2>1, <2>2, ChainRange
  <2>4. st = {KeyOf(heap, x) : x \in Between(heap, L, 0, it, Nil)}
    BY <2>3 DEF KeyOf
  <2>5. /\ \A s \in st : KeyOf(heap, it) <= s
        /\ st \subseteq {KeyOf(heap, x) : x \in L}
    BY <2>4 DEF Between
  <2> QED BY <1>1, <1>5, <2>1, <2>5 DEF Ahead
<1>6. Ahead(heap, it, st, L)
  BY <1>4, <1>5
<1>7. State(heap, current_level, size_bytes, it, st, L, map)
  BY <1>1, <1>6 DEF State
<1>8. Promised([map |-> map, bytes |-> size_bytes], [map |-> map, bytes |-> size_bytes])
  BY DEF Promised
<1> QED BY <1>7, <1>8 DEF Reached

\* The client's iterator moves on.
LEMMA IteratorNextReaches ==
  ASSUME NEW L, NEW map, State(heap, current_level, size_bytes, iter, stable, L, map),
         iter # Nil, NEW it, it = heap[iter].forward[0],
         NEW g, g = Release(heap, it),
         NEW st, st = stable \ {heap[iter].key}
  PROVE  Reached(map, size_bytes, g, current_level, size_bytes, it, st)
<1>1. /\ Shape(heap, current_level, L) /\ HeapType(heap) /\ Ascends(heap)
      /\ Ahead(heap, iter, stable, L) /\ Stores(heap, L, map) /\ Counted(map, size_bytes)
      /\ L \subseteq DOMAIN heap
  BY DEF State, Shape
<1>2. iter \in DOMAIN heap \ {Sentinel} /\ it = Fwd(heap, iter, 0)
  BY <1>1 DEF Ahead, Fwd
<1>3. it = Nil \/ it \in DOMAIN heap \ {Sentinel}
  BY <1>1, <1>2, NodeIs DEF Ascends
<1>4. ASSUME NEW s \in st
      PROVE  it # Nil /\ KeyOf(heap, it) <= s
  <2>1. s \in stable /\ s # KeyOf(heap, iter) /\ KeyOf(heap, iter) <= s
    BY <1>1 DEF Ahead, KeyOf
  <2>2. PICK x \in L : s = KeyOf(heap, x)
    BY <1>1, <2>1 DEF Ahead
  <2>3. s \in Nat /\ KeyOf(heap, iter) \in Nat
    BY <1>1, <1>2, <2>2, NodeIs
  <2>4. KeyOf(heap, iter) < s
    BY <2>1, <2>3
  <2> QED BY <1>1, <1>2, <2>1, <2>4, LeadsOn
<1>5. it = Nil => st = {}
  BY <1>4
<1>6. st \subseteq stable
  OBVIOUS
<1>7. Ahead(heap, it, st, L)
  BY <1>1, <1>3, <1>4, <1>5, <1>6 DEF Ahead
<1>8. State(g, current_level, size_bytes, it, st, L, map)
  BY <1>1, <1>7, AheadReleased
<1>9. Promised([map |-> map, bytes |-> size_bytes], [map |-> map, bytes |-> size_bytes])
  BY DEF Promised
<1> QED BY <1>8, <1>9 DEF Reached

\* The inductive invariant: some nodes are linked, and they store some map.
Inv == \E L, map : State(heap, current_level, size_bytes, iter, stable, L, map)

\* It holds of a new list.
LEMMA InitInv == Init => Inv
<1> SUFFICES ASSUME Init PROVE Inv
  OBVIOUS
<1> DEFINE map == [k \in Key |-> None]
<1>1. /\ heap = [n \in {Sentinel} |-> HeadNode] /\ current_level = 1 /\ size_bytes = 0
      /\ iter = Nil /\ stable = {}
  BY DEF Init
<1>2. Shape(heap, current_level, {}) /\ DOMAIN heap = {Sentinel}
  BY <1>1, InitIs
<1>3. Stores(heap, {}, map)
  BY DEF Stores, Map
<1>4. Counted(map, size_bytes)
  BY <1>1, CountEmpty
<1> HIDE DEF map
<1>5. Ahead(heap, iter, stable, {})
  BY <1>1, <1>2 DEF Ahead
<1>6. State(heap, current_level, size_bytes, iter, stable, {}, map)
  BY <1>2, <1>3, <1>4, <1>5 DEF State
<1> QED BY <1>6 DEF Inv

\* Every step does to the stored map what the table promises of it.
LEMMA StepReaches ==
  ASSUME NEW L, NEW map, State(heap, current_level, size_bytes, iter, stable, L, map),
         [Next]_vars
  PROVE  Reached(map, size_bytes, heap', current_level', size_bytes', iter', stable')
<1>1. ASSUME NEW k \in Key, NEW v \in Value, PutExisting(k, v)
      PROVE  Reached(map, size_bytes, heap', current_level', size_bytes', iter', stable')
  <2> DEFINE n == get(k, 0)
  <2>1. /\ n # Nil /\ heap' = Rewritten(heap, n, v)
        /\ size_bytes' = (size_bytes + ValLen[v] - ValLen[heap[n].value]) % SizeMod
        /\ current_level' = current_level /\ iter' = iter /\ stable' = stable
    BY <1>1 DEF PutExisting, Rewritten
  <2> HIDE DEF n
  <2>2. n = get(k, 0)
    BY DEF n
  <2> QED BY <2>1, <2>2, PutExistingReaches
<1>2. ASSUME NEW k \in Key, NEW v \in Value, NEW t \in TrancId, NEW newlevel \in 1 .. MaxLevel,
             PutNew(k, v, t, newlevel)
      PROVE  Reached(map, size_bytes, heap', current_level', size_bytes', iter', stable')
  <2>1. /\ get(k, 0) = Nil /\ Free # {}
        /\ heap' = Linked(Min(Free), NewNode(k, v, t, newlevel), Update(k))
        /\ current_level' = Max({current_level, newlevel})
        /\ size_bytes' = (size_bytes + EntryBytes(k, v)) % SizeMod
        /\ iter' = iter /\ stable' = stable
    BY <1>2 DEF PutNew
  <2> QED BY <2>1, PutNewReaches
<1>3. ASSUME remove
      PROVE  Reached(map, size_bytes, heap', current_level', size_bytes', iter', stable')
  <2>1. PICK k \in Key :
          /\ get(k, 0) # Nil
          /\ heap' = Release(Unlinked(get(k, 0), Update(k)), iter)
          /\ size_bytes' = (size_bytes - EntryBytes(k, heap[get(k, 0)].value)) % SizeMod
          /\ current_level' = Lowered(Unlinked(get(k, 0), Update(k)))
          /\ stable' = stable \ {k} /\ iter' = iter
    BY <1>3 DEF remove
  <2> DEFINE n == get(k, 0)
             h == Unlinked(n, Update(k))
  <2>2. n = get(k, 0) /\ n # Nil /\ h = Unlinked(n, Update(k)) /\ heap' = Release(h, iter)
    BY <2>1
  <2>3. /\ size_bytes' = (size_bytes - EntryBytes(k, heap[n].value)) % SizeMod
        /\ current_level' = Lowered(h)
    BY <2>1
  <2> HIDE DEF n, h
  <2> QED BY <2>1, <2>2, <2>3, RemoveReaches
<1>4. ASSUME clear
      PROVE  Reached(map, size_bytes, heap', current_level', size_bytes', iter', stable')
  <2> DEFINE h == Cleared
  <2>1. /\ heap' = Release(h, iter) /\ size_bytes' = 0 /\ stable' = {}
        /\ current_level' = current_level /\ iter' = iter
    BY <1>4 DEF clear, Cleared
  <2>2. h = Cleared
    OBVIOUS
  <2> HIDE DEF h
  <2> QED BY <2>1, <2>2, ClearReaches
<1>5. ASSUME NewIterator
      PROVE  Reached(map, size_bytes, heap', current_level', size_bytes', iter', stable')
  <2>1. PICK k \in SeekKey :
          /\ iter' = LowerBound(k)
          /\ stable' = {heap[n].key : n \in Range(Chain(0, LowerBound(k), Nil))}
    BY <1>5 DEF NewIterator
  <2>2. k \in Key /\ iter = Nil
    BY <1>5, SkipListAssumption DEF NewIterator
  <2>3. /\ heap' = heap /\ current_level' = current_level /\ size_bytes' = size_bytes
    BY <1>5 DEF NewIterator
  <2> DEFINE it == LowerBound(k)
  <2>4. it = LowerBound(k) /\ iter' = it
        /\ stable' = {heap[n].key : n \in Range(Chain(0, it, Nil))}
    BY <2>1
  <2> HIDE DEF it
  <2>5. Reached(map, size_bytes, heap, current_level, size_bytes, it, stable')
    BY <2>2, <2>4, NewIteratorReaches
  <2> QED BY <2>3, <2>4, <2>5
<1>6. ASSUME IteratorNext
      PROVE  Reached(map, size_bytes, heap', current_level', size_bytes', iter', stable')
  <2>1. /\ iter # Nil /\ iter' = heap[iter].forward[0] /\ heap' = Release(heap, iter')
        /\ stable' = stable \ {heap[iter].key}
        /\ current_level' = current_level /\ size_bytes' = size_bytes
    BY <1>6 DEF IteratorNext
  <2> QED BY <2>1, IteratorNextReaches
<1>7. ASSUME UNCHANGED vars
      PROVE  Reached(map, size_bytes, heap', current_level', size_bytes', iter', stable')
  <2>1. Promised([map |-> map, bytes |-> size_bytes], [map |-> map, bytes |-> size_bytes])
    BY DEF Promised
  <2> QED BY <1>7, <2>1 DEF vars, Reached
<1> QED BY <1>1, <1>2, <1>3, <1>4, <1>5, <1>6, <1>7 DEF Next, put

\* Every step preserves it.
LEMMA StepInv == Inv /\ [Next]_vars => Inv'
<1> SUFFICES ASSUME Inv, [Next]_vars PROVE Inv'
  OBVIOUS
<1>1. PICK L, map : State(heap, current_level, size_bytes, iter, stable, L, map)
  BY DEF Inv
<1>2. Reached(map, size_bytes, heap', current_level', size_bytes', iter', stable')
  BY <1>1, StepReaches
<1> QED BY <1>2 DEF Reached, Inv

\* The inductive invariant holds throughout.
THEOREM ShapeInvariant == Spec => []Inv
BY InitInv, StepInv, PTL DEF Spec

\* In every list, for any keys, values, addresses and number of levels, the nodes in use
\* are well formed, their towers are complete from the lowest lane up, no pointer of a
\* living node dangles, not even one of a removed node that an iterator still owns, and
\* the byte count is below 2^64.
THEOREM Types == Spec => []TypeOK
<1>1. Inv => TypeOK
  <2> SUFFICES ASSUME Inv PROVE TypeOK
    OBVIOUS
  <2>1. PICK L, map : State(heap, current_level, size_bytes, iter, stable, L, map)
    BY DEF Inv
  <2>2. /\ Shape(heap, current_level, L) /\ HeapType(heap) /\ Ascends(heap)
        /\ L \subseteq DOMAIN heap \ {Sentinel} /\ current_level \in 1 .. MaxLevel
        /\ Ahead(heap, iter, stable, L)
    BY <2>1 DEF State, Shape
  <2>3. ASSUME NEW n \in DOMAIN heap, NEW i \in DOMAIN heap[n].forward
        PROVE  {heap[n].forward[i], heap[n].backward[i]} \subseteq DOMAIN heap \cup {Nil}
    <3>1. Tall(heap, n, i)
      BY <2>3 DEF Tall
    <3>2. i \in Level
      BY <2>2, <3>1, NodeIs
    <3>3. Fwd(heap, n, i) \in DOMAIN heap \cup {Nil} /\ Bwd(heap, n, i) \in DOMAIN heap \cup {Nil}
      BY <2>2, <3>1, <3>2 DEF HeapType, Ascends
    <3> QED BY <3>3 DEF Fwd, Bwd
  <2>4. size_bytes \in 0 .. SizeMod - 1
    BY <2>1, CountType DEF State
  <2>5. stable \subseteq Key
    <3>1. \A x \in L : KeyOf(heap, x) \in Key
      BY <2>2, NodeIs
    <3> QED BY <2>2, <3>1 DEF Ahead
  <2>6. \A n \in DOMAIN heap : heap[n] \in Node /\ DOMAIN heap[n].forward = DOMAIN heap[n].backward
    BY <2>2 DEF HeapType
  <2>7. Sentinel \in DOMAIN heap /\ DOMAIN heap \subseteq NodeId \cup {Sentinel}
    BY <2>2 DEF HeapType
  <2>8. iter \in DOMAIN heap \cup {Nil}
    BY <2>2 DEF Ahead
  <2> QED BY <2>2, <2>3, <2>4, <2>5, <2>6, <2>7, <2>8 DEF TypeOK
<1> QED BY <1>1, ShapeInvariant, PTL

\* However put, remove and clear relink the lanes, every lane stays strictly sorted, holds
\* exactly the nodes that are tall enough for it, and is empty from current_level on, also
\* after clear, which does not reset current_level.
THEOREM LanesHold == Spec => []Lanes
<1>1. Inv => Lanes
  BY ShapeLanes DEF Inv, State
<1> QED BY <1>1, ShapeInvariant, PTL

\* The backward pointers of every lane mirror its forward pointers, although put sets them
\* in a second pass and remove patches lane by lane.
THEOREM MirrorsHold == Spec => []BackwardMirrors
<1>1. Inv => BackwardMirrors
  BY ShapeMirrors DEF Inv, State
<1> QED BY <1>1, ShapeInvariant, PTL

\* get, the prefix range and the range of a monotone predicate answer as a scan of the
\* bottom lane from end to end would, for every key and every interval of keys.
THEOREM SearchesHold == Spec => []SearchesAgree
<1>1. Inv => SearchesAgree
  BY ShapeSearches DEF Inv, State
<1> QED BY <1>1, ShapeInvariant, PTL

\* What is read off the bottom lane is the map that the linked nodes store.
ContentsAre ==
  \A L, map : State(heap, current_level, size_bytes, iter, stable, L, map) => Contents = map

\* It is.
LEMMA ContentsIs == ContentsAre
<1> SUFFICES ASSUME NEW L, NEW map,
                    State(heap, current_level, size_bytes, iter, stable, L, map)
             PROVE  Contents = map
  BY DEF ContentsAre
<1>1. Stores(heap, L, Contents) /\ Stores(heap, L, map)
  BY ContentsStores DEF State
<1> QED BY <1>1, StoresOne

\* So it is after a step.
LEMMA ContentsNext == ContentsAre'
BY ContentsIs, PTL

\* The byte count is what the stored entries add up to (modulo 2^64), whatever the order
\* of the calls that added to it and subtracted from it.
THEOREM SizeHolds == Spec => []SizeExact
<1>1. Inv => SizeExact
  BY ContentsIs DEF Inv, ContentsAre, State, Counted, SizeExact
<1> QED BY <1>1, ShapeInvariant, PTL

\* From every node the bottom lane leads to every key the client expects above it.
LEMMA LeadsThere ==
  ASSUME NEW L, Shape(heap, current_level, L), NEW it, NEW st, Ahead(heap, it, st, L),
         NEW n \in DOMAIN heap \ {Sentinel}, NEW s \in st, KeyOf(heap, n) <= s
  PROVE  \E x \in Range(Chain(0, n, Nil)) : KeyOf(heap, x) = s
<1> DEFINE Finds(m) == \E x \in Range(Chain(0, m, Nil)) : KeyOf(heap, x) = s
           H == {m \in DOMAIN heap \ {Sentinel} : KeyOf(heap, m) <= s /\ ~Finds(m)}
<1>1. HeapType(heap) /\ Ascends(heap)
  BY DEF Shape
<1>2. SUFFICES ASSUME H # {} PROVE FALSE
  OBVIOUS
<1>3. PICK m \in H : \A i \in Level : Tall(heap, m, i) => Fwd(heap, m, i) \notin H
  <2>1. H \subseteq DOMAIN heap
    OBVIOUS
  <2> HIDE DEF H
  <2> QED BY <1>1, <1>2, <2>1, LastOne
<1>4. /\ m \in DOMAIN heap \ {Sentinel} /\ KeyOf(heap, m) <= s /\ ~Finds(m)
  OBVIOUS
<1>5. Tall(heap, m, 0) /\ 0 \in Level /\ m # Nil /\ KeyOf(heap, m) \in Nat
  BY <1>1, <1>4, NodeIs
<1>6. m \in Lane(0)
  BY <1>4, <1>5 DEF Lane, Tall
<1> DEFINE n2 == Fwd(heap, m, 0)
           rest == Chain(0, n2, Nil)
<1>7. Chain(0, m, Nil) = <<m>> \o rest
  BY <1>1, <1>5, <1>6, ChainIs
<1>8. n2 # Nil => n2 \in Lane(0) \ {Sentinel}
  BY <1>1, <1>5, <1>6, LaneIs
<1>9. rest \in Seq(DOMAIN heap \ {Sentinel})
  <2>1. CASE n2 = Nil
    <3>1. rest = << >>
      BY <1>1, <1>5, <2>1, ChainIs
    <3> HIDE DEF rest
    <3> QED BY <3>1
  <2>2. CASE n2 # Nil
    <3>1. Ascent(heap, 0, n2, rest)
      BY <1>1, <1>5, <1>8, <2>2, ChainAscends
    <3> QED BY <3>1 DEF Ascent
  <2> QED BY <2>1, <2>2
<1>10. Range(Chain(0, m, Nil)) = {m} \cup Range(rest)
  <2> DEFINE S == DOMAIN heap \ {Sentinel}
  <2>1. m \in S /\ rest \in Seq(S)
    BY <1>4, <1>9
  <2> HIDE DEF rest, S
  <2>2. Range(<<m>> \o rest) = {m} \cup Range(rest)
    BY <2>1, ConsIs
  <2> QED BY <1>7, <2>2
<1>11. KeyOf(heap, m) # s
  BY <1>4, <1>10
<1>12. s \in Nat
  <2>1. PICK x \in L : s = KeyOf(heap, x)
    BY DEF Ahead
  <2> QED BY <1>1, <2>1, NodeIs DEF Shape
<1>13. KeyOf(heap, m) < s
  BY <1>4, <1>5, <1>11, <1>12
<1>14. n2 \in DOMAIN heap \ {Sentinel} /\ KeyOf(heap, n2) <= s
  BY <1>4, <1>13, LeadsOn
<1>15. n2 \notin H
  BY <1>3, <1>5
<1>16. Finds(n2)
  BY <1>14, <1>15
<1> QED BY <1>4, <1>10, <1>16

\* An iterator kept across any changes to the list, even the removal of the node it
\* stands on, has every key ahead of it that was there all along, in order.
THEOREM IteratorHolds == Spec => []IteratorMissesNothing
<1>1. Inv => IteratorMissesNothing
  <2> SUFFICES ASSUME Inv PROVE IteratorMissesNothing
    OBVIOUS
  <2>1. PICK L, map : State(heap, current_level, size_bytes, iter, stable, L, map)
    BY DEF Inv
  <2>2. /\ Shape(heap, current_level, L) /\ HeapType(heap) /\ Ascends(heap)
        /\ Ahead(heap, iter, stable, L) /\ Sentinel \in DOMAIN heap
    BY <2>1 DEF State, Shape, HeapType
  <2>3. 0 \in Level
    BY <2>2, NodeIs
  <2> DEFINE ahead == Chain(0, iter, Nil)
  <2>4. CASE iter = Nil
    <3>1. ahead = << >> /\ stable = {}
      BY <2>2, <2>3, <2>4, ChainIs DEF Ahead
    <3> QED BY <3>1 DEF IteratorMissesNothing
  <2>5. CASE iter # Nil
    <3>1. iter \in DOMAIN heap \ {Sentinel} /\ \A s \in stable : KeyOf(heap, iter) <= s
      BY <2>2, <2>5 DEF Ahead
    <3>2. iter \in Lane(0) \ {Sentinel}
      BY <2>2, <3>1, NodeIs DEF Lane, Tall
    <3>3. Ascent(heap, 0, iter, ahead)
      BY <2>2, <2>3, <3>2, ChainAscends
    <3>4. \A s \in stable : \E x \in Range(ahead) : KeyOf(heap, x) = s
      BY <2>2, <3>1, LeadsThere
    <3> HIDE DEF ahead
    <3>5. \A a, b \in DOMAIN ahead : a < b => heap[ahead[a]].key < heap[ahead[b]].key
      BY <3>3 DEF Ascent, KeyOf
    <3>6. stable \subseteq {heap[n].key : n \in Range(ahead)}
      BY <3>4 DEF KeyOf
    <3> QED BY <3>5, <3>6 DEF IteratorMissesNothing, ahead
  <2> QED BY <2>4, <2>5
<1> QED BY <1>1, ShapeInvariant, PTL

\* A put leaves the value under the id of the entry that was there, or under its own.
LEMMA PutUnder ==
  ASSUME NEW map \in Map, NEW size, NEW k \in Key, NEW v \in Value, NEW t \in TrancId,
         NEW tbl, tbl = [map |-> map, bytes |-> size]
  PROVE  \E u \in TrancId :
           TablePut(tbl, k, v, t) = [TablePut(tbl, k, v, u) EXCEPT !.map[k].tranc_id = u]
<1>1. CASE map[k] = None
  <2>1. PICK m, b : m = [map EXCEPT ![k] = [value |-> v, tranc_id |-> t]]
                    /\ TablePut(tbl, k, v, t) = [map |-> m, bytes |-> b]
    BY <1>1 DEF TablePut
  <2>2. m[k] = [value |-> v, tranc_id |-> t] /\ m = [m EXCEPT ![k] = m[k]]
    BY <2>1 DEF Map
  <2>3. [m[k] EXCEPT !.tranc_id = t] = m[k]
    BY <2>2
  <2>4. [TablePut(tbl, k, v, t) EXCEPT !.map[k].tranc_id = t] = TablePut(tbl, k, v, t)
    BY <2>1, <2>2, <2>3
  <2> QED BY <2>4
<1>2. CASE map[k] # None
  <2>1. PICK u \in TrancId : u = map[k].tranc_id
    BY <1>2 DEF Map, Entry
  <2>2. PICK m, b : m = [map EXCEPT ![k] = [value |-> v, tranc_id |-> u]]
                    /\ TablePut(tbl, k, v, t) = [map |-> m, bytes |-> b]
                    /\ TablePut(tbl, k, v, u) = [map |-> m, bytes |-> b]
    BY <1>2, <2>1 DEF TablePut
  <2>3. m[k] = [value |-> v, tranc_id |-> u] /\ m = [m EXCEPT ![k] = m[k]]
    BY <2>2 DEF Map
  <2>4. [m[k] EXCEPT !.tranc_id = u] = m[k]
    BY <2>3
  <2>5. [TablePut(tbl, k, v, u) EXCEPT !.map[k].tranc_id = u] = TablePut(tbl, k, v, t)
    BY <2>2, <2>3, <2>4
  <2> QED BY <2>5
<1> QED BY <1>1, <1>2

\* A step of the list is a step of the map.
LEMMA StepRefines == Inv /\ [Next]_vars => [Abstract!Next]_([map |-> Contents, bytes |-> size_bytes])
<1> SUFFICES ASSUME Inv, [Next]_vars
             PROVE  [Abstract!Next]_([map |-> Contents, bytes |-> size_bytes])
  OBVIOUS
<1>1. PICK L, map : State(heap, current_level, size_bytes, iter, stable, L, map)
  BY DEF Inv
<1>2. Reached(map, size_bytes, heap', current_level', size_bytes', iter', stable')
  BY <1>1, StepReaches
<1>3. PICK L2, map2 :
        /\ State(heap', current_level', size_bytes', iter', stable', L2, map2)
        /\ Promised([map |-> map, bytes |-> size_bytes], [map |-> map2, bytes |-> size_bytes'])
  BY <1>2 DEF Reached
<1>4. Contents = map
  BY <1>1, ContentsIs DEF ContentsAre
<1>5. Contents' = map2
  BY <1>3, ContentsNext DEF ContentsAre
<1>6. Promised([map |-> Contents, bytes |-> size_bytes], [map |-> Contents', bytes |-> size_bytes'])
  BY <1>3, <1>4, <1>5
<1>7. Contents \in Map
  BY <1>1, <1>4 DEF State, Stores
<1> DEFINE tbl == [map |-> Contents, bytes |-> size_bytes]
           new == [map |-> Contents', bytes |-> size_bytes']
<1> HIDE DEF Contents
<1>8. CASE \E k \in Key, v \in Value, t \in TrancId : new = TablePut(tbl, k, v, t)
  <2>1. PICK k \in Key, v \in Value, t \in TrancId : new = TablePut(tbl, k, v, t)
    BY <1>8
  <2>2. PICK u \in TrancId : new = [TablePut(tbl, k, v, u) EXCEPT !.map[k].tranc_id = u]
    <3>1. PICK m, b, a : m \in Map /\ m = Contents /\ a = [map |-> m, bytes |-> b] /\ a = tbl
      BY <1>7
    <3>2. \E u \in TrancId :
            TablePut(a, k, v, t) = [TablePut(a, k, v, u) EXCEPT !.map[k].tranc_id = u]
      BY <3>1, PutUnder
    <3> QED BY <2>1, <3>1, <3>2
  <2>3. Abstract!TablePut(tbl, k, v, u) = TablePut(tbl, k, v, u)
    BY DEF TablePut, EntryBytes, Abstract!TablePut, Abstract!EntryBytes
  <2>4. Abstract!Put
    BY <2>2, <2>3 DEF Abstract!Put
  <2> QED BY <2>4 DEF Abstract!Next
<1>9. CASE \/ \E k \in Key : new = TableRemove(tbl, k)
           \/ new = EmptyTable
           \/ new = tbl
  BY <1>9 DEF Abstract!Next, Abstract!Remove, Abstract!Clear, TableRemove, EmptyTable,
              EntryBytes, Abstract!TableRemove, Abstract!EmptyTable, Abstract!EntryBytes
<1> QED BY <1>6, <1>8, <1>9 DEF Promised

\* The list implements the ordered map with a byte count that MemTable builds on.
THEOREM Refinement == Spec => ImplementsMap
<1>1. Init => Abstract!Init
  <2> SUFFICES ASSUME Init PROVE Abstract!Init
    OBVIOUS
  <2> DEFINE map == [k \in Key |-> None]
  <2>1. Shape(heap, current_level, {}) /\ size_bytes = 0
    BY InitIs DEF Init
  <2>2. Stores(heap, {}, Contents)
    BY <2>1, ContentsStores
  <2>3. Stores(heap, {}, map)
    BY DEF Stores, Map
  <2> HIDE DEF map
  <2>4. Contents = map
    BY <2>2, <2>3, StoresOne
  <2> QED BY <2>1, <2>4 DEF Abstract!Init, Abstract!EmptyTable, map
<1> QED BY <1>1, StepRefines, ShapeInvariant, PTL DEF Spec, ImplementsMap, Abstract!Spec
===============================================================================
