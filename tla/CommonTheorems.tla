---------------------------- MODULE CommonTheorems ----------------------------
(***************************************************************************)
(* What the proofs about several components need to know about the data    *)
(* that the model is built from: the least element of a set of numbers,    *)
(* sums over finite sets, which the folds of the community modules take in *)
(* an order of their own, counters that wrap, sequences that are joined,   *)
(* recursive functions whose calls come to an end, and the order in which  *)
(* a sorted container is walked.                                           *)
(***************************************************************************)
EXTENDS Ascending, FiniteSetsExt, SequencesExt, FiniteSetTheorems, SequenceTheorems,
        WellFoundedInduction, TLAPS

\* A set of naturals that is not empty has a least element.
LEMMA Least ==
  ASSUME NEW H \in SUBSET Nat, H # {}
  PROVE  \E i \in H : \A j \in H : i <= j
<1> DEFINE below == OpToRel(<, Nat)
<1>1. IsWellFoundedOn(below, Nat)
  BY NatLessThanWellFounded
<1>2. \A i, j \in Nat : <<j, i>> \in below <=> j < i
  BY DEF OpToRel
<1> HIDE DEF below
<1>3. PICK i \in H : \A j \in H : ~(<<j, i>> \in below)
  BY <1>1, WFMin
<1>4. ASSUME NEW j \in H PROVE i <= j
  <2>1. ~(j < i)
    BY <1>2, <1>3
  <2> QED BY <2>1
<1> QED BY <1>4

-----------------------------------------------------------------------------
(* Sums.                                                                   *)

\* The element that a fold takes first.
Pick(s) == CHOOSE x \in s : TRUE

\* g maps each subset of S to the sum of f over it, element by element.
IsSum(f, S, g) ==
  g = [s \in SUBSET S |-> IF s = {} THEN 0 ELSE f[Pick(s)] + g[s \ {Pick(s)}]]

\* A set of finite sets that is not empty has one with the fewest elements.
LEMMA Smallest ==
  ASSUME NEW H, H # {}, \A s \in H : IsFiniteSet(s)
  PROVE  \E s \in H : \A r \in H : Cardinality(s) <= Cardinality(r)
<1> DEFINE N == {Cardinality(s) : s \in H}
<1>1. N \in SUBSET Nat /\ N # {}
  BY FS_CardinalityType
<1>2. PICK n \in N : \A m \in N : n <= m
  BY <1>1, Least
<1> QED BY <1>2

\* Without one of its elements a finite set is smaller.
LEMMA Smaller ==
  ASSUME NEW s, IsFiniteSet(s), NEW x \in s
  PROVE  /\ IsFiniteSet(s \ {x})
         /\ Cardinality(s \ {x}) = Cardinality(s) - 1
         /\ Cardinality(s) \in Nat
         /\ ~(Cardinality(s) <= Cardinality(s \ {x}))
<1>1. IsFiniteSet(s \ {x}) /\ Cardinality(s \ {x}) = Cardinality(s) - 1
  BY FS_RemoveElement
<1>2. Cardinality(s) \in Nat
  BY FS_CardinalityType
<1> QED BY <1>1, <1>2

\* The first element of a set is one of its elements.
LEMMA PickIn == ASSUME NEW s, s # {} PROVE Pick(s) \in s
  BY DEF Pick

\* The sum is determined by the numbers that are added up.
LEMMA SumUnique ==
  ASSUME NEW f, NEW S, NEW g, IsSum(f, S, g),
         NEW e, NEW R, NEW h, IsSum(e, R, h),
         NEW T, IsFiniteSet(T), T \subseteq S, T \subseteq R,
         \A x \in T : f[x] = e[x]
  PROVE  g[T] = h[T]
<1> DEFINE H == {s \in SUBSET T : g[s] # h[s]}
<1>1. SUFFICES ASSUME H # {} PROVE FALSE
  OBVIOUS
<1>2. \A s \in H : IsFiniteSet(s)
  BY FS_Subset
<1>3. PICK s \in H : \A r \in H : Cardinality(s) <= Cardinality(r)
  BY <1>1, <1>2, Smallest
<1>4. s \in SUBSET S /\ s \in SUBSET R /\ s \in SUBSET T
  OBVIOUS
<1>5. g[s] = IF s = {} THEN 0 ELSE f[Pick(s)] + g[s \ {Pick(s)}]
  BY <1>4 DEF IsSum
<1>6. h[s] = IF s = {} THEN 0 ELSE e[Pick(s)] + h[s \ {Pick(s)}]
  BY <1>4 DEF IsSum
<1>7. s # {}
  BY <1>5, <1>6
<1>8. Pick(s) \in s
  BY <1>7, PickIn
<1>9. s \ {Pick(s)} \notin H
  BY <1>2, <1>3, <1>8, Smaller
<1>10. g[s \ {Pick(s)}] = h[s \ {Pick(s)}]
  BY <1>4, <1>9
<1> QED BY <1>4, <1>5, <1>6, <1>7, <1>8, <1>10

\* A sum of integers is an integer.
LEMMA SumType ==
  ASSUME NEW f, NEW S, NEW g, IsSum(f, S, g), IsFiniteSet(S), \A x \in S : f[x] \in Int,
         NEW T \in SUBSET S
  PROVE  g[T] \in Int
<1> DEFINE H == {s \in SUBSET S : g[s] \notin Int}
<1>1. SUFFICES ASSUME H # {} PROVE FALSE
  OBVIOUS
<1>2. \A s \in H : IsFiniteSet(s)
  BY FS_Subset
<1>3. PICK s \in H : \A r \in H : Cardinality(s) <= Cardinality(r)
  BY <1>1, <1>2, Smallest
<1>4. s \in SUBSET S
  OBVIOUS
<1>5. g[s] = IF s = {} THEN 0 ELSE f[Pick(s)] + g[s \ {Pick(s)}]
  BY <1>4 DEF IsSum
<1>7. s # {}
  BY <1>5
<1>8. Pick(s) \in s
  BY <1>7, PickIn
<1>9. s \ {Pick(s)} \notin H
  BY <1>2, <1>3, <1>8, Smaller
<1>10. g[s \ {Pick(s)}] \in Int
  BY <1>4, <1>9
<1> QED BY <1>4, <1>5, <1>7, <1>8, <1>10

\* Any element may be the last one that is added.
LEMMA SumSplit ==
  ASSUME NEW f, NEW S, NEW g, IsSum(f, S, g), IsFiniteSet(S), \A x \in S : f[x] \in Int,
         NEW T \in SUBSET S, NEW x \in T
  PROVE  g[T] = f[x] + g[T \ {x}]
<1> DEFINE H == {s \in SUBSET S : \E y \in s : g[s] # f[y] + g[s \ {y}]}
<1>1. SUFFICES ASSUME H # {} PROVE FALSE
  OBVIOUS
<1>2. \A s \in H : IsFiniteSet(s)
  BY FS_Subset
<1>3. PICK s \in H : \A r \in H : Cardinality(s) <= Cardinality(r)
  BY <1>1, <1>2, Smallest
<1>4. s \in SUBSET S
  OBVIOUS
<1>5. PICK y \in s : g[s] # f[y] + g[s \ {y}]
  OBVIOUS
<1> DEFINE p == Pick(s)
           r == s \ {p}
<1>6. p \in s
  BY <1>5, PickIn
<1>7. g[s] = f[p] + g[r]
  BY <1>4, <1>6 DEF IsSum
<1>8. r \notin H /\ r \in SUBSET S
  BY <1>2, <1>3, <1>4, <1>6, Smaller
<1>9. y # p
  BY <1>5, <1>7
<1> HIDE DEF p
<1>10. g[r] = f[y] + g[r \ {y}]
  BY <1>8, <1>9
<1>11. s \ {y} \in SUBSET S /\ p \in s \ {y}
  BY <1>4, <1>6, <1>9
<1>12. s \ {y} \notin H
  BY <1>2, <1>3, Smaller
<1>13. g[s \ {y}] = f[p] + g[(s \ {y}) \ {p}]
  BY <1>11, <1>12
<1>14. (s \ {y}) \ {p} = r \ {y}
  OBVIOUS
<1>15. r \ {y} \in SUBSET S
  BY <1>4
<1>16. f[p] \in Int /\ f[y] \in Int /\ g[r \ {y}] \in Int
  BY <1>4, <1>6, <1>15, SumType
<1>17. g[s] = f[p] + (f[y] + g[r \ {y}]) /\ g[s \ {y}] = f[p] + g[r \ {y}]
  BY <1>7, <1>10, <1>13, <1>14
<1>18. ASSUME NEW a \in Int, NEW b \in Int, NEW c \in Int PROVE a + (b + c) = b + (a + c)
  OBVIOUS
<1>19. f[p] + (f[y] + g[r \ {y}]) = f[y] + (f[p] + g[r \ {y}])
  BY <1>16, <1>18
<1> QED BY <1>5, <1>17, <1>19

\* Every finite set of integers has a sum.
LEMMA SumExists ==
  ASSUME NEW f, NEW S, IsFiniteSet(S), \A x \in S : f[x] \in Int
  PROVE  \E g : IsSum(f, S, g)
<1> DEFINE Sets(n) == {s \in SUBSET S : Cardinality(s) <= n}
           Up(n, g) == g = [s \in Sets(n) |->
                              IF s = {} THEN 0 ELSE f[Pick(s)] + g[s \ {Pick(s)}]]
           H == {n \in Nat : ~\E g : Up(n, g)}
<1>1. \A s \in SUBSET S : IsFiniteSet(s) /\ Cardinality(s) \in Nat
                          /\ Cardinality(s) <= Cardinality(S)
  BY FS_Subset, FS_CardinalityType
<1>2. Cardinality(S) \in Nat
  BY FS_CardinalityType
<1>3. H = {}
  <2>1. SUFFICES ASSUME H # {} PROVE FALSE
    OBVIOUS
  <2>2. PICK n \in H : \A m \in H : n <= m
    <3>1. H \in SUBSET Nat
      OBVIOUS
    <3> HIDE DEF H
    <3> QED BY <2>1, <3>1, Least
  <2>3. n \in Nat /\ ~\E g : Up(n, g)
    OBVIOUS
  <2>4. CASE n = 0
    <3> DEFINE g == [s \in {{}} |-> 0]
    <3>1. Sets(0) = {{}}
      <4>1. {} \in Sets(0)
        BY FS_EmptySet
      <4>2. \A s \in Sets(0) : s = {}
        BY <1>1, FS_EmptySet
      <4> QED BY <4>1, <4>2
    <3>2. Up(0, g)
      <4> HIDE DEF Sets
      <4>1. [s \in Sets(0) |-> IF s = {} THEN 0 ELSE f[Pick(s)] + g[s \ {Pick(s)}]] =
              [s \in {{}} |-> 0]
        BY <3>1
      <4> QED BY <4>1
    <3> QED BY <2>3, <2>4, <3>2
  <2>5. CASE n # 0
    <3> DEFINE m == n - 1
    <3>1. m \in Nat /\ m < n
      BY <2>3, <2>5
    <3>2. m \notin H
      <4> HIDE DEF H, m
      <4> QED BY <2>2, <2>3, <3>1
    <3>3. PICK g : Up(m, g)
      BY <3>1, <3>2
    <3> DEFINE h == [s \in Sets(n) |->
                       IF s = {} THEN 0 ELSE f[Pick(s)] + g[s \ {Pick(s)}]]
    <3>4. ASSUME NEW s \in Sets(n) PROVE s # {} => h[s \ {Pick(s)}] = g[s \ {Pick(s)}]
      <4> SUFFICES ASSUME s # {} PROVE h[s \ {Pick(s)}] = g[s \ {Pick(s)}]
        OBVIOUS
      <4> DEFINE r == s \ {Pick(s)}
      <4>1. Cardinality(r) = Cardinality(s) - 1 /\ Cardinality(s) \in Nat
        BY <1>1, PickIn, Smaller
      <4>2. r \in SUBSET S /\ Cardinality(r) <= m /\ Cardinality(r) <= n
        BY <2>3, <4>1
      <4>3. r \in Sets(m) /\ r \in Sets(n)
        BY <4>2
      <4> HIDE DEF r, Sets, m
      <4>4. g[r] = IF r = {} THEN 0 ELSE f[Pick(r)] + g[r \ {Pick(r)}]
        BY <3>3, <4>3
      <4>5. h[r] = IF r = {} THEN 0 ELSE f[Pick(r)] + g[r \ {Pick(r)}]
        BY <4>3
      <4> QED BY <4>4, <4>5 DEF r
    <3>5. Up(n, h)
      <4> HIDE DEF Sets
      <4>1. \A s \in Sets(n) :
              (IF s = {} THEN 0 ELSE f[Pick(s)] + g[s \ {Pick(s)}]) =
              (IF s = {} THEN 0 ELSE f[Pick(s)] + h[s \ {Pick(s)}])
        BY <3>4
      <4> DEFINE h2 == [s \in Sets(n) |->
                       IF s = {} THEN 0 ELSE f[Pick(s)] + h[s \ {Pick(s)}]]
      <4>2. h = h2
        BY <4>1
      <4> QED BY <4>2
    <3> QED BY <2>3, <3>5
  <2> QED BY <2>4, <2>5
<1>4. PICK g : Up(Cardinality(S), g)
  BY <1>2, <1>3
<1>5. Sets(Cardinality(S)) = SUBSET S
  BY <1>1
<1> HIDE DEF Sets
<1> QED BY <1>4, <1>5 DEF IsSum

\* A fold over a set by a function.
SumOver(f, S) == MapThenSumSet(LAMBDA x : f[x], S)

\* It is the sum.
LEMMA SumOverIs ==
  ASSUME NEW f, NEW S, IsFiniteSet(S), \A x \in S : f[x] \in Int
  PROVE  \E g : IsSum(f, S, g) /\ SumOver(f, S) = g[S]
<1> DEFINE R(g) == g = [s \in SUBSET S |->
             IF s = {} THEN 0 ELSE f[CHOOSE x \in s : TRUE] + g[s \ {CHOOSE x \in s : TRUE}]]
           i == CHOOSE g : R(g)
<1>1. \E g : R(g)
  <2>1. PICK g : IsSum(f, S, g)
    BY SumExists
  <2>2. R(g)
    BY <2>1 DEF IsSum, Pick
  <2> HIDE DEF R
  <2> QED BY <2>2
<1>2. R(i)
  <2> HIDE DEF R
  <2> QED BY <1>1
<1>3. IsSum(f, S, i)
  BY <1>2 DEF IsSum, Pick
<1>4. SumOver(f, S) = i[S]
  BY DEF SumOver, MapThenSumSet, MapThenFoldSet
<1> QED BY <1>3, <1>4

\* Nothing sums up to nothing.
LEMMA SumOverEmpty ==
  ASSUME NEW f
  PROVE  SumOver(f, {}) = 0
<1>1. IsFiniteSet({}) /\ \A x \in {} : f[x] \in Int
  BY FS_EmptySet
<1>2. PICK g : IsSum(f, {}, g) /\ SumOver(f, {}) = g[{}]
  BY <1>1, SumOverIs
<1>3. {} \in SUBSET {}
  OBVIOUS
<1>4. g[{}] = 0
  BY <1>2, <1>3 DEF IsSum
<1> QED BY <1>2, <1>4

\* Equal numbers have equal sums.
LEMMA SumOverSame ==
  ASSUME NEW f, NEW e, NEW S, IsFiniteSet(S), \A x \in S : f[x] \in Int /\ f[x] = e[x]
  PROVE  SumOver(f, S) = SumOver(e, S)
<1>1. PICK g : IsSum(f, S, g) /\ SumOver(f, S) = g[S]
  BY SumOverIs
<1>2. PICK h : IsSum(e, S, h) /\ SumOver(e, S) = h[S]
  BY SumOverIs
<1> QED BY <1>1, <1>2, SumUnique

\* A sum is an integer, and any element may be set apart.
LEMMA SumOverSplit ==
  ASSUME NEW f, NEW S, IsFiniteSet(S), \A x \in S : f[x] \in Int, NEW x \in S
  PROVE  /\ SumOver(f, S \ {x}) \in Int
         /\ SumOver(f, S) = f[x] + SumOver(f, S \ {x})
<1> DEFINE R == S \ {x}
<1>1. PICK g : IsSum(f, S, g) /\ SumOver(f, S) = g[S]
  BY SumOverIs
<1>2. IsFiniteSet(R) /\ \A y \in R : f[y] \in Int
  BY FS_RemoveElement
<1>3. PICK h : IsSum(f, R, h) /\ SumOver(f, R) = h[R]
  BY <1>2, SumOverIs
<1>4. g[R] = h[R]
  BY <1>1, <1>2, <1>3, SumUnique
<1>5. g[S] = f[x] + g[R]
  BY <1>1, SumSplit
<1>6. h[R] \in Int
  BY <1>2, <1>3, SumType
<1> QED BY <1>1, <1>3, <1>4, <1>5, <1>6

-----------------------------------------------------------------------------
(* Sequences and their sums.                                               *)

\* A sequence over a set is one over every larger set.
LEMMA SeqWider ==
  ASSUME NEW S, NEW T, S \subseteq T, NEW s \in Seq(S)
  PROVE  s \in Seq(T)
  OBVIOUS

\* A sequence of one.
LEMMA One == ASSUME NEW S, NEW x \in S PROVE <<x>> \in Seq(S) /\ Range(<<x>>) = {x}
<1>1. <<x>> \in Seq(S)
  OBVIOUS
<1>2. Range(<<x>>) = {x}
  BY DEF Range
<1> QED BY <1>1, <1>2

\* A sequence is what comes before its last element, and that element.
LEMMA SplitLast ==
  ASSUME NEW S, NEW f \in Seq(S), f # << >>
  PROVE  /\ SubSeq(f, 1, Len(f) - 1) \in Seq(S)
         /\ Len(SubSeq(f, 1, Len(f) - 1)) = Len(f) - 1
         /\ f[Len(f)] \in S
         /\ f = SubSeq(f, 1, Len(f) - 1) \o <<f[Len(f)]>>
<1> DEFINE n == Len(f)
           rest == SubSeq(f, 1, n - 1)
<1>1. n \in Nat /\ n # 0 /\ n = Len(f)
  OBVIOUS
<1>2. f[n] \in S
  BY <1>1
<1>3. /\ rest \in Seq(S) /\ Len(rest) = n - 1
      /\ \A i \in 1 .. n - 1 : rest[i] = f[i]
  <2> HIDE DEF n
  <2> QED BY <1>1
<1> HIDE DEF n, rest
<1>4. Len(rest \o <<f[n]>>) = Len(f)
  BY <1>1, <1>2, <1>3
<1>5. \A i \in 1 .. Len(f) : (rest \o <<f[n]>>)[i] = f[i]
  BY <1>1, <1>2, <1>3
<1>6. f = rest \o <<f[n]>>
  BY <1>2, <1>3, <1>4, <1>5, SeqEqual
<1> QED BY <1>2, <1>3, <1>6 DEF n, rest

SeqSum(s) == SumOver(s, DOMAIN s)

\* The sum of a sequence with one number more at the back.
LEMMA SeqSumBack ==
  ASSUME NEW s \in Seq(Int), NEW x \in Int
  PROVE  SeqSum(s) \in Int /\ SeqSum(s \o <<x>>) = SeqSum(s) + x
<1> DEFINE o == s \o <<x>>
           n == Len(s) + 1
<1>1. /\ n \in Nat /\ DOMAIN s = 1 .. n - 1 /\ DOMAIN o = 1 .. n
      /\ o[n] = x /\ \A i \in 1 .. n - 1 : o[i] = s[i] /\ s[i] \in Int
      /\ \A i \in 1 .. n : o[i] \in Int
  OBVIOUS
<1> HIDE DEF o, n
<1>2. IsFiniteSet(1 .. n) /\ IsFiniteSet(1 .. n - 1)
  BY <1>1, FS_Interval
<1>3. n \in 1 .. n /\ (1 .. n) \ {n} = 1 .. n - 1
  <2>1. n # 0
    BY DEF n
  <2> QED BY <1>1, <2>1
<1>4. /\ SumOver(o, 1 .. n - 1) \in Int
      /\ SumOver(o, 1 .. n) = o[n] + SumOver(o, 1 .. n - 1)
  <2> DEFINE D == 1 .. n
  <2>1. IsFiniteSet(D) /\ (\A i \in D : o[i] \in Int) /\ n \in D
    BY <1>1, <1>2, <1>3
  <2> HIDE DEF D
  <2>2. SumOver(o, D \ {n}) \in Int /\ SumOver(o, D) = o[n] + SumOver(o, D \ {n})
    BY <2>1, SumOverSplit
  <2> QED BY <1>3, <2>2 DEF D
<1>5. SumOver(o, 1 .. n - 1) = SumOver(s, 1 .. n - 1)
  BY <1>1, <1>2, SumOverSame
<1> QED BY <1>1, <1>4, <1>5 DEF SeqSum, o

\* and in front.
LEMMA SeqSumFront ==
  ASSUME NEW x \in Int, NEW s \in Seq(Int)
  PROVE  SeqSum(<<x>> \o s) = x + SeqSum(s)
<1> DEFINE P(r) == SeqSum(<<x>> \o r) = x + SeqSum(r)
           H == {n \in Nat : \E r \in Seq(Int) : Len(r) = n /\ ~P(r)}
<1>1. SUFFICES ASSUME H # {} PROVE FALSE
  <2>1. Len(s) \in Nat
    OBVIOUS
  <2>2. CASE H = {}
    <3> HIDE DEF P
    <3>1. P(s)
      BY <2>1, <2>2
    <3> QED BY <3>1 DEF P
  <2> QED BY <2>2
<1>2. PICK n \in H : \A m \in H : n <= m
  <2>1. H \in SUBSET Nat
    OBVIOUS
  <2> HIDE DEF H
  <2> QED BY <1>1, <2>1, Least
<1> HIDE DEF P
<1>3. n \in Nat
  OBVIOUS
<1>4. PICK r \in Seq(Int) : Len(r) = n /\ ~P(r)
  OBVIOUS
<1>5. CASE r = << >>
  <2> DEFINE e == << >>
  <2>1. e \in Seq(Int) /\ DOMAIN e = {} /\ e \o <<x>> = <<x>> /\ <<x>> \o e = <<x>>
    OBVIOUS
  <2>2. r = e
    BY <1>5
  <2> HIDE DEF e
  <2>3. SeqSum(e) = 0
    BY <2>1, SumOverEmpty DEF SeqSum
  <2>4. SeqSum(<<x>>) = 0 + x
    BY <2>1, <2>3, SeqSumBack
  <2> QED BY <1>4, <2>1, <2>2, <2>3, <2>4 DEF P
<1>6. CASE r # << >>
  <2> DEFINE front == SubSeq(r, 1, Len(r) - 1)
             y == r[Len(r)]
  <2>1. front \in Seq(Int) /\ y \in Int /\ r = front \o <<y>> /\ Len(front) = n - 1
    BY <1>4, <1>6, SplitLast
  <2> HIDE DEF front, y
  <2>2. n # 0
    BY <1>4, <1>6
  <2>3. P(front)
    <3>1. n - 1 \in Nat /\ ~(n <= n - 1)
      BY <1>3, <2>2
    <3>2. n - 1 \notin H
      <4> HIDE DEF H
      <4> QED BY <1>2, <3>1
    <3> QED BY <2>1, <3>1, <3>2
  <2> DEFINE xf == <<x>> \o front
  <2>4. <<x>> \o r = xf \o <<y>> /\ xf \in Seq(Int)
    <3>1. (<<x>> \o front) \o <<y>> = <<x>> \o (front \o <<y>>)
      BY <2>1
    <3>2. <<x>> \o front \in Seq(Int)
      BY <2>1
    <3> QED BY <2>1, <3>1, <3>2
  <2> HIDE DEF xf
  <2>5. SeqSum(xf \o <<y>>) = SeqSum(xf) + y
    BY <2>1, <2>4, SeqSumBack
  <2>6. SeqSum(r) = SeqSum(front) + y /\ SeqSum(front) \in Int
    BY <2>1, SeqSumBack
  <2>7. SeqSum(xf) = x + SeqSum(front)
    BY <2>3 DEF P, xf
  <2>8. (x + SeqSum(front)) + y = x + (SeqSum(front) + y)
    BY <2>1, <2>6
  <2> QED BY <1>4, <2>4, <2>5, <2>6, <2>7, <2>8 DEF P
<1> QED BY <1>5, <1>6

-----------------------------------------------------------------------------
(* Counters that wrap.                                                     *)

\* Division with remainder.
LEMMA ModDef ==
  ASSUME NEW a \in Int, NEW m \in Nat \ {0}
  PROVE  /\ a % m \in Int /\ a \div m \in Int
         /\ a = m * (a \div m) + (a % m)
         /\ 0 <= a % m /\ a % m < m
  OBVIOUS

\* A positive multiple of m is no less than m.
LEMMA MulBig ==
  ASSUME NEW m \in Nat \ {0}, NEW d \in Int, d >= 1
  PROVE  m * d >= m
<1>1. m * d = m + m * (d - 1)
  OBVIOUS
<1>2. d - 1 \in Nat
  OBVIOUS
<1>3. m * (d - 1) >= 0
  BY <1>2
<1> QED BY <1>1, <1>3

\* Division is monotonic.
LEMMA DivUp ==
  ASSUME NEW a \in Int, NEW b \in Int, a <= b, NEW m \in Nat \ {0}
  PROVE  a \div m <= b \div m
<1> DEFINE p == a \div m
           q == b \div m
<1>1. p \in Int /\ a = m * p + (a % m) /\ a % m \in Int /\ 0 <= a % m
  BY ModDef
<1>2. q \in Int /\ b = m * q + (b % m) /\ b % m \in Int /\ b % m < m
  BY ModDef
<1> HIDE DEF p, q
<1>3. ASSUME p > q PROVE FALSE
  <2>1. p - q \in Int /\ p - q >= 1
    BY <1>1, <1>2, <1>3
  <2>2. m * (p - q) >= m
    BY <2>1, MulBig
  <2>3. m * (p - q) = m * p - m * q
    BY <1>1, <1>2
  <2>4. PICK x \in Int, y \in Int : x = m * p /\ y = m * q
    BY <1>1, <1>2
  <2> QED BY <1>1, <1>2, <2>2, <2>3, <2>4
<1>4. p <= q
  BY <1>1, <1>2, <1>3
<1> QED BY <1>4 DEF p, q

\* One divisor more is one more.
LEMMA DivNext ==
  ASSUME NEW a \in Int, NEW m \in Nat \ {0}
  PROVE  (a + m) \div m = a \div m + 1
<1>1. PICK p \in Int, r \in Int : p = a \div m /\ r = a % m /\ a = m * p + r /\ 0 <= r /\ r < m
  BY ModDef
<1>2. PICK q \in Int, t \in Int :
        q = (a + m) \div m /\ t = (a + m) % m /\ a + m = m * q + t /\ 0 <= t /\ t < m
  <2>1. a + m \in Int
    OBVIOUS
  <2>2. PICK c \in Int : c = a + m
    BY <2>1
  <2>3. /\ c % m \in Int /\ c \div m \in Int /\ c = m * (c \div m) + (c % m)
        /\ 0 <= c % m /\ c % m < m
    BY ModDef
  <2> QED BY <2>2, <2>3
<1>3. PICK x \in Int, y \in Int : x = m * p /\ y = m * q
  OBVIOUS
<1>4. ASSUME q >= p + 2 PROVE FALSE
  <2>1. m * (q - p - 1) >= m
    BY <1>4, MulBig
  <2>2. m * (q - p - 1) = m * q - m * p - m
    OBVIOUS
  <2> QED BY <1>1, <1>2, <1>3, <2>1, <2>2
<1>5. ASSUME q <= p PROVE FALSE
  <2>1. m * (p + 1 - q) >= m
    BY <1>5, MulBig
  <2>2. m * (p + 1 - q) = m * p + m - m * q
    OBVIOUS
  <2> QED BY <1>1, <1>2, <1>3, <2>1, <2>2
<1>6. q = p + 1
  BY <1>4, <1>5
<1> QED BY <1>1, <1>2, <1>6

\* The remainder is unique.
LEMMA ModUnique ==
  ASSUME NEW m \in Nat \ {0}, NEW p \in Int, NEW q \in Int, NEW r \in Int, NEW s \in Int,
         m * p + r = m * q + s, 0 <= r, r < m, 0 <= s, s < m
  PROVE  r = s
<1>1. m * (p - q) = s - r
  OBVIOUS
<1>2. m * (q - p) = r - s
  OBVIOUS
<1>3. CASE p - q >= 1
  <2>1. m * (p - q) >= m
    BY <1>3, MulBig
  <2> QED BY <1>1, <2>1
<1>4. CASE q - p >= 1
  <2>1. m * (q - p) >= m
    BY <1>4, MulBig
  <2> QED BY <1>2, <2>1
<1>5. CASE p = q
  BY <1>5
<1> QED BY <1>3, <1>4, <1>5

\* A counter that wraps at every step ends where one that wraps once ends.
LEMMA ModAdd ==
  ASSUME NEW m \in Nat \ {0}, NEW a \in Int, NEW b \in Int
  PROVE  ((a % m) + b) % m = (a + b) % m
<1> DEFINE c == (a % m) + b
           x == a \div m
           y == c \div m
           z == (a + b) \div m
<1>1. /\ a % m \in Int /\ x \in Int /\ a = m * x + (a % m)
  BY ModDef
<1>2. /\ c \in Int /\ c % m \in Int /\ y \in Int /\ c = m * y + (c % m)
      /\ 0 <= c % m /\ c % m < m
  BY <1>1, ModDef
<1>3. /\ (a + b) % m \in Int /\ z \in Int /\ a + b = m * z + ((a + b) % m)
      /\ 0 <= (a + b) % m /\ (a + b) % m < m
  <2>1. a + b \in Int
    OBVIOUS
  <2> QED BY <2>1, ModDef
<1>4. a + b = m * x + c
  BY <1>1
<1>5. m * x + m * y = m * (x + y)
  BY <1>1, <1>2
<1>6. a + b = m * (x + y) + (c % m)
  <2> HIDE DEF c, x, y
  <2>1. m * x \in Int /\ m * y \in Int
    BY <1>1, <1>2
  <2> QED BY <1>2, <1>4, <1>5, <2>1
<1> HIDE DEF x, y, z
<1>7. m * (x + y) + (c % m) = m * z + ((a + b) % m)
  BY <1>3, <1>6
<1>8. x + y \in Int
  BY <1>1, <1>2
<1> HIDE DEF c
<1>9. c % m = (a + b) % m
  <2> DEFINE r == c % m
             s == (a + b) % m
             p == x + y
  <2>1. /\ m * p + r = m * z + s /\ p \in Int /\ r \in Int /\ s \in Int /\ z \in Int
        /\ 0 <= r /\ r < m /\ 0 <= s /\ s < m
    BY <1>2, <1>3, <1>7, <1>8
  <2> HIDE DEF r, s, p
  <2>2. r = s
    BY <2>1, ModUnique
  <2> QED BY <2>2 DEF r, s
<1> QED BY <1>9 DEF c

-----------------------------------------------------------------------------
(* Induction over the length of a sequence, and joining sequences.         *)

\* Three sequences joined in either order.
JoinsAlike(x, y, z) == (x \o y) \o z = x \o (y \o z)

\* Joining sequences is associative.
LEMMA Joined ==
  ASSUME NEW T, NEW x \in Seq(T), NEW y \in Seq(T), NEW z \in Seq(T)
  PROVE  JoinsAlike(x, y, z)
  BY ConcatAssociative DEF JoinsAlike

\* A set of sequences that holds the empty one, and with a sequence every longer
\* one by an element, holds all.
LEMMA SeqInd ==
  ASSUME NEW S, NEW H, << >> \in H, \A s \in Seq(S) : \A x \in S : s \in H => s \o <<x>> \in H
  PROVE  \A s \in Seq(S) : s \in H
  <1> DEFINE B == {n \in Nat : \E s \in Seq(S) : Len(s) = n /\ s \notin H}
  <1> SUFFICES ASSUME NEW r \in Seq(S), r \notin H PROVE FALSE
    OBVIOUS
  <1>1. Len(r) \in B
    OBVIOUS
  <1> HIDE DEF B
  <1>2. B \in SUBSET Nat /\ B # {}
    BY <1>1 DEF B
  <1>3. PICK n \in B : \A j \in B : n <= j
    BY <1>2, Least
  <1>4. PICK s \in Seq(S) : Len(s) = n /\ s \notin H
    BY <1>3 DEF B
  <1>5. s # << >>
    BY <1>4
  <1> DEFINE q == SubSeq(s, 1, Len(s) - 1)
             x == s[Len(s)]
  <1>6. q \in Seq(S) /\ Len(q) = n - 1 /\ x \in S /\ s = q \o <<x>>
    BY <1>4, <1>5, SplitLast
  <1> HIDE DEF q, x
  <1>7. n \in Nat /\ n - 1 \in Nat
    BY <1>2, <1>6, LenProperties
  <1>8. n - 1 \notin B
    BY <1>3, <1>7
  <1>9. q \in H
    BY <1>6, <1>7, <1>8 DEF B
  <1> QED
    BY <1>4, <1>6, <1>9

\* A set of naturals that holds 0, and with a number the next one, holds all.
LEMMA NatInd ==
  ASSUME NEW H, 0 \in H, \A n \in Nat : n \in H => n + 1 \in H
  PROVE  \A n \in Nat : n \in H
  <1> DEFINE B == {n \in Nat : n \notin H}
  <1> SUFFICES ASSUME B # {} PROVE FALSE
    OBVIOUS
  <1>1. PICK n \in B : \A j \in B : n <= j
    <2> B \in SUBSET Nat
      OBVIOUS
    <2> HIDE DEF B
    <2> QED
      BY Least
  <1>2. n # 0 /\ n - 1 \in Nat
    OBVIOUS
  <1>3. n - 1 \in H
    BY <1>1, <1>2
  <1> QED
    BY <1>2, <1>3

-----------------------------------------------------------------------------
(* Sequences of sequences.                                                 *)

\* g maps each number of sequences of s to these put together.
JoinStep(s, g, i) == IF i = 1 THEN s[i] ELSE g[i - 1] \o s[i]

Joins(s, n, g) == g = [i \in 1 .. n |-> JoinStep(s, g, i)]

\* Two functions have the same first n values.
Same(s, t, n) == \A i \in 1 .. n : s[i] = t[i]

\* There is such a function.
LEMMA JoinsExist == ASSUME NEW s PROVE \A n \in Nat : \E g : Joins(s, n, g)
  <1> DEFINE H == {n \in Nat : \E g : Joins(s, n, g)}
  <1>1. 0 \in H
    <2> DEFINE g == [i \in 1 .. 0 |-> s[i]]
    <2> g = [i \in 1 .. 0 |-> JoinStep(s, g, i)]
      OBVIOUS
    <2> HIDE DEF g
    <2> QED
      BY DEF Joins
  <1>2. ASSUME NEW n \in Nat, n \in H PROVE n + 1 \in H
    <2>1. PICK g : g = [i \in 1 .. n |-> JoinStep(s, g, i)]
      BY <1>2 DEF Joins
    <2> DEFINE h == [i \in 1 .. n + 1 |-> JoinStep(s, g, i)]
    <2>2. \A i \in 1 .. n : h[i] = g[i]
      <3> TAKE i \in 1 .. n
      <3>1. h[i] = JoinStep(s, g, i)
        OBVIOUS
      <3>2. g[i] = JoinStep(s, g, i)
        BY <2>1
      <3> QED
        BY <3>1, <3>2
    <2>3. h = [i \in 1 .. n + 1 |-> JoinStep(s, h, i)]
      <3>1. ASSUME NEW i \in 1 .. n + 1 PROVE JoinStep(s, g, i) = JoinStep(s, h, i)
        <4> HIDE DEF h
        <4> i # 1 => i - 1 \in 1 .. n
          OBVIOUS
        <4> i # 1 => h[i - 1] = g[i - 1]
          BY <2>2
        <4> QED
          BY DEF JoinStep
      <3> QED
        BY <3>1
    <2> HIDE DEF h
    <2>4. \E f : Joins(s, n + 1, f)
      BY <2>3 DEF Joins
    <2> QED
      BY <2>4
  <1> HIDE DEF H
  <1>3. \A n \in Nat : n \in H
    BY <1>1, <1>2, NatInd
  <1> QED
    BY <1>3 DEF H

\* It is determined by the sequences it puts together.
LEMMA JoinsAgree ==
  ASSUME NEW s, NEW t, NEW m \in Nat, NEW n \in Nat, NEW g, NEW h,
         Joins(s, m, g), Joins(t, n, h),
         NEW k \in Nat, k <= m, k <= n, Same(s, t, k)
  PROVE  Same(g, h, k)
  <1> DEFINE H == {j \in Nat : j \in 1 .. k => g[j] = h[j]}
  <1>0. ASSUME NEW i \in 1 .. k
        PROVE  g[i] = JoinStep(s, g, i) /\ h[i] = JoinStep(t, h, i)
    <2> i \in 1 .. m /\ i \in 1 .. n
      OBVIOUS
    <2> g[i] = JoinStep(s, g, i)
      BY DEF Joins
    <2> h[i] = JoinStep(t, h, i)
      BY DEF Joins
    <2> QED
      OBVIOUS
  <1>1. 0 \in H
    OBVIOUS
  <1>2. ASSUME NEW j \in Nat, j \in H PROVE j + 1 \in H
    <2> SUFFICES ASSUME j + 1 \in 1 .. k PROVE g[j + 1] = h[j + 1]
      OBVIOUS
    <2>1. g[j + 1] = JoinStep(s, g, j + 1) /\ h[j + 1] = JoinStep(t, h, j + 1)
      BY <1>0
    <2>2. j # 0 => g[j] = h[j]
      BY <1>2
    <2>3. s[j + 1] = t[j + 1] /\ (j + 1) - 1 = j /\ (j + 1 = 1 <=> j = 0)
      BY DEF Same
    <2> QED
      BY <2>1, <2>2, <2>3 DEF JoinStep
  <1> HIDE DEF H
  <1>3. \A j \in Nat : j \in H
    BY <1>1, <1>2, NatInd
  <1> QED
    BY <1>3 DEF H, Same

\* FlattenSeq takes its last value.
LEMMA FlatIs ==
  ASSUME NEW T, NEW s \in Seq(T), s # << >>
  PROVE  \E g : Joins(s, Len(s), g) /\ FlattenSeq(s) = g[Len(s)]
  <1> DEFINE f == CHOOSE g : g = [i \in 1 .. Len(s) |-> IF i = 1 THEN s[i] ELSE g[i - 1] \o s[i]]
  <1>1. Len(s) \in Nat /\ Len(s) # 0
    BY EmptySeq
  <1>2. FlattenSeq(s) = f[Len(s)]
    BY <1>1 DEF FlattenSeq
  <1>3. \E g : g = [i \in 1 .. Len(s) |-> IF i = 1 THEN s[i] ELSE g[i - 1] \o s[i]]
    BY <1>1, JoinsExist DEF Joins, JoinStep
  <1>4. f = [i \in 1 .. Len(s) |-> IF i = 1 THEN s[i] ELSE f[i - 1] \o s[i]]
    BY <1>3
  <1> HIDE DEF f
  <1>5. Joins(s, Len(s), f)
    BY <1>4, Zenon DEF Joins, JoinStep
  <1> QED
    BY <1>2, <1>5

\* Nothing put together is nothing.
LEMMA FlatEmpty == FlattenSeq(<< >>) = << >>
  BY DEF FlattenSeq

\* One sequence more at the back.
LEMMA FlatAppend ==
  ASSUME NEW T, NEW s \in Seq(Seq(T)), NEW x \in Seq(T)
  PROVE  FlattenSeq(s \o <<x>>) = FlattenSeq(s) \o x
  <1> DEFINE t == s \o <<x>>
             n == Len(s)
  <1>1. t \in Seq(Seq(T)) /\ Len(t) = n + 1 /\ t # << >> /\ n \in Nat
        /\ t[n + 1] = x /\ \A i \in 1 .. n : t[i] = s[i]
    OBVIOUS
  <1> HIDE DEF t
  <1>2. PICK h : Joins(t, n + 1, h) /\ FlattenSeq(t) = h[n + 1]
    <2> HIDE DEF n
    <2> QED
      BY <1>1, FlatIs
  <1>3. h[n + 1] = JoinStep(t, h, n + 1)
    <2> HIDE DEF n
    <2> n + 1 \in 1 .. n + 1
      BY <1>1
    <2> QED
      BY <1>2 DEF Joins
  <1>4. CASE s = << >>
    <2> n = 0
      BY <1>4
    <2> FlattenSeq(t) = x
      BY <1>1, <1>2, <1>3 DEF JoinStep
    <2> FlattenSeq(s) = << >> /\ << >> \o x = x
      BY <1>4, FlatEmpty
    <2> QED
      BY DEF t
  <1>5. CASE s # << >>
    <2>1. PICK g : Joins(s, n, g) /\ FlattenSeq(s) = g[n]
      BY <1>5, FlatIs
    <2>2. n >= 1
      BY <1>1, <1>5, EmptySeq
    <2>3. Same(g, h, n)
      <3> HIDE DEF n
      <3>1. n \in Nat /\ n + 1 \in Nat /\ n <= n /\ n <= n + 1
        BY <1>1
      <3>2. Same(s, t, n)
        BY <1>1 DEF Same
      <3>3. Joins(s, n, g) /\ Joins(t, n + 1, h)
        BY <1>2, <2>1
      <3> QED
        BY <3>1, <3>2, <3>3, JoinsAgree
    <2>4. g[n] = h[n]
      <3> HIDE DEF n
      <3>1. n \in 1 .. n
        BY <1>1, <2>2
      <3> QED
        BY <2>3, <3>1 DEF Same
    <2>5. h[n + 1] = h[n] \o x
      <3> HIDE DEF n
      <3> (n + 1) - 1 = n /\ n + 1 # 1
        BY <1>1, <2>2
      <3> QED
        BY <1>1, <1>3 DEF JoinStep
    <2> QED
      BY <1>2, <2>1, <2>4, <2>5 DEF t
  <1> QED
    BY <1>4, <1>5

\* The result is a sequence of the same elements.
LEMMA FlatType ==
  ASSUME NEW T, NEW s \in Seq(Seq(T))
  PROVE  FlattenSeq(s) \in Seq(T)
  <1> DEFINE H == {r \in Seq(Seq(T)) : FlattenSeq(r) \in Seq(T)}
  <1>1. << >> \in H
    <2>1. << >> \in Seq(Seq(T)) /\ << >> \in Seq(T)
      OBVIOUS
    <2>2. FlattenSeq(<< >>) \in Seq(T)
      BY <2>1, FlatEmpty
    <2> QED
      BY <2>1, <2>2
  <1>2. ASSUME NEW r \in Seq(Seq(T)), NEW x \in Seq(T), r \in H PROVE r \o <<x>> \in H
    <2>1. FlattenSeq(r \o <<x>>) = FlattenSeq(r) \o x
      BY FlatAppend
    <2>2. FlattenSeq(r) \o x \in Seq(T)
      BY <1>2
    <2>3. r \o <<x>> \in Seq(Seq(T))
      OBVIOUS
    <2> QED
      BY <2>1, <2>2, <2>3
  <1> HIDE DEF H
  <1>3. \A r \in Seq(Seq(T)) : r \in H
    BY <1>1, <1>2, SeqInd
  <1> QED
    BY <1>3 DEF H

-----------------------------------------------------------------------------
(* Loops.                                                                 *)

\* f goes from s to step[s], and on, until it is in stop, and takes base there.
Loop(D, stop, base, step, f) ==
  f = [s \in D |-> IF s \in stop THEN base[s] ELSE f[step[s]]]

\* Every step of a loop stays in D and lowers the rank.
Falls(D, stop, step, rank) ==
  /\ \A s \in D : rank[s] \in Nat
  /\ \A s \in D : s \notin stop => step[s] \in D /\ rank[step[s]] < rank[s]

\* g follows the loop for everything in D whose rank is below n.
LowRanks(D, rank, n) == {s \in D : rank[s] < n}
LoopTo(D, stop, base, step, rank, n, g) ==
  g = [s \in LowRanks(D, rank, n) |-> IF s \in stop THEN base[s] ELSE g[step[s]]]

\* There is such a function for every n.
LEMMA LoopToExists ==
  ASSUME NEW D, NEW stop, NEW base, NEW step, NEW rank, Falls(D, stop, step, rank)
  PROVE  \A n \in Nat : \E g : LoopTo(D, stop, base, step, rank, n, g)
<1> DEFINE H == {n \in Nat : \E g : LoopTo(D, stop, base, step, rank, n, g)}
<1>1. 0 \in H
  <2> DEFINE g == [s \in {} |-> IF s \in stop THEN base[s] ELSE 0]
  <2>1. LowRanks(D, rank, 0) = {}
    BY DEF LowRanks, Falls
  <2>2. LoopTo(D, stop, base, step, rank, 0, g)
    BY <2>1 DEF LoopTo
  <2> HIDE DEF g
  <2> QED BY <2>2
<1>2. ASSUME NEW n \in Nat, n \in H PROVE n + 1 \in H
  <2>1. PICK g : LoopTo(D, stop, base, step, rank, n, g)
    BY <1>2
  <2> DEFINE S == LowRanks(D, rank, n + 1)
             h == [s \in S |-> IF s \in stop THEN base[s] ELSE g[step[s]]]
  <2>2. ASSUME NEW s \in S, s \notin stop PROVE h[step[s]] = g[step[s]]
    <3>1. step[s] \in S /\ step[s] \in LowRanks(D, rank, n)
      BY <2>2 DEF Falls, LowRanks
    <3>2. h[step[s]] = IF step[s] \in stop THEN base[step[s]] ELSE g[step[step[s]]]
      BY <3>1
    <3>3. g[step[s]] = IF step[s] \in stop THEN base[step[s]] ELSE g[step[step[s]]]
      BY <2>1, <3>1 DEF LoopTo
    <3> QED BY <3>2, <3>3
  <2>3. h = [s \in S |-> IF s \in stop THEN base[s] ELSE g[step[s]]]
    OBVIOUS
  <2> HIDE DEF h, S
  <2>4. h = [s \in S |-> IF s \in stop THEN base[s] ELSE h[step[s]]]
    BY <2>2, <2>3
  <2>5. LoopTo(D, stop, base, step, rank, n + 1, h)
    BY <2>4 DEF LoopTo, S
  <2> QED BY <2>5
<1> HIDE DEF H
<1>3. \A n \in Nat : n \in H
  BY <1>1, <1>2, NatInd
<1> QED BY <1>3 DEF H

\* Any two agree where both are defined.
LEMMA LoopToAgree ==
  ASSUME NEW D, NEW stop, NEW base, NEW step, NEW rank, Falls(D, stop, step, rank),
         NEW m \in Nat, NEW n \in Nat, NEW g, NEW h,
         LoopTo(D, stop, base, step, rank, m, g), LoopTo(D, stop, base, step, rank, n, h),
         NEW t \in D, rank[t] < m, rank[t] < n
  PROVE  g[t] = h[t]
<1> DEFINE B == {s \in D : rank[s] < m /\ rank[s] < n /\ g[s] # h[s]}
           R == {rank[s] : s \in B}
<1>1. SUFFICES ASSUME B # {} PROVE FALSE
  OBVIOUS
<1>2. R \in SUBSET Nat /\ R # {}
  BY <1>1 DEF Falls
<1>3. PICK r \in R : \A q \in R : r <= q
  <2> HIDE DEF R
  <2> QED BY <1>2, Least
<1>4. PICK s \in B : rank[s] = r
  OBVIOUS
<1>5. s \in LowRanks(D, rank, m) /\ s \in LowRanks(D, rank, n)
  BY DEF LowRanks
<1>6. g[s] = IF s \in stop THEN base[s] ELSE g[step[s]]
  BY <1>5 DEF LoopTo
<1>7. h[s] = IF s \in stop THEN base[s] ELSE h[step[s]]
  BY <1>5 DEF LoopTo
<1>8. s \notin stop
  BY <1>6, <1>7
<1>9. step[s] \in D /\ rank[step[s]] < rank[s] /\ rank[s] \in Nat /\ rank[step[s]] \in Nat
  BY <1>8 DEF Falls
<1>10. step[s] \in B
  BY <1>6, <1>7, <1>8, <1>9
<1>11. r <= rank[step[s]]
  BY <1>3, <1>10
<1> QED BY <1>4, <1>9, <1>11

\* A loop whose steps lower a rank is a function.
LEMMA LoopExists ==
  ASSUME NEW D, NEW stop, NEW base, NEW step, NEW rank, Falls(D, stop, step, rank)
  PROVE  \E f : Loop(D, stop, base, step, f)
<1> DEFINE P(n, g) == LoopTo(D, stop, base, step, rank, n, g)
           G(n) == CHOOSE g : P(n, g)
           f == [s \in D |-> G(rank[s] + 1)[s]]
<1>1. \A n \in Nat : P(n, G(n))
  BY LoopToExists
<1> HIDE DEF G
<1>2. ASSUME NEW s \in D
      PROVE  f[s] = IF s \in stop THEN base[s] ELSE f[step[s]]
  <2>1. rank[s] \in Nat /\ rank[s] + 1 \in Nat /\ rank[s] < rank[s] + 1
    BY DEF Falls
  <2>2. P(rank[s] + 1, G(rank[s] + 1)) /\ s \in LowRanks(D, rank, rank[s] + 1)
    BY <1>1, <2>1 DEF LowRanks
  <2>3. f[s] = G(rank[s] + 1)[s]
    OBVIOUS
  <2>4. f[s] = IF s \in stop THEN base[s] ELSE G(rank[s] + 1)[step[s]]
    <3> HIDE DEF f
    <3> QED BY <2>2, <2>3 DEF LoopTo
  <2>5. ASSUME s \notin stop PROVE G(rank[s] + 1)[step[s]] = f[step[s]]
    <3>1. /\ step[s] \in D /\ rank[step[s]] < rank[s]
          /\ rank[step[s]] \in Nat /\ rank[step[s]] + 1 \in Nat
          /\ rank[step[s]] < rank[s] + 1 /\ rank[step[s]] < rank[step[s]] + 1
      BY <2>1, <2>5 DEF Falls
    <3>2. P(rank[step[s]] + 1, G(rank[step[s]] + 1))
      BY <1>1, <3>1
    <3>3. PICK m, n, g, h : /\ m = rank[s] + 1 /\ n = rank[step[s]] + 1
                            /\ g = G(m) /\ h = G(n)
      OBVIOUS
    <3>4. /\ m \in Nat /\ n \in Nat /\ rank[step[s]] < m /\ rank[step[s]] < n
          /\ P(m, g) /\ P(n, h)
      BY <2>1, <2>2, <3>1, <3>2, <3>3
    <3>5. g[step[s]] = h[step[s]]
      <4>1. PICK u \in D : u = step[s]
        BY <3>1
      <4>2. rank[u] < m /\ rank[u] < n
        BY <3>4, <4>1
      <4>3. /\ LoopTo(D, stop, base, step, rank, m, g)
            /\ LoopTo(D, stop, base, step, rank, n, h)
        BY <3>4
      <4> HIDE DEF f, P
      <4>4. g[u] = h[u]
        BY <3>4, <4>2, <4>3, LoopToAgree
      <4> QED BY <4>1, <4>4
    <3>6. f[step[s]] = G(rank[step[s]] + 1)[step[s]]
      BY <3>1
    <3> HIDE DEF f, P
    <3> QED BY <3>3, <3>5, <3>6
  <2> HIDE DEF f
  <2> QED BY <2>4, <2>5
<1>3. f = [s \in D |-> G(rank[s] + 1)[s]]
  OBVIOUS
<1> HIDE DEF f
<1>4. f = [s \in D |-> IF s \in stop THEN base[s] ELSE f[step[s]]]
  BY <1>2, <1>3
<1>5. Loop(D, stop, base, step, f)
  BY <1>4 DEF Loop
<1> QED BY <1>5

\* A loop ends, and what its steps keep holds where it does.
LEMMA LoopEnds ==
  ASSUME NEW D, NEW stop, NEW base, NEW step, NEW rank, Falls(D, stop, step, rank),
         NEW f, Loop(D, stop, base, step, f),
         NEW I \in SUBSET D, \A s \in I : s \notin stop => step[s] \in I,
         NEW t \in I
  PROVE  \E e \in I : e \in stop /\ f[t] = base[e]
<1> DEFINE B == {s \in I : ~ \E e \in I : e \in stop /\ f[s] = base[e]}
           R == {rank[s] : s \in B}
<1>1. SUFFICES ASSUME B # {} PROVE FALSE
  OBVIOUS
<1>2. R \in SUBSET Nat /\ R # {}
  BY <1>1 DEF Falls
<1>3. PICK r \in R : \A q \in R : r <= q
  <2> HIDE DEF R
  <2> QED BY <1>2, Least
<1>4. PICK s \in B : rank[s] = r
  OBVIOUS
<1>5. s \in D /\ f[s] = IF s \in stop THEN base[s] ELSE f[step[s]]
  BY DEF Loop
<1>6. s \notin stop /\ f[s] = f[step[s]]
  BY <1>5
<1>7. /\ step[s] \in I /\ rank[step[s]] < rank[s]
      /\ rank[s] \in Nat /\ rank[step[s]] \in Nat
  BY <1>5, <1>6 DEF Falls
<1>8. step[s] \in B
  <2>1. ~ \E e \in I : e \in stop /\ f[s] = base[e]
    OBVIOUS
  <2> HIDE DEF R
  <2> QED BY <1>6, <1>7, <2>1
<1>9. r <= rank[step[s]]
  BY <1>3, <1>8
<1> QED BY <1>4, <1>7, <1>9

\* What sequences hold when they are put together.
LEMMA FlatRange ==
  ASSUME NEW T, NEW s \in Seq(Seq(T))
  PROVE  \A x : x \in Range(FlattenSeq(s)) <=> \E i \in DOMAIN s : x \in Range(s[i])
  <1> DEFINE In(r, x) == \E i \in DOMAIN r : x \in Range(r[i])
             H == {r \in Seq(Seq(T)) : \A x : x \in Range(FlattenSeq(r)) <=> In(r, x)}
  <1>1. << >> \in H
    BY FlatEmpty DEF Range
  <1>2. ASSUME NEW r \in Seq(Seq(T)), NEW y \in Seq(T), r \in H PROVE r \o <<y>> \in H
    <2> DEFINE e == r \o <<y>>
    <2>1. e \in Seq(Seq(T)) /\ DOMAIN e = 1 .. Len(r) + 1 /\ DOMAIN r = 1 .. Len(r)
          /\ Len(r) \in Nat /\ e[Len(r) + 1] = y /\ \A i \in 1 .. Len(r) : e[i] = r[i]
      OBVIOUS
    <2>2. FlattenSeq(e) = FlattenSeq(r) \o y /\ FlattenSeq(r) \in Seq(T)
      BY FlatAppend, FlatType
    <2> HIDE DEF e
    <2>3. \A x : x \in Range(FlattenSeq(e)) <=> x \in Range(FlattenSeq(r)) \/ x \in Range(y)
      BY <2>2, RangeConcatenation
    <2>4. \A x : In(e, x) <=> In(r, x) \/ x \in Range(y)
      <3> TAKE x
      <3>1. ASSUME In(e, x) PROVE In(r, x) \/ x \in Range(y)
        <4>1. PICK i \in 1 .. Len(r) + 1 : x \in Range(e[i])
          BY <2>1, <3>1
        <4>2. i = Len(r) + 1 \/ i \in 1 .. Len(r)
          BY <2>1
        <4> QED BY <2>1, <4>1, <4>2
      <3>2. ASSUME In(r, x) PROVE In(e, x)
        <4>1. PICK i \in 1 .. Len(r) : x \in Range(r[i])
          BY <2>1, <3>2
        <4>2. i \in 1 .. Len(r) + 1
          BY <2>1
        <4> QED BY <2>1, <4>1, <4>2
      <3>3. ASSUME x \in Range(y) PROVE In(e, x)
        <4>1. Len(r) + 1 \in 1 .. Len(r) + 1
          BY <2>1
        <4> QED BY <2>1, <3>3, <4>1
      <3> QED BY <3>1, <3>2, <3>3
    <2>5. \A x : x \in Range(FlattenSeq(r)) <=> In(r, x)
      BY <1>2
    <2> HIDE DEF In
    <2>6. \A x : x \in Range(FlattenSeq(e)) <=> In(e, x)
      BY <2>3, <2>4, <2>5
    <2> QED BY <2>1, <2>6 DEF e
  <1> HIDE DEF H
  <1>3. \A r \in Seq(Seq(T)) : r \in H
    BY <1>1, <1>2, SeqInd
  <1> QED
    BY <1>3 DEF H

-----------------------------------------------------------------------------
(* Sets of numbers in ascending order.                                     *)

UpTo(S, x) == {y \in S : y <= x}

\* The larger number has more members up to it.
LEMMA UpToGrows ==
  ASSUME NEW S \in SUBSET Nat, IsFiniteSet(S), NEW x \in S, NEW z \in S
  PROVE  /\ Cardinality(UpTo(S, x)) \in 1 .. Cardinality(S)
         /\ x < z => Cardinality(UpTo(S, x)) < Cardinality(UpTo(S, z))
<1>1. /\ IsFiniteSet(UpTo(S, x)) /\ Cardinality(UpTo(S, x)) <= Cardinality(S)
      /\ IsFiniteSet(UpTo(S, z))
  <2> UpTo(S, x) \in SUBSET S /\ UpTo(S, z) \in SUBSET S
    BY DEF UpTo
  <2> QED BY FS_Subset
<1>2. /\ Cardinality(UpTo(S, x)) \in Nat /\ Cardinality(S) \in Nat
      /\ Cardinality(UpTo(S, z)) \in Nat
  BY <1>1, FS_CardinalityType
<1>3. Cardinality(UpTo(S, x)) # 0
  <2> x \in UpTo(S, x)
    BY DEF UpTo
  <2> QED BY <1>1, FS_EmptySet
<1>4. ASSUME x < z PROVE Cardinality(UpTo(S, x)) < Cardinality(UpTo(S, z))
  <2>0. x \in Nat /\ z \in Nat /\ \A y \in S : y \in Nat
    OBVIOUS
  <2>1. UpTo(S, x) \in SUBSET UpTo(S, z) /\ z \in UpTo(S, z) /\ z \notin UpTo(S, x)
    <3>1. \A y \in S : y <= x => y <= z
      BY <1>4, <2>0
    <3>2. z <= z /\ ~(z <= x)
      BY <1>4, <2>0
    <3>3. UpTo(S, x) \subseteq UpTo(S, z)
      BY <3>1 DEF UpTo
    <3>4. z \in UpTo(S, z) /\ z \notin UpTo(S, x)
      BY <3>2 DEF UpTo
    <3> QED BY <3>3, <3>4
  <2>2. /\ Cardinality(UpTo(S, x)) <= Cardinality(UpTo(S, z))
        /\ Cardinality(UpTo(S, z)) = Cardinality(UpTo(S, x)) => UpTo(S, z) = UpTo(S, x)
    BY <1>1, <2>1, FS_Subset
  <2> QED BY <1>2, <2>1, <2>2
<1> QED BY <1>1, <1>2, <1>3, <1>4

\* There is a member for every count.
LEMMA UpToEvery ==
  ASSUME NEW S \in SUBSET Nat, IsFiniteSet(S), NEW n \in 1 .. Cardinality(S)
  PROVE  \E x \in S : Cardinality(UpTo(S, x)) = n
<1> DEFINE H == {s \in SUBSET S : \E i \in 1 .. Cardinality(s) :
                                     ~ \E x \in s : Cardinality(UpTo(s, x)) = i}
<1>1. SUFFICES ASSUME H # {} PROVE FALSE
  OBVIOUS
<1>2. \A s \in H : IsFiniteSet(s)
  BY FS_Subset
<1>3. PICK s \in H : \A r \in H : Cardinality(s) <= Cardinality(r)
  <2> HIDE DEF H
  <2> QED BY <1>1, <1>2, Smallest
<1>4. PICK i \in 1 .. Cardinality(s) : ~ \E x \in s : Cardinality(UpTo(s, x)) = i
  OBVIOUS
<1>5. s \in SUBSET Nat /\ IsFiniteSet(s) /\ Cardinality(s) \in Nat
  BY <1>2, FS_CardinalityType
<1>6. s # {}
  BY <1>4, FS_EmptySet
<1>7. PICK m \in s : \A x \in s : m <= x
  BY <1>5, <1>6, Least
<1> DEFINE r == s \ {m}
<1>8. IsFiniteSet(r) /\ Cardinality(r) = Cardinality(s) - 1
  BY <1>5, FS_RemoveElement
<1>9. r \notin H
  <2>1. ~(Cardinality(s) <= Cardinality(r))
    BY <1>5, <1>8
  <2> HIDE DEF H
  <2> QED BY <1>3, <2>1
<1>10. \A j \in 1 .. Cardinality(r) : \E x \in r : Cardinality(UpTo(r, x)) = j
  <2> r \in SUBSET S
    OBVIOUS
  <2> QED BY <1>9
<1>11. CASE i = 1
  <2>0. m \in Nat /\ \A y \in s : y \in Nat /\ m <= y
    BY <1>5, <1>7
  <2>1. \A y \in s : y <= m <=> y = m
    BY <2>0
  <2>2. UpTo(s, m) = {m}
    BY <2>1 DEF UpTo
  <2> QED BY <1>4, <1>11, <2>2, FS_Singleton
<1>12. CASE i # 1
  <2>1. i - 1 \in 1 .. Cardinality(r)
    BY <1>5, <1>8, <1>12
  <2>2. PICK x \in r : Cardinality(UpTo(r, x)) = i - 1
    BY <1>10, <2>1
  <2>3. UpTo(s, x) = UpTo(r, x) \cup {m} /\ m \notin UpTo(r, x)
    BY <1>5, <1>7 DEF UpTo
  <2>4. IsFiniteSet(UpTo(r, x))
    <3> UpTo(r, x) \in SUBSET r
      BY DEF UpTo
    <3> QED BY <1>8, FS_Subset
  <2>5. Cardinality(UpTo(r, x) \cup {m}) = Cardinality(UpTo(r, x)) + 1
    BY <2>3, <2>4, FS_AddElement
  <2>6. x \in s /\ i \in Int
    OBVIOUS
  <2> QED BY <1>4, <2>2, <2>3, <2>5, <2>6
<1> QED BY <1>11, <1>12

\* A sequence that ascends.
Rises(s) == \A i, j \in DOMAIN s : i < j => s[i] < s[j]

\* The ascending sequence of a finite set.
LEMMA AscendingIs ==
  ASSUME NEW S \in SUBSET Nat, IsFiniteSet(S)
  PROVE  /\ Ascending(S) \in Seq(S) /\ Len(Ascending(S)) = Cardinality(S)
         /\ Cardinality(S) \in Nat
         /\ Range(Ascending(S)) = S
         /\ Rises(Ascending(S))
<1> DEFINE n == Cardinality(S)
           C(x) == Cardinality(UpTo(S, x))
           At(i) == CHOOSE x \in S : C(x) = i
           s == Ascending(S)
<1>1. n \in Nat
  BY FS_CardinalityType
<1>2. ASSUME NEW i \in 1 .. n PROVE At(i) \in S /\ C(At(i)) = i
  <2>1. \E x \in S : C(x) = i
    BY UpToEvery
  <2> HIDE DEF C
  <2> QED BY <2>1
<1>3. s = [i \in 1 .. n |-> At(i)]
  BY DEF Ascending, UpTo
<1> HIDE DEF s, n, At
<1>4. s \in Seq(S) /\ Len(s) = n /\ DOMAIN s = 1 .. n /\ \A i \in 1 .. n : s[i] = At(i)
  <2>1. s \in [1 .. n -> S]
    BY <1>2, <1>3
  <2> QED BY <1>1, <1>3, <2>1
<1>5. ASSUME NEW x \in S, NEW z \in S
      PROVE  /\ C(x) \in 1 .. n
             /\ x < z => C(x) < C(z)
  BY UpToGrows DEF n
<1> HIDE DEF C
<1>5a. \A x, z \in S : x \in Nat /\ C(x) \in 1 .. n /\ (x < z => C(x) < C(z))
  BY <1>5
<1>6. ASSUME NEW i \in 1 .. n, NEW j \in 1 .. n, i < j PROVE s[i] < s[j]
  <2>1. s[i] \in S /\ s[j] \in S /\ C(s[i]) = i /\ C(s[j]) = j
    BY <1>2, <1>4
  <2>2. PICK x \in S, z \in S : x = s[i] /\ z = s[j]
    BY <2>1
  <2>3. x \in Nat /\ z \in Nat /\ C(x) = i /\ C(z) = j /\ (z < x => C(z) < C(x))
    BY <1>5a, <2>1, <2>2
  <2>4. i \in Int /\ j \in Int
    BY <1>1
  <2>5. x < z
    BY <1>6, <2>3, <2>4
  <2> QED BY <2>2, <2>5
<1>7. ASSUME NEW x \in S PROVE \E i \in 1 .. n : s[i] = x
  <2>1. C(x) \in 1 .. n
    BY <1>5a
  <2>2. PICK z \in S : z = s[C(x)] /\ C(z) = C(x)
    BY <1>2, <1>4, <2>1
  <2>3. x \in Nat /\ z \in Nat /\ (x < z => C(x) < C(z)) /\ (z < x => C(z) < C(x))
    BY <1>5a
  <2>4. C(x) \in Int
    BY <1>1, <2>1
  <2>5. x = z
    BY <2>2, <2>3, <2>4
  <2> QED BY <2>1, <2>2, <2>5
<1>8. Range(s) = S
  <2>1. Range(s) \subseteq S
    BY <1>2, <1>4 DEF Range
  <2>2. S \subseteq Range(s)
    BY <1>4, <1>7 DEF Range
  <2> QED BY <2>1, <2>2
<1>9. Rises(s)
  BY <1>4, <1>6 DEF Rises
<1> QED BY <1>1, <1>4, <1>8, <1>9 DEF s, n

\* Of two ascending sequences one begins the other, when it holds the lower part
\* of what the other holds.
LEMMA RisesPrefix ==
  ASSUME NEW s \in Seq(Nat), NEW t \in Seq(Nat), Rises(s), Rises(t),
         Range(s) \subseteq Range(t),
         \A x \in Range(s), y \in Range(t) : y \notin Range(s) => x < y
  PROVE  /\ Len(s) <= Len(t)
         /\ \A i \in 1 .. Len(s) : s[i] = t[i]
         /\ Range(s) = Range(t) => Len(s) = Len(t)
<1>1. /\ Len(s) \in Nat /\ Len(t) \in Nat /\ DOMAIN s = 1 .. Len(s) /\ DOMAIN t = 1 .. Len(t)
      /\ \A i \in 1 .. Len(s) : s[i] \in Nat
      /\ \A i \in 1 .. Len(t) : t[i] \in Nat
  OBVIOUS
<1>2. ASSUME NEW u \in Seq(Nat), Rises(u), NEW i \in DOMAIN u, NEW j \in DOMAIN u, u[i] = u[j]
      PROVE  i = j
  <2>1. i \in Nat /\ j \in Nat /\ u[i] \in Nat
    OBVIOUS
  <2>2. ~(i < j) /\ ~(j < i)
    <3>1. i < j => u[i] < u[j]
      BY <1>2 DEF Rises
    <3>2. j < i => u[j] < u[i]
      BY <1>2 DEF Rises
    <3>3. ~(u[i] < u[j]) /\ ~(u[j] < u[i])
      BY <1>2, <2>1
    <3> QED BY <3>1, <3>2, <3>3
  <2> QED BY <2>1, <2>2
<1> DEFINE B == {i \in 1 .. Len(s) : i \in 1 .. Len(t) /\ s[i] # t[i]}
<1>3. B = {}
  <2> SUFFICES ASSUME B # {} PROVE FALSE
    OBVIOUS
  <2>1. B \in SUBSET Nat
    OBVIOUS
  <2>2. PICK i \in B : \A j \in B : i <= j
    <3> HIDE DEF B
    <3> QED BY <2>1, Least
  <2>3. i \in DOMAIN s /\ i \in DOMAIN t /\ s[i] # t[i] /\ i \in Nat
    BY <1>1
  <2>4. \A j \in 1 .. i - 1 : s[j] = t[j]
    <3> TAKE j \in 1 .. i - 1
    <3>1. PICK m \in Nat, n \in Nat : m = Len(s) /\ n = Len(t)
      BY <1>1
    <3>2. i \in 1 .. m /\ i \in 1 .. n
      BY <3>1
    <3>3. ~(i <= j) /\ j \in 1 .. m /\ j \in 1 .. n
      BY <2>3, <3>2
    <3> QED BY <2>2, <3>1, <3>3
  <2>5. CASE s[i] < t[i]
    <3>1. PICK j \in DOMAIN t : t[j] = s[i]
      BY <2>3 DEF Range
    <3>2. ~(i < j) /\ i # j /\ j \in Nat
      BY <1>1, <2>3, <2>5, <3>1 DEF Rises
    <3>3. j \in 1 .. i - 1
      BY <1>1, <2>3, <3>1, <3>2
    <3>4. s[j] = s[i] /\ j \in DOMAIN s
      BY <1>1, <2>3, <2>4, <3>1, <3>3
    <3> QED BY <1>2, <2>3, <3>2, <3>4
  <2>6. CASE t[i] < s[i]
    <3>1. t[i] \in Range(t) /\ s[i] \in Range(s)
      BY <2>3 DEF Range
    <3>2. t[i] \in Range(s)
      BY <1>1, <2>3, <2>6, <3>1
    <3>3. PICK j \in DOMAIN s : s[j] = t[i]
      BY <3>2 DEF Range
    <3>4. ~(i < j) /\ i # j /\ j \in Nat
      BY <1>1, <2>3, <2>6, <3>3 DEF Rises
    <3>5. j \in 1 .. i - 1
      BY <1>1, <2>3, <3>3, <3>4
    <3>6. t[j] = t[i] /\ j \in DOMAIN t
      BY <1>1, <2>3, <2>4, <3>3, <3>5
    <3> QED BY <1>2, <2>3, <3>4, <3>6
  <2> QED BY <1>1, <2>3, <2>5, <2>6
<1>4. ASSUME NEW u \in Seq(Nat), NEW v \in Seq(Nat), Rises(u), Range(u) \subseteq Range(v),
             \A i \in 1 .. Len(u) : i \in 1 .. Len(v) => u[i] = v[i]
      PROVE  Len(u) <= Len(v)
  <2> SUFFICES ASSUME Len(u) > Len(v) PROVE FALSE
    BY <1>4
  <2> DEFINE k == Len(v) + 1
  <2>1. k \in 1 .. Len(u) /\ DOMAIN u = 1 .. Len(u) /\ DOMAIN v = 1 .. Len(v) /\ Len(v) \in Nat
        /\ Len(u) \in Nat
    OBVIOUS
  <2>2. PICK j \in DOMAIN v : v[j] = u[k]
    BY <1>4, <2>1 DEF Range
  <2>3. j \in DOMAIN u /\ j # k /\ j \in DOMAIN v
    BY <2>1
  <2>4. u[j] = v[j]
    BY <1>4, <2>1, <2>3
  <2> HIDE DEF k
  <2> QED BY <1>2, <1>4, <2>1, <2>2, <2>3, <2>4
<1>5. \A i \in 1 .. Len(s) : i \in 1 .. Len(t) => s[i] = t[i]
  BY <1>3
<1>6. Len(s) <= Len(t)
  BY <1>4, <1>5
<1>7. Range(s) = Range(t) => Len(t) <= Len(s)
  BY <1>4, <1>5
<1>8. Range(s) = Range(t) => Len(s) = Len(t)
  <2>1. PICK m \in Nat, n \in Nat : m = Len(s) /\ n = Len(t)
    BY <1>1
  <2>2. m <= n /\ (Range(s) = Range(t) => n <= m)
    BY <1>6, <1>7, <2>1
  <2>3. n <= m => m = n
    BY <2>2
  <2> QED BY <2>1, <2>2, <2>3
<1>9. \A i \in 1 .. Len(s) : i \in 1 .. Len(t)
  BY <1>1, <1>6
<1> QED BY <1>5, <1>6, <1>8, <1>9
==============================================================================
