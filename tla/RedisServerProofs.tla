-------------------------- MODULE RedisServerProofs --------------------------
(***************************************************************************)
(* Proofs about RedisServer, for any clients, any requests in any number,  *)
(* any cuts of the stream and any room in the sockets.  The argument runs  *)
(* from the texts to the states: where the line feeds of a joined text     *)
(* are; what a request looks like on the wire, and how many lines it has;  *)
(* what getline takes from a buffer that begins with a whole request; what *)
(* one run of the read handler makes of it; and then the inductive         *)
(* invariant, RedisInv, whose last part says that a session that is in     *)
(* step has a request, or a part of it, at the beginning of its buffer.    *)
(***************************************************************************)
EXTENDS RedisServer, CommonTheorems

-----------------------------------------------------------------------------
(* Line feeds.                                                             *)

Picks(b) == [i \in DOMAIN b |-> IF b[i] = LF THEN <<i>> ELSE << >>]

\* The places of the elements with a property are places of the text.
LEMMA PicksType ==
  ASSUME NEW T, NEW b \in Seq(T)
  PROVE  Picks(b) \in Seq(Seq(1 .. Len(b))) /\ Len(Picks(b)) = Len(b)
  <1>1. Len(b) \in Nat /\ DOMAIN b = 1 .. Len(b)
    OBVIOUS
  <1>2. \A i \in 1 .. Len(b) : (IF b[i] = LF THEN <<i>> ELSE << >>) \in Seq(1 .. Len(b))
    <2> TAKE i \in 1 .. Len(b)
    <2>1. <<i>> \in Seq(1 .. Len(b)) /\ << >> \in Seq(1 .. Len(b))
      OBVIOUS
    <2> QED
      BY <2>1
  <1>3. Picks(b) \in [1 .. Len(b) -> Seq(1 .. Len(b))]
    BY <1>1, <1>2 DEF Picks
  <1> HIDE DEF Picks
  <1> QED
    BY <1>1, <1>3

\* The line feeds of a text are places of it.
LEMMA FeedsType ==
  ASSUME NEW T, NEW b \in Seq(T)
  PROVE  Feeds(b) \in Seq(1 .. Len(b))
  BY PicksType, FlatType DEF Feeds, Picks

\* An empty text has no line feed.
LEMMA FeedsEmpty == Feeds(<< >>) = << >>
  <1> Picks(<< >>) = << >>
    BY DEF Picks
  <1> QED
    BY FlatEmpty DEF Feeds, Picks

\* One character more at the back.
FeedAt(x, i) == IF x = LF THEN <<i>> ELSE << >>

\* One character more has at most one line feed more, at the end.
LEMMA FeedsAppend ==
  ASSUME NEW T, NEW b \in Seq(T), NEW x \in T
  PROVE  Feeds(b \o <<x>>) = Feeds(b) \o FeedAt(x, Len(b) + 1)
  <1> DEFINE e == b \o <<x>>
             n == Len(b)
             U == 1 .. n + 1
  <1>1. n \in Nat /\ Len(e) = n + 1 /\ DOMAIN e = 1 .. n + 1 /\ DOMAIN b = 1 .. n
        /\ e[n + 1] = x /\ \A i \in 1 .. n : e[i] = b[i]
    OBVIOUS
  <1>2. Picks(b) \in Seq(Seq(U)) /\ Len(Picks(b)) = n /\ FeedAt(x, n + 1) \in Seq(U)
    <2>1. Picks(b) \in Seq(Seq(1 .. n)) /\ Len(Picks(b)) = n
      BY PicksType
    <2> HIDE DEF n
    <2>2. \A i \in 1 .. n : Picks(b)[i] \in Seq(1 .. n)
      BY <2>1
    <2>3. \A s \in Seq(1 .. n) : s \in Seq(U)
      BY <1>1
    <2> HIDE DEF U
    <2>4. Picks(b) \in Seq(Seq(U))
      BY <2>1, <2>2, <2>3
    <2>5. FeedAt(x, n + 1) \in Seq(U)
      <3>1. n + 1 \in U
        BY <1>1 DEF U
      <3>2. <<n + 1>> \in Seq(U) /\ << >> \in Seq(U)
        BY <3>1
      <3> QED
        BY <3>2 DEF FeedAt
    <2> QED
      BY <2>1, <2>4, <2>5
  <1>3. Picks(e) = Picks(b) \o <<FeedAt(x, n + 1)>>
    <2> DEFINE p == Picks(b) \o <<FeedAt(x, n + 1)>>
    <2>1. Len(p) = n + 1 /\ p \in Seq(Seq(U)) /\ p[n + 1] = FeedAt(x, n + 1)
          /\ \A i \in 1 .. n : p[i] = Picks(b)[i]
      <3> HIDE DEF U, n
      <3> QED
        <4> HIDE DEF p
        <4>1. <<FeedAt(x, n + 1)>> \in Seq(Seq(U)) /\ Len(<<FeedAt(x, n + 1)>>) = 1
              /\ <<FeedAt(x, n + 1)>>[1] = FeedAt(x, n + 1)
          BY <1>2
        <4>2. /\ p \in Seq(Seq(U)) /\ Len(p) = n + 1
              /\ \A i \in 1 .. n + 1 : p[i] = IF i <= n THEN Picks(b)[i]
                                            ELSE <<FeedAt(x, n + 1)>>[i - n]
          BY <1>2, <4>1, ConcatProperties DEF p
        <4>3. (n + 1) - n = 1 /\ n + 1 \in 1 .. n + 1 /\ ~(n + 1 <= n)
              /\ \A i \in 1 .. n : i <= n /\ i \in 1 .. n + 1
          BY <1>1
        <4> QED
          BY <4>1, <4>2, <4>3
    <2>2. \A i \in 1 .. n : Picks(b)[i] = FeedAt(b[i], i)
      BY <1>1 DEF Picks, FeedAt
    <2>3. Picks(e) = [i \in 1 .. n + 1 |-> FeedAt(e[i], i)]
      BY <1>1 DEF Picks, FeedAt
    <2> HIDE DEF p, e, n, U
    <2>4. \A i \in 1 .. n + 1 : p[i] = FeedAt(e[i], i)
      <3> TAKE i \in 1 .. n + 1
      <3>1. CASE i = n + 1
        BY <1>1, <2>1, <3>1
      <3>2. CASE i \in 1 .. n
        BY <1>1, <2>1, <2>2, <3>2
      <3> QED
        BY <1>1, <3>1, <3>2
    <2>5. p = [i \in 1 .. n + 1 |-> p[i]]
      BY <2>1, <1>1
    <2> QED
      BY <2>3, <2>4, <2>5 DEF p
  <1>4. FlattenSeq(Picks(b) \o <<FeedAt(x, n + 1)>>) = FlattenSeq(Picks(b)) \o FeedAt(x, n + 1)
    <2> HIDE DEF n, U
    <2> QED
      BY <1>2, FlatAppend
  <1>5. Feeds(e) = FlattenSeq(Picks(e)) /\ Feeds(b) = FlattenSeq(Picks(b))
    BY DEF Feeds, Picks
  <1> HIDE DEF e
  <1> QED
    BY <1>3, <1>4, <1>5 DEF e

\* The line feeds of a text with more behind it: its own, then those behind it.
LEMMA FeedsConcat ==
  ASSUME NEW T, NEW a \in Seq(T), NEW b \in Seq(T)
  PROVE  \E r \in Seq(Nat) : Feeds(a \o b) = Feeds(a) \o r /\ Len(r) = Len(Feeds(b))
  <1> DEFINE P(c) == \E r \in Seq(Nat) : Feeds(a \o c) = Feeds(a) \o r /\ Len(r) = Len(Feeds(c))
             H == {c \in Seq(T) : P(c)}
  <1>0. Feeds(a) \in Seq(Nat) /\ \A c \in Seq(T) : Feeds(c) \in Seq(Nat)
    <2>1. ASSUME NEW c \in Seq(T) PROVE Feeds(c) \in Seq(Nat)
      <3>1. Feeds(c) \in Seq(1 .. Len(c))
        BY FeedsType
      <3>2. \A i \in 1 .. Len(c) : i \in Nat
        OBVIOUS
      <3> QED
        BY <3>1, <3>2
    <2> QED
      BY <2>1
  <1>1. << >> \in H
    <2> P(<< >>)
      <3> a \o << >> = a /\ << >> \in Seq(Nat) /\ Feeds(a) \o << >> = Feeds(a)
        BY <1>0
      <3> QED
        BY FeedsEmpty
    <2> QED
      OBVIOUS
  <1>2. ASSUME NEW c \in Seq(T), NEW x \in T, c \in H PROVE c \o <<x>> \in H
    <2>1. PICK r \in Seq(Nat) : Feeds(a \o c) = Feeds(a) \o r /\ Len(r) = Len(Feeds(c))
      BY <1>2
    <2> DEFINE n == Len(a \o c) + 1
               m == Len(c) + 1
               f == FeedAt(x, n)
               g == FeedAt(x, m)
    <2>2. f \in Seq(Nat) /\ g \in Seq(Nat) /\ Len(f) = Len(g)
      BY DEF FeedAt
    <2>3. Feeds((a \o c) \o <<x>>) = Feeds(a \o c) \o f
      <3> a \o c \in Seq(T)
        OBVIOUS
      <3> QED
        BY FeedsAppend
    <2>4. Feeds(c \o <<x>>) = Feeds(c) \o g
      BY FeedsAppend
    <2>5. a \o (c \o <<x>>) = (a \o c) \o <<x>> /\ c \o <<x>> \in Seq(T)
      OBVIOUS
    <2> HIDE DEF n, m, f, g
    <2>6. (Feeds(a) \o r) \o f = Feeds(a) \o (r \o f)
      <3>1. Feeds(a) \in Seq(Nat) /\ r \in Seq(Nat) /\ f \in Seq(Nat)
        BY <1>0, <2>2
      <3>2. JoinsAlike(Feeds(a), r, f)
        BY <3>1, Joined
      <3> QED
        BY <3>2 DEF JoinsAlike
    <2>7. r \o f \in Seq(Nat) /\ Len(r \o f) = Len(Feeds(c) \o g)
      <3>1. Feeds(c) \in Seq(Nat)
        BY <1>0
      <3>2. Len(Feeds(c) \o g) = Len(Feeds(c)) + Len(g)
        BY <2>2, <3>1, ConcatProperties
      <3>3. r \o f \in Seq(Nat) /\ Len(r \o f) = Len(r) + Len(f)
        BY <2>2, ConcatProperties
      <3> QED
        BY <2>1, <2>2, <3>2, <3>3
    <2>8. Feeds(a \o (c \o <<x>>)) = Feeds(a) \o (r \o f)
      BY <2>1, <2>3, <2>5, <2>6
    <2> QED
      BY <2>4, <2>5, <2>7, <2>8
  <1>3. \A c \in Seq(T) : c \in H
    <2> HIDE DEF H
    <2> QED
      BY <1>1, <1>2, SeqInd
  <1> QED
    BY <1>3

\* A text that ends in a line feed has its last one there.
LEMMA FeedsLast ==
  ASSUME NEW T, NEW w \in Seq(T), w # << >>, w[Len(w)] = LF
  PROVE  Len(Feeds(w)) \in Nat /\ Len(Feeds(w)) > 0 /\ Feeds(w)[Len(Feeds(w))] = Len(w)
  <1> DEFINE q == SubSeq(w, 1, Len(w) - 1)
             x == w[Len(w)]
  <1>1. q \in Seq(T) /\ Len(q) = Len(w) - 1 /\ x \in T /\ w = q \o <<x>>
    BY SplitLast
  <1> HIDE DEF q, x
  <1>2. Feeds(q \o <<x>>) = Feeds(q) \o FeedAt(x, Len(q) + 1)
    BY <1>1, FeedsAppend
  <1>3. Feeds(w) = Feeds(q) \o <<Len(w)>>
    <2>1. FeedAt(x, Len(q) + 1) = <<Len(q) + 1>>
      BY DEF FeedAt, x
    <2>2. Len(q) + 1 = Len(w)
      BY <1>1
    <2> QED
      BY <1>1, <1>2, <2>1, <2>2
  <1>4. Feeds(q) \in Seq(1 .. Len(q)) /\ Len(q) \in Nat /\ Len(w) \in Nat
    BY <1>1, FeedsType
  <1>5. Feeds(q) \in Seq(Nat)
    <2> \A i \in 1 .. Len(q) : i \in Nat
      OBVIOUS
    <2> QED
      BY <1>4
  <1> QED
    BY <1>3, <1>4, <1>5

\* The line feeds of two texts, one behind the other.
LEMMA FeedsCount ==
  ASSUME NEW T, NEW a \in Seq(T), NEW b \in Seq(T)
  PROVE  /\ Len(Feeds(a \o b)) = Len(Feeds(a)) + Len(Feeds(b))
         /\ Len(Feeds(a)) \in Nat
         /\ \A i \in 1 .. Len(Feeds(a)) : Feeds(a \o b)[i] = Feeds(a)[i]
  <1>1. PICK r \in Seq(Nat) : Feeds(a \o b) = Feeds(a) \o r /\ Len(r) = Len(Feeds(b))
    BY FeedsConcat
  <1>2. Feeds(a) \in Seq(1 .. Len(a))
    BY FeedsType
  <1>3. Feeds(a) \in Seq(Nat)
    <2> \A i \in 1 .. Len(a) : i \in Nat
      OBVIOUS
    <2> QED
      BY <1>2
  <1> DEFINE f == Feeds(a)
             g == Feeds(b)
  <1>4. f \in Seq(Nat) /\ g \in Seq(Nat)
    <2>1. Feeds(b) \in Seq(1 .. Len(b))
      BY FeedsType
    <2>2. \A i \in 1 .. Len(b) : i \in Nat
      OBVIOUS
    <2> QED
      BY <1>3, <2>1, <2>2
  <1>5. Feeds(a \o b) = f \o r /\ Len(r) = Len(g)
    BY <1>1
  <1> HIDE DEF f, g
  <1>6. /\ Len(f \o r) = Len(f) + Len(r)
        /\ Len(f) \in Nat
        /\ \A i \in 1 .. Len(f) : (f \o r)[i] = f[i]
    BY <1>4
  <1> QED
    BY <1>5, <1>6 DEF f, g

\* Without line feeds there are none.
LEMMA NoFeeds ==
  ASSUME NEW T, NEW s \in Seq(T), \A i \in 1 .. Len(s) : s[i] # LF
  PROVE  Feeds(s) = << >>
  <1> DEFINE H == {r \in Seq(T) : (\A i \in 1 .. Len(r) : r[i] # LF) => Feeds(r) = << >>}
  <1>1. << >> \in H
    BY FeedsEmpty
  <1>2. ASSUME NEW r \in Seq(T), NEW x \in T, r \in H PROVE r \o <<x>> \in H
    <2> DEFINE e == r \o <<x>>
    <2>0. e \in Seq(T)
      OBVIOUS
    <2> SUFFICES ASSUME \A i \in 1 .. Len(e) : e[i] # LF PROVE Feeds(e) = << >>
      BY <2>0
    <2>1. e[Len(e)] = x /\ Len(e) = Len(r) + 1 /\ \A i \in 1 .. Len(r) : e[i] = r[i]
      OBVIOUS
    <2>2. x # LF
      BY <2>1
    <2>3. Feeds(r) = << >>
      BY <1>2, <2>1
    <2>4. Feeds(e) = Feeds(r) \o FeedAt(x, Len(r) + 1)
      BY FeedsAppend
    <2>5. FeedAt(x, Len(r) + 1) = << >>
      BY <2>2 DEF FeedAt
    <2> QED
      BY <2>3, <2>4, <2>5
  <1> HIDE DEF H
  <1>3. \A r \in Seq(T) : r \in H
    BY <1>1, <1>2, SeqInd
  <1> QED
    BY <1>3 DEF H

\* Texts with two line feeds each.
LEMMA FeedsFlat ==
  ASSUME NEW T, NEW s \in Seq(Seq(T)), \A i \in 1 .. Len(s) : Len(Feeds(s[i])) = 2
  PROVE  Len(Feeds(FlattenSeq(s))) = 2 * Len(s)
  <1> DEFINE H == {r \in Seq(Seq(T)) :
                     (\A i \in 1 .. Len(r) : Len(Feeds(r[i])) = 2)
                       => Len(Feeds(FlattenSeq(r))) = 2 * Len(r)}
  <1>1. << >> \in H
    <2>1. Len(Feeds(FlattenSeq(<< >>))) = 2 * Len(<< >>) /\ << >> \in Seq(Seq(T))
      BY FeedsEmpty, FlatEmpty
    <2> QED
      BY <2>1
  <1>2. ASSUME NEW r \in Seq(Seq(T)), NEW x \in Seq(T), r \in H PROVE r \o <<x>> \in H
    <2> DEFINE e == r \o <<x>>
    <2>0. e \in Seq(Seq(T))
      OBVIOUS
    <2> SUFFICES ASSUME \A i \in 1 .. Len(e) : Len(Feeds(e[i])) = 2
                 PROVE  Len(Feeds(FlattenSeq(e))) = 2 * Len(e)
      BY <2>0
    <2>1. e[Len(r) + 1] = x /\ Len(e) = Len(r) + 1 /\ Len(r) \in Nat
          /\ \A i \in 1 .. Len(r) : e[i] = r[i]
      OBVIOUS
    <2> HIDE DEF e
    <2>2. Len(Feeds(x)) = 2
      BY <2>1
    <2>3. Len(Feeds(FlattenSeq(r))) = 2 * Len(r)
      BY <1>2, <2>1
    <2>4. FlattenSeq(e) = FlattenSeq(r) \o x /\ FlattenSeq(r) \in Seq(T)
      BY FlatAppend, FlatType DEF e
    <2>5. Len(Feeds(FlattenSeq(r) \o x)) = Len(Feeds(FlattenSeq(r))) + Len(Feeds(x))
      BY <2>4, FeedsCount
    <2> QED
      BY <2>1, <2>2, <2>3, <2>4, <2>5
  <1> HIDE DEF H
  <1>3. \A r \in Seq(Seq(T)) : r \in H
    BY <1>1, <1>2, SeqInd
  <1> QED
    BY <1>3 DEF H

\* The last element of sequences put together.
LEMMA FlatLast ==
  ASSUME NEW T, NEW s \in Seq(Seq(T)), s # << >>, s[Len(s)] # << >>
  PROVE  FlattenSeq(s) # << >>
         /\ FlattenSeq(s)[Len(FlattenSeq(s))] = s[Len(s)][Len(s[Len(s)])]
  <1> DEFINE q == SubSeq(s, 1, Len(s) - 1)
             x == s[Len(s)]
  <1>1. q \in Seq(Seq(T)) /\ x \in Seq(T) /\ s = q \o <<x>>
    BY SplitLast
  <1> HIDE DEF q
  <1>2. FlattenSeq(s) = FlattenSeq(q) \o x /\ FlattenSeq(q) \in Seq(T) /\ x # << >>
    BY <1>1, FlatAppend, FlatType
  <1> HIDE DEF x
  <1>3. Len(x) \in Nat /\ Len(x) > 0 /\ Len(FlattenSeq(q)) \in Nat
    BY <1>1, <1>2
  <1>4. Len(FlattenSeq(s)) = Len(FlattenSeq(q)) + Len(x)
        /\ FlattenSeq(s)[Len(FlattenSeq(q)) + Len(x)] = x[Len(x)]
    <2> DEFINE u == FlattenSeq(q)
    <2> u \in Seq(T)
      BY <1>2
    <2> HIDE DEF u
    <2> Len(u \o x) = Len(u) + Len(x) /\ (u \o x)[Len(u) + Len(x)] = x[Len(x)]
      BY <1>1, <1>3
    <2> QED
      BY <1>2 DEF u
  <1> QED
    BY <1>3, <1>4 DEF x

\* Sequences of sequences, one behind the other.
LEMMA FlatConcat ==
  ASSUME NEW T, NEW s \in Seq(Seq(T)), NEW t \in Seq(Seq(T))
  PROVE  FlattenSeq(s \o t) = FlattenSeq(s) \o FlattenSeq(t)
  <1> DEFINE H == {r \in Seq(Seq(T)) : FlattenSeq(s \o r) = FlattenSeq(s) \o FlattenSeq(r)}
  <1>0. \A r \in Seq(Seq(T)) : FlattenSeq(r) \in Seq(T)
    BY FlatType
  <1>1. << >> \in H
    <2>1. s \o << >> = s /\ FlattenSeq(s) \o << >> = FlattenSeq(s) /\ << >> \in Seq(Seq(T))
      BY <1>0
    <2> QED
      BY <2>1, FlatEmpty
  <1>2. ASSUME NEW r \in Seq(Seq(T)), NEW x \in Seq(T), r \in H PROVE r \o <<x>> \in H
    <2>1. s \o (r \o <<x>>) = (s \o r) \o <<x>> /\ s \o r \in Seq(Seq(T))
          /\ r \o <<x>> \in Seq(Seq(T))
      OBVIOUS
    <2>2. FlattenSeq((s \o r) \o <<x>>) = FlattenSeq(s \o r) \o x
      BY <2>1, FlatAppend
    <2>3. FlattenSeq(r \o <<x>>) = FlattenSeq(r) \o x
      BY FlatAppend
    <2>4. FlattenSeq(s \o r) = FlattenSeq(s) \o FlattenSeq(r)
      BY <1>2
    <2>5. (FlattenSeq(s) \o FlattenSeq(r)) \o x = FlattenSeq(s) \o (FlattenSeq(r) \o x)
      <3>1. FlattenSeq(s) \in Seq(T) /\ FlattenSeq(r) \in Seq(T) /\ x \in Seq(T)
        BY <1>0
      <3>2. JoinsAlike(FlattenSeq(s), FlattenSeq(r), x)
        BY <3>1, Joined
      <3> QED
        BY <3>2 DEF JoinsAlike
    <2> QED
      BY <2>1, <2>2, <2>3, <2>4, <2>5
  <1> HIDE DEF H
  <1>3. \A r \in Seq(Seq(T)) : r \in H
    BY <1>1, <1>2, SeqInd
  <1> QED
    BY <1>3 DEF H

-----------------------------------------------------------------------------
(* What a client sends.                                                    *)

Kinds == {"CR", "LF", "PING", "badcount", "count", "length", "string", "tail"}

Tokens == Nat \X Kinds \X Nat

\* The tokens of the k-th request, if it has n elements.
Own(k, n) == {t \in Tokens : t[2] = "count" => t[1] = k /\ t[3] = n}

\* The last token of a text is a line feed.
Ends(w) == w # << >> /\ w[Len(w)] = LF

\* A token is one of those its request may have, and knows what it was made of.
LEMMA TokenType ==
  ASSUME NEW k \in Nat, NEW n \in Nat, NEW kind \in Kinds, NEW i \in Nat,
         kind = "count" => i = n
  PROVE  /\ Token(k, kind, i) \in Own(k, n)
         /\ kind # "LF" => Token(k, kind, i) # LF
         /\ Token(k, kind, i)[1] = k /\ Token(k, kind, i)[2] = kind
         /\ Token(k, kind, i)[3] = i
  BY DEF Token, Own, Tokens, LF

\* The two characters of a line end are told apart by their kind.
LEMMA LineEnds ==
  ASSUME NEW k \in Nat, NEW n \in Nat
  PROVE  /\ CR \in Own(k, n) /\ LF \in Own(k, n)
         /\ CR[2] = "CR" /\ LF[2] = "LF" /\ CR # LF
  BY DEF CR, LF, Token, Own, Tokens, Kinds

\* A text in front of a line end has one line feed, at its end.
LEMMA LineIs ==
  ASSUME NEW k \in Nat, NEW n \in Nat, NEW t \in Own(k, n), t # LF
  PROVE  /\ <<t, CR, LF>> \in Seq(Own(k, n))
         /\ Len(Feeds(<<t, CR, LF>>)) = 1
         /\ Ends(<<t, CR, LF>>)
  <1>1. CR \in Own(k, n) /\ LF \in Own(k, n) /\ CR # LF
    BY LineEnds
  <1> DEFINE O == Own(k, n)
             a == <<t, CR>>
  <1> HIDE DEF O
  <1>2. a \in Seq(O) /\ Len(a) = 2 /\ a[1] = t /\ a[2] = CR
    BY <1>1 DEF O
  <1>3. <<t, CR, LF>> = a \o <<LF>> /\ <<t, CR, LF>> \in Seq(O)
    BY <1>1 DEF O
  <1> HIDE DEF a
  <1>4. \A i \in 1 .. Len(a) : a[i] # LF
    BY <1>1, <1>2
  <1>5. Feeds(a) = << >>
    BY <1>2, <1>4, NoFeeds
  <1>6. Feeds(a \o <<LF>>) = Feeds(a) \o FeedAt(LF, Len(a) + 1)
    BY <1>1, <1>2, FeedsAppend DEF O
  <1>7. FeedAt(LF, Len(a) + 1) = <<3>>
    BY <1>2 DEF FeedAt
  <1>8. Feeds(<<t, CR, LF>>) = <<3>>
    <2> << >> \o <<3>> = <<3>>
      OBVIOUS
    <2> QED
      BY <1>3, <1>5, <1>6, <1>7
  <1>9. Ends(<<t, CR, LF>>)
    BY DEF Ends
  <1> QED
    BY <1>3, <1>8, <1>9 DEF O

\* The part of an array that is its i-th element.
Element(k, r, i) ==
  Line(k, "length", i) \o
  IF i < r.n THEN Line(k, "string", i)
  ELSE <<Token(k, "string", i)>> \o (IF r.breaks THEN <<CR, LF>> ELSE << >>)
         \o Line(k, "tail", i)

Elements(k, r) == [i \in 1 .. r.n |-> Element(k, r, i)]

\* An array is its first line and its elements.
LEMMA ArrayWire ==
  ASSUME NEW k, NEW r, r.form = "array"
  PROVE  Wire(k, r) = Line(k, "count", r.n) \o FlattenSeq(Elements(k, r))
  BY DEF Wire, Elements, Element

\* Two texts, one behind the other.
LEMMA TwoTexts ==
  ASSUME NEW T, NEW a \in Seq(T), NEW b \in Seq(T), Ends(b)
  PROVE  /\ a \o b \in Seq(T) /\ Ends(a \o b)
         /\ Len(Feeds(a \o b)) = Len(Feeds(a)) + Len(Feeds(b))
  <1>1. Len(b) \in Nat /\ Len(b) > 0 /\ Len(a) \in Nat /\ b[Len(b)] = LF
    BY DEF Ends
  <1>2. a \o b \in Seq(T) /\ Len(a \o b) = Len(a) + Len(b)
        /\ (a \o b)[Len(a) + Len(b)] = b[Len(b)]
    BY <1>1
  <1>3. a \o b # << >>
    BY <1>1, <1>2
  <1>4. Ends(a \o b)
    BY <1>1, <1>2, <1>3 DEF Ends
  <1> QED
    BY <1>2, <1>4, FeedsCount

\* An element is made of tokens of its request, ends with a line end, and has two
\* lines unless there is a line end in the string.
LEMMA ElementIs ==
  ASSUME NEW k \in Nat, NEW r \in Requests, NEW i \in 1 .. r.n
  PROVE  /\ Element(k, r, i) \in Seq(Own(k, r.n))
         /\ Ends(Element(k, r, i))
         /\ ~r.breaks => Len(Feeds(Element(k, r, i))) = 2
  <1> DEFINE O == Own(k, r.n)
             a == Line(k, "length", i)
             s == Token(k, "string", i)
             b == Line(k, "string", i)
             m == IF r.breaks THEN <<CR, LF>> ELSE << >>
             z == Line(k, "tail", i)
  <1>0. r.n \in Nat /\ i \in Nat
    BY DEF Requests
  <1>1. /\ Token(k, "length", i) \in O /\ Token(k, "length", i) # LF
        /\ s \in O /\ s # LF
        /\ Token(k, "tail", i) \in O /\ Token(k, "tail", i) # LF
    <2> "length" \in Kinds /\ "string" \in Kinds /\ "tail" \in Kinds
      BY DEF Kinds
    <2> QED
      BY <1>0, TokenType
  <1>2. CR \in O /\ LF \in O
    BY <1>0, LineEnds
  <1>3. /\ a \in Seq(O) /\ Len(Feeds(a)) = 1 /\ Ends(a)
        /\ b \in Seq(O) /\ Len(Feeds(b)) = 1 /\ Ends(b)
        /\ z \in Seq(O) /\ Len(Feeds(z)) = 1 /\ Ends(z)
    BY <1>0, <1>1, LineIs DEF Line
  <1>4. Element(k, r, i) = a \o IF i < r.n THEN b ELSE <<s>> \o m \o z
    BY DEF Element
  <1> HIDE DEF O, a, b, z, s, m
  <1>5. <<s>> \o m \in Seq(O) /\ (~r.breaks => Len(Feeds(<<s>> \o m)) = 0)
    <2>1. <<s>> \in Seq(O) /\ << >> \in Seq(O) /\ <<CR, LF>> \in Seq(O)
      BY <1>1, <1>2
    <2>2. m \in Seq(O)
      BY <2>1 DEF m
    <2>3. <<s>> \o m \in Seq(O)
      BY <2>1, <2>2
    <2>4. ASSUME ~r.breaks PROVE Len(Feeds(<<s>> \o m)) = 0
      <3>1. m = << >>
        BY <2>4 DEF m
      <3>2. <<s>> \o m = <<s>>
        BY <3>1
      <3>3. \A j \in 1 .. Len(<<s>>) : <<s>>[j] # LF
        BY <1>1
      <3>4. Feeds(<<s>>) = << >>
        BY <2>1, <3>3, NoFeeds
      <3> QED
        <4> Len(<< >>) = 0
          OBVIOUS
        <4> QED
          BY <3>2, <3>4
    <2> QED
      BY <2>3, <2>4
  <1>6. /\ (<<s>> \o m) \o z \in Seq(O) /\ Ends((<<s>> \o m) \o z)
        /\ Len(Feeds((<<s>> \o m) \o z)) = Len(Feeds(<<s>> \o m)) + Len(Feeds(z))
    BY <1>3, <1>5, TwoTexts
  <1> DEFINE e == IF i < r.n THEN b ELSE (<<s>> \o m) \o z
  <1>7. e \in Seq(O) /\ Ends(e) /\ (~r.breaks => Len(Feeds(e)) = 1)
    <2>1. CASE i < r.n
      <3> e = b
        BY <2>1
      <3> QED
        BY <1>3
    <2>2. CASE ~(i < r.n)
      <3> e = (<<s>> \o m) \o z
        BY <2>2
      <3> HIDE DEF e
      <3>1. ~r.breaks => Len(Feeds(<<s>> \o m)) + Len(Feeds(z)) = 1
        <4> 0 + 1 = 1
          OBVIOUS
        <4> QED
          BY <1>3, <1>5, Zenon
      <3> QED
        BY <1>6, <3>1, Zenon
    <2> QED
      BY <2>1, <2>2
  <1>8. Element(k, r, i) = a \o e
    BY <1>4
  <1> HIDE DEF e
  <1>9. a \o e \in Seq(O) /\ Ends(a \o e) /\ Len(Feeds(a \o e)) = Len(Feeds(a)) + Len(Feeds(e))
    BY <1>3, <1>7, TwoTexts
  <1>10. ~r.breaks => Len(Feeds(a)) + Len(Feeds(e)) = 2
    <2> 1 + 1 = 2
      OBVIOUS
    <2> QED
      BY <1>3, <1>7, Zenon
  <1> QED
    BY <1>8, <1>9, <1>10, Zenon DEF O

\* A request is made of its own tokens and ends with a line end; its first line is
\* one token; and it has the lines it announces unless there is a line end in it.
LEMMA WireIs ==
  ASSUME NEW k \in Nat, NEW r \in Requests
  PROVE  /\ Wire(k, r) \in Seq(Own(k, r.n))
         /\ Ends(Wire(k, r))
         /\ r.form = "array" /\ ~r.breaks => Len(Feeds(Wire(k, r))) = 1 + 2 * r.n
  <1>0. r.n \in Nat /\ r.form \in {"array", "ping", "pingLF", "junk"}
        /\ (r.form = "array" => r.n > 0)
    BY DEF Requests
  <1> DEFINE O == Own(k, r.n)
  <1>2. CASE r.form = "array"
    <2> DEFINE a == Line(k, "count", r.n)
               p == Elements(k, r)
    <2>1. Token(k, "count", r.n) \in O /\ Token(k, "count", r.n) # LF
      <3> "count" \in Kinds
        BY DEF Kinds
      <3> QED
        BY <1>0, TokenType
    <2>2. a \in Seq(O) /\ Len(Feeds(a)) = 1
      BY <1>0, <2>1, LineIs DEF Line
    <2>3. \A i \in 1 .. r.n : /\ Element(k, r, i) \in Seq(O)
                              /\ Ends(Element(k, r, i))
                              /\ ~r.breaks => Len(Feeds(Element(k, r, i))) = 2
      BY ElementIs
    <2> HIDE DEF O
    <2>4. /\ p \in Seq(Seq(O)) /\ Len(p) = r.n /\ p # << >>
          /\ \A i \in 1 .. r.n : p[i] = Element(k, r, i)
      <3>1. p \in [1 .. r.n -> Seq(O)]
        BY <2>3 DEF Elements
      <3> QED
        BY <1>0, <1>2, <3>1 DEF Elements
    <2> HIDE DEF a, p
    <2>5. r.n \in 1 .. r.n
      BY <1>0, <1>2
    <2>6. p[Len(p)] # << >> /\ p[Len(p)][Len(p[Len(p)])] = LF
      BY <2>3, <2>4, <2>5 DEF Ends
    <2>7. FlattenSeq(p) \in Seq(O) /\ Ends(FlattenSeq(p))
      BY <2>4, <2>6, FlatType, FlatLast DEF Ends
    <2>8. ~r.breaks => Len(Feeds(FlattenSeq(p))) = 2 * r.n
      <3> SUFFICES ASSUME ~r.breaks PROVE Len(Feeds(FlattenSeq(p))) = 2 * r.n
        OBVIOUS
      <3>1. \A i \in 1 .. Len(p) : Len(Feeds(p[i])) = 2
        BY <2>3, <2>4
      <3> QED
        BY <2>4, <3>1, FeedsFlat
    <2>9. /\ a \o FlattenSeq(p) \in Seq(O) /\ Ends(a \o FlattenSeq(p))
          /\ Len(Feeds(a \o FlattenSeq(p))) = Len(Feeds(a)) + Len(Feeds(FlattenSeq(p)))
      BY <2>2, <2>7, TwoTexts
    <2>10. Wire(k, r) = a \o FlattenSeq(p)
      BY <1>2, ArrayWire DEF a, p
    <2> QED
      BY <2>2, <2>8, <2>9, <2>10 DEF O
  <1>3. CASE r.form \in {"ping", "junk"}
    <2> DEFINE t == Token(k, IF r.form = "ping" THEN "PING" ELSE "badcount", 0)
    <2>1. t \in O /\ t # LF
      <3> "PING" \in Kinds /\ "badcount" \in Kinds /\ 0 \in Nat
        BY DEF Kinds
      <3> QED
        BY <1>0, TokenType
    <2>2. Wire(k, r) = <<t, CR, LF>>
      BY <1>3 DEF Wire, Line
    <2> HIDE DEF t
    <2>3. <<t, CR, LF>> \in Seq(O) /\ Ends(<<t, CR, LF>>)
      BY <1>0, <2>1, LineIs
    <2> QED
      BY <1>3, <2>2, <2>3
  <1>4. CASE r.form = "pingLF"
    <2> DEFINE t == Token(k, "PING", 0)
    <2>1. t \in O /\ LF \in O
      <3> "PING" \in Kinds /\ 0 \in Nat
        BY DEF Kinds
      <3> QED
        BY <1>0, TokenType, LineEnds
    <2>2. Wire(k, r) = <<t, LF>>
      BY <1>4 DEF Wire
    <2> HIDE DEF t, O
    <2>3. <<t, LF>> \in Seq(O) /\ Ends(<<t, LF>>)
      BY <2>1 DEF Ends
    <2> QED
      BY <1>4, <2>2, <2>3 DEF O
  <1> QED
    BY <1>0, <1>2, <1>3, <1>4

-----------------------------------------------------------------------------
(* Lines of the buffer.                                                    *)

\* What comes before a place, and what comes behind it.
LEMMA SplitAt ==
  ASSUME NEW T, NEW b \in Seq(T), NEW j \in 1 .. Len(b)
  PROVE  /\ SubSeq(b, 1, j) \in Seq(T) /\ Len(SubSeq(b, 1, j)) = j
         /\ SubSeq(b, j + 1, Len(b)) \in Seq(T)
         /\ \A i \in 1 .. j : SubSeq(b, 1, j)[i] = b[i]
         /\ b = SubSeq(b, 1, j) \o SubSeq(b, j + 1, Len(b))
  <1>1. SubSeq(b, 1, j) \o SubSeq(b, j + 1, Len(b)) = SubSeq(b, 1, Len(b))
    <2> 1 \in 1 .. Len(b) + 1 /\ j \in 1 - 1 .. Len(b) /\ Len(b) \in j .. Len(b)
      OBVIOUS
    <2> QED
      BY ConcatAdjacentSubSeq
  <1>2. SubSeq(b, 1, Len(b)) = b
    BY SubSeqFull
  <1>3. SubSeq(b, 1, j) \in Seq(T) /\ Len(SubSeq(b, 1, j)) = j
        /\ \A i \in 1 .. j : SubSeq(b, 1, j)[i] = b[i]
    OBVIOUS
  <1>4. SubSeq(b, j + 1, Len(b)) \in Seq(T)
    OBVIOUS
  <1> QED
    BY <1>1, <1>2, <1>3, <1>4

\* The first line feed is the first one.
LEMMA FirstFeed ==
  ASSUME NEW T, NEW b \in Seq(T), NEW j \in 1 .. Len(b), b[j] = LF,
         \A i \in 1 .. j - 1 : b[i] # LF
  PROVE  Len(Feeds(b)) \in Nat \ {0} /\ Feeds(b)[1] = j
  <1> DEFINE w == SubSeq(b, 1, j)
             q == SubSeq(w, 1, Len(w) - 1)
  <1>1. w \in Seq(T) /\ Len(w) = j /\ b = w \o SubSeq(b, j + 1, Len(b))
        /\ SubSeq(b, j + 1, Len(b)) \in Seq(T) /\ \A i \in 1 .. j : w[i] = b[i]
    BY SplitAt
  <1> HIDE DEF w
  <1>2. j \in Nat /\ j >= 1 /\ w # << >>
    BY <1>1
  <1>3. q \in Seq(T) /\ Len(q) = j - 1 /\ w = q \o <<LF>> /\ LF \in T
    <2> w[Len(w)] = LF
      BY <1>1, <1>2
    <2> QED
      BY <1>1, <1>2, SplitLast
  <1> HIDE DEF q
  <1>4. \A i \in 1 .. Len(q) : q[i] # LF
    <2> TAKE i \in 1 .. Len(q)
    <2>1. i \in 1 .. j - 1 /\ i \in 1 .. j
      BY <1>2, <1>3
    <2>2. w[i] = q[i]
      BY <1>3, <2>1
    <2> QED
      BY <1>1, <2>1, <2>2
  <1>5. Feeds(q) = << >>
    BY <1>3, <1>4, NoFeeds
  <1>6. Feeds(w) = Feeds(q) \o FeedAt(LF, Len(q) + 1)
    BY <1>3, FeedsAppend
  <1>7. Len(q) + 1 = j /\ FeedAt(LF, j) = <<j>>
    BY <1>2, <1>3 DEF FeedAt
  <1>8. Feeds(w) = <<j>>
    <2> << >> \o <<j>> = <<j>>
      OBVIOUS
    <2> QED
      BY <1>5, <1>6, <1>7
  <1>9. /\ Len(Feeds(b)) = Len(Feeds(w)) + Len(Feeds(SubSeq(b, j + 1, Len(b))))
        /\ \A i \in 1 .. Len(Feeds(w)) : Feeds(b)[i] = Feeds(w)[i]
    <2> DEFINE z == SubSeq(b, j + 1, Len(b))
    <2> z \in Seq(T) /\ b = w \o z
      BY <1>1
    <2> HIDE DEF z
    <2> Len(Feeds(b)) = Len(Feeds(w)) + Len(Feeds(z))
        /\ \A i \in 1 .. Len(Feeds(w)) : Feeds(b)[i] = Feeds(w)[i]
      BY <1>1, FeedsCount
    <2> QED
      BY DEF z
  <1>10. Len(Feeds(SubSeq(b, j + 1, Len(b)))) \in Nat
    BY <1>1, FeedsType
  <1>11. Len(Feeds(w)) = 1 /\ Feeds(w)[1] = j
    BY <1>8
  <1> QED
    BY <1>9, <1>10, <1>11

\* Where there is a line feed, there is a line.
LEMMA SomeFeed ==
  ASSUME NEW T, NEW b \in Seq(T), NEW j \in 1 .. Len(b), b[j] = LF
  PROVE  Len(Feeds(b)) \in Nat \ {0}
  <1> DEFINE w == SubSeq(b, 1, j)
             z == SubSeq(b, j + 1, Len(b))
  <1>1. w \in Seq(T) /\ Len(w) = j /\ b = w \o z /\ z \in Seq(T) /\ w[j] = b[j]
    BY SplitAt
  <1> HIDE DEF w, z
  <1>2. w # << >> /\ w[Len(w)] = LF
    BY <1>1
  <1>3. Len(Feeds(w)) \in Nat /\ Len(Feeds(w)) > 0
    BY <1>1, <1>2, FeedsLast
  <1>4. Len(Feeds(w \o z)) = Len(Feeds(w)) + Len(Feeds(z))
    BY <1>1, FeedsCount
  <1>5. Len(Feeds(z)) \in Nat
    BY <1>1, FeedsType
  <1> QED
    BY <1>1, <1>3, <1>4, <1>5

\* The lines a text has, and where the j-th begins and ends.
Count(b) == Len(Feeds(b)) + IF Len(b) > 0 /\ Last(b) # LF THEN 1 ELSE 0
From(b, j) == IF j = 1 THEN 1 ELSE Feeds(b)[j - 1] + 1
To(b, j) == IF j <= Len(Feeds(b)) THEN Feeds(b)[j] - 1 ELSE Len(b)
Cap(b, m) == IF m < Count(b) THEN m ELSE Count(b)

\* Getlines by its parts.
LEMMA GetlinesIs ==
  ASSUME NEW b, NEW m
  PROVE  Getlines(b, m) = [j \in 1 .. Cap(b, m) |-> SubSeq(b, From(b, j), To(b, j))]
  BY DEF Getlines, Count, From, To, Cap

\* m lines are taken, or as many as there are.
LEMMA GetlinesType ==
  ASSUME NEW T, NEW b \in Seq(T), Len(Feeds(b)) \in Nat \ {0}, NEW m \in Nat, m > 0
  PROVE  /\ Getlines(b, m) \in Seq(Seq(T))
         /\ Len(Getlines(b, m)) \in 1 .. m
         /\ m <= Len(Feeds(b)) => Len(Getlines(b, m)) = m
         /\ Getlines(b, m)[1] = SubSeq(b, 1, Feeds(b)[1] - 1)
  <1>1. Count(b) \in Nat /\ Len(Feeds(b)) <= Count(b) /\ Count(b) <= Len(Feeds(b)) + 1
    BY DEF Count
  <1>2. Cap(b, m) \in 1 .. m /\ Cap(b, m) <= Count(b)
        /\ (m <= Len(Feeds(b)) => Cap(b, m) = m)
    BY <1>1 DEF Cap
  <1>3. Feeds(b) \in Seq(1 .. Len(b)) /\ Len(b) \in Nat
    BY FeedsType
  <1>4. ASSUME NEW j \in 1 .. Cap(b, m) PROVE SubSeq(b, From(b, j), To(b, j)) \in Seq(T)
    <2>1. From(b, j) \in Nat /\ From(b, j) >= 1
      <3>1. CASE j = 1
        BY <3>1 DEF From
      <3>2. CASE j # 1
        <4> j - 1 \in 1 .. Len(Feeds(b))
          BY <1>1, <1>2, <3>2
        <4> Feeds(b)[j - 1] \in 1 .. Len(b)
          BY <1>3
        <4> QED
          BY <3>2 DEF From
      <3> QED
        BY <3>1, <3>2
    <2>2. To(b, j) \in Int /\ To(b, j) <= Len(b)
      <3>1. CASE j <= Len(Feeds(b))
        <4> j \in 1 .. Len(Feeds(b))
          BY <1>2, <3>1
        <4> Feeds(b)[j] \in 1 .. Len(b)
          BY <1>3
        <4> QED
          BY <3>1, <1>3 DEF To
      <3>2. CASE ~(j <= Len(Feeds(b)))
        BY <3>2, <1>3 DEF To
      <3> QED
        BY <3>1, <3>2
    <2>3. \A i \in From(b, j) .. To(b, j) : b[i] \in T
      BY <1>3, <2>1, <2>2
    <2> QED
      BY <2>1, <2>2, <2>3, SubSeqProperties
  <1>5. Getlines(b, m) = [j \in 1 .. Cap(b, m) |-> SubSeq(b, From(b, j), To(b, j))]
    BY GetlinesIs
  <1>6. Getlines(b, m) \in Seq(Seq(T)) /\ Len(Getlines(b, m)) = Cap(b, m)
    <2> Getlines(b, m) \in [1 .. Cap(b, m) -> Seq(T)]
      BY <1>4, <1>5
    <2> QED
      BY <1>2
  <1>7. Getlines(b, m)[1] = SubSeq(b, 1, Feeds(b)[1] - 1)
    <2> 1 \in 1 .. Cap(b, m) /\ 1 <= Len(Feeds(b))
      BY <1>2
    <2> From(b, 1) = 1 /\ To(b, 1) = Feeds(b)[1] - 1
      BY DEF From, To
    <2> QED
      BY <1>5
  <1> QED
    BY <1>2, <1>6, <1>7

\* What is consumed has been taken.
LEMMA ExtentIn ==
  ASSUME NEW T, NEW b \in Seq(T), b # << >>, NEW m \in Nat, m > 0
  PROVE  Extent(b, m) \in 1 .. Len(b)
  <1>1. Feeds(b) \in Seq(1 .. Len(b)) /\ Len(b) \in Nat /\ Len(b) > 0
    BY FeedsType
  <1>2. CASE m <= Len(Feeds(b))
    <2> m \in 1 .. Len(Feeds(b))
      BY <1>1, <1>2
    <2> Feeds(b)[m] \in 1 .. Len(b)
      BY <1>1
    <2> QED
      BY <1>2 DEF Extent
  <1>3. CASE ~(m <= Len(Feeds(b)))
    BY <1>1, <1>3 DEF Extent
  <1> QED
    BY <1>2, <1>3

\* A text has at most as many line feeds as characters.
LEMMA FeedsFew ==
  ASSUME NEW T, NEW s \in Seq(T)
  PROVE  Len(Feeds(s)) <= Len(s)
  <1> DEFINE H == {r \in Seq(T) : Len(Feeds(r)) <= Len(r)}
  <1>1. << >> \in H
    <2> Len(Feeds(<< >>)) <= Len(<< >>) /\ << >> \in Seq(T)
      BY FeedsEmpty
    <2> QED
      OBVIOUS
  <1>2. ASSUME NEW r \in Seq(T), NEW x \in T, r \in H PROVE r \o <<x>> \in H
    <2>1. r \o <<x>> \in Seq(T) /\ Len(r \o <<x>>) = Len(r) + 1 /\ <<x>> \in Seq(T)
      OBVIOUS
    <2>2. Len(Feeds(r \o <<x>>)) = Len(Feeds(r)) + Len(Feeds(<<x>>))
          /\ Len(Feeds(r)) \in Nat
      BY <2>1, FeedsCount
    <2>3. Len(Feeds(<<x>>)) \in {0, 1}
      <3>1. Feeds(<< >> \o <<x>>) = Feeds(<< >>) \o FeedAt(x, Len(<< >>) + 1)
        <4> << >> \in Seq(T)
          OBVIOUS
        <4> QED
          BY FeedsAppend
      <3>2. << >> \o <<x>> = <<x>> /\ Len(<< >>) + 1 = 1
        OBVIOUS
      <3>3. Feeds(<<x>>) = << >> \o FeedAt(x, 1)
        BY <3>1, <3>2, FeedsEmpty
      <3>4. CASE x = LF
        <4>1. FeedAt(x, 1) = <<1>>
          BY <3>4 DEF FeedAt
        <4>2. Len(<< >> \o <<1>>) = 1
          OBVIOUS
        <4> QED
          BY <3>3, <4>1, <4>2
      <3>5. CASE x # LF
        <4>1. FeedAt(x, 1) = << >>
          BY <3>5 DEF FeedAt
        <4>2. Len(<< >> \o << >>) = 0
          OBVIOUS
        <4> QED
          BY <3>3, <4>1, <4>2
      <3> QED
        BY <3>4, <3>5
    <2>4. Len(Feeds(r)) <= Len(r) /\ Len(r) \in Nat
      BY <1>2
    <2>5. Len(Feeds(r \o <<x>>)) <= Len(r \o <<x>>)
      <3> DEFINE u == Len(Feeds(r))
                 v == Len(Feeds(<<x>>))
                 y == Len(Feeds(r \o <<x>>))
                 p == Len(r \o <<x>>)
                 q == Len(r)
      <3>1. u \in Nat /\ q \in Nat /\ v \in {0, 1} /\ y = u + v /\ p = q + 1 /\ u <= q
        BY <2>1, <2>2, <2>3, <2>4
      <3> HIDE DEF u, v, y, p, q
      <3>2. y <= p
        BY <3>1
      <3> QED
        BY <3>2 DEF y, p
    <2> QED
      BY <2>1, <2>5
  <1> HIDE DEF H
  <1>3. \A r \in Seq(T) : r \in H
    BY <1>1, <1>2, SeqInd
  <1> QED
    BY <1>3 DEF H

\* A part of the front is the same part of the whole.
LEMMA SamePart ==
  ASSUME NEW T, NEW w \in Seq(T), NEW b \in Seq(T), Len(w) <= Len(b), Same(b, w, Len(w)),
         NEW f \in Nat, f > 0, NEW t \in Int, t <= Len(w)
  PROVE  SubSeq(b, f, t) = SubSeq(w, f, t)
  <1>1. \A i \in f .. t : i \in 1 .. Len(w) /\ b[i] = w[i] /\ w[i] \in T
    BY DEF Same
  <1>2. /\ SubSeq(w, f, t) \in Seq(T)
        /\ Len(SubSeq(w, f, t)) = IF f <= t THEN t - f + 1 ELSE 0
        /\ \A i \in 1 .. t - f + 1 : SubSeq(w, f, t)[i] = w[f + i - 1]
    BY <1>1, SubSeqProperties
  <1>3. \A i \in f .. t : b[i] \in T
    BY <1>1
  <1>4. /\ SubSeq(b, f, t) \in Seq(T)
        /\ Len(SubSeq(b, f, t)) = IF f <= t THEN t - f + 1 ELSE 0
        /\ \A i \in 1 .. t - f + 1 : SubSeq(b, f, t)[i] = b[f + i - 1]
    BY <1>3, SubSeqProperties
  <1>5. \A i \in 1 .. Len(SubSeq(w, f, t)) : SubSeq(b, f, t)[i] = SubSeq(w, f, t)[i]
    <2> TAKE i \in 1 .. Len(SubSeq(w, f, t))
    <2>1. i \in 1 .. t - f + 1 /\ f + i - 1 \in f .. t
      BY <1>2
    <2> QED
      BY <1>1, <1>2, <1>4, <2>1
  <1>6. Len(SubSeq(b, f, t)) = Len(SubSeq(w, f, t))
    BY <1>2, <1>4
  <1> DEFINE p == SubSeq(b, f, t)
             q == SubSeq(w, f, t)
  <1>7. p \in Seq(T) /\ q \in Seq(T) /\ Len(p) = Len(q)
        /\ \A i \in 1 .. Len(q) : p[i] = q[i]
    BY <1>2, <1>4, <1>5, <1>6
  <1> HIDE DEF p, q
  <1>8. p = q
    BY <1>7
  <1> QED
    BY <1>8 DEF p, q

\* With a whole text in front, as many lines as it has are its lines, and it is
\* what they take up.
LEMMA WholeText ==
  ASSUME NEW T, NEW w \in Seq(T), Ends(w), NEW z \in Seq(T), NEW m, m = Len(Feeds(w))
  PROVE  /\ m \in Nat \ {0} /\ m <= Len(Feeds(w \o z))
         /\ Getlines(w \o z, m) = LinesOf(w)
         /\ Len(LinesOf(w)) = m
         /\ Extent(w \o z, m) = Len(w)
  <1> DEFINE b == w \o z
  <1>1. m \in Nat /\ m > 0 /\ Feeds(w)[m] = Len(w) /\ w # << >> /\ w[Len(w)] = LF
    BY FeedsLast DEF Ends
  <1>2. /\ Len(Feeds(b)) = m + Len(Feeds(z))
        /\ \A i \in 1 .. m : Feeds(b)[i] = Feeds(w)[i]
    BY FeedsCount
  <1>3. Len(Feeds(z)) \in Nat /\ Len(Feeds(b)) \in Nat /\ m <= Len(Feeds(b))
    <2> Len(Feeds(z)) \in Nat
      BY FeedsType
    <2> HIDE DEF b
    <2> QED
      BY <1>1, <1>2
  <1>4. Feeds(w) \in Seq(1 .. Len(w)) /\ Len(w) \in Nat /\ Len(w) > 0
    <2>1. Feeds(w) \in Seq(1 .. Len(w))
      BY FeedsType
    <2>2. Len(w) \in Nat /\ (w # << >> => Len(w) > 0)
      BY EmptySeq, LenProperties
    <2> QED
      BY <1>1, <2>1, <2>2, Zenon
  <1>5. /\ b \in Seq(T) /\ Len(w) <= Len(b) /\ Same(b, w, Len(w))
    BY DEF Same
  <1> HIDE DEF b
  <1>6. Cap(b, m) = m
    <2> Count(b) \in Int /\ m <= Count(b)
      BY <1>1, <1>3 DEF Count
    <2> QED
      BY <1>1 DEF Cap
  <1>7. Cap(w, Len(w)) = m
    <2>1. m <= Len(w)
      BY FeedsFew
    <2>2. Count(w) = m
      BY <1>1 DEF Count, Last
    <2> QED
      BY <1>1, <1>4, <2>1, <2>2 DEF Cap
  <1>8. ASSUME NEW j \in 1 .. m
        PROVE  SubSeq(b, From(b, j), To(b, j)) = SubSeq(w, From(w, j), To(w, j))
    <2>1. From(b, j) = From(w, j) /\ To(b, j) = To(w, j)
      <3> j <= Len(Feeds(b)) /\ (j # 1 => j - 1 \in 1 .. m)
        BY <1>1, <1>3
      <3> QED
        BY <1>1, <1>2 DEF From, To
    <2>2. From(w, j) \in Nat /\ From(w, j) > 0
      <3>1. CASE j = 1
        BY <3>1 DEF From
      <3>2. CASE j # 1
        <4> j - 1 \in 1 .. Len(Feeds(w))
          BY <1>1, <3>2
        <4> Feeds(w)[j - 1] \in 1 .. Len(w)
          BY <1>4
        <4> QED
          BY <3>2 DEF From
      <3> QED
        BY <3>1, <3>2
    <2>3. To(w, j) \in Int /\ To(w, j) <= Len(w)
      <3> Feeds(w)[j] \in 1 .. Len(w) /\ j <= Len(Feeds(w))
        BY <1>1, <1>4
      <3> QED
        BY <1>4 DEF To
    <2> QED
      <3> DEFINE f == From(w, j)
                 t == To(w, j)
      <3> HIDE DEF f, t
      <3>1. f \in Nat /\ f > 0 /\ t \in Int /\ t <= Len(w)
        BY <2>2, <2>3 DEF f, t
      <3>2. SubSeq(b, f, t) = SubSeq(w, f, t)
        BY <1>5, <3>1, SamePart
      <3> QED
        BY <2>1, <3>2 DEF f, t
  <1>9. /\ Getlines(b, m) = [j \in 1 .. m |-> SubSeq(b, From(b, j), To(b, j))]
        /\ Getlines(w, Len(w)) = [j \in 1 .. m |-> SubSeq(w, From(w, j), To(w, j))]
    BY <1>6, <1>7, GetlinesIs
  <1>10. Getlines(b, m) = LinesOf(w)
    BY <1>8, <1>9 DEF LinesOf
  <1>11. Len(LinesOf(w)) = m
    BY <1>1, <1>9 DEF LinesOf
  <1>12. Extent(b, m) = Len(w)
    <2> m \in 1 .. m
      BY <1>1
    <2> QED
      BY <1>1, <1>2, <1>3 DEF Extent
  <1> QED
    BY <1>1, <1>3, <1>10, <1>11, <1>12 DEF b

-----------------------------------------------------------------------------
(* The commands.                                                           *)

\* Every word is the name of a command, or unknown.
LEMMA OpsOf == ASSUME NEW word PROVE string2Ops(word) \in OPS
  <1>1. CASE toLower(word) \in [letters : OPS \ {"unknown"}, capital : {FALSE}]
    <2>1. toLower(word).letters \in OPS
      BY <1>1
    <2>2. toLower(word).letters = word.letters
      BY DEF toLower
    <2> QED
      BY <1>1, <2>1, <2>2 DEF string2Ops
  <1>2. CASE ~(toLower(word) \in [letters : OPS \ {"unknown"}, capital : {FALSE}])
    BY <1>2 DEF string2Ops, OPS
  <1> QED
    BY <1>1, <1>2

\* hset, when it pairs its operands, reads every one of them.
LEMMA HsetReadsAll ==
  ASSUME NEW n \in Nat, HsetAccepts(n)
  PROVE  HashReads("hset", n) = 1 .. n - 1
  <1>1. n >= 4 /\ (n - 1) % 2 = 1
    BY DEF HsetAccepts
  <1>2. HashReads("hset", n) = {1} \cup UNION {{p[1], p[2]} : p \in HsetPairs(n)}
    BY DEF HashReads
  <1>3. ASSUME NEW p \in HsetPairs(n), NEW x \in {p[1], p[2]} PROVE x \in 1 .. n - 1
    BY <1>1, <1>3 DEF HsetPairs
  <1>4. ASSUME NEW x \in 1 .. n - 1, x # 1
        PROVE  \E p \in HsetPairs(n) : x \in {p[1], p[2]}
    <2>1. CASE x % 2 = 0
      <3>1. x + 1 < n
        BY <1>1, <1>4, <2>1
      <3>2. <<x, x + 1>> \in HsetPairs(n)
        BY <1>4, <2>1, <3>1 DEF HsetPairs
      <3> QED
        BY <3>2
    <2>2. CASE x % 2 = 1
      <3>1. (x - 1) % 2 = 0 /\ x - 1 \in 2 .. n - 1 /\ (x - 1) + 1 < n
        BY <1>1, <1>4, <2>2
      <3>2. <<x - 1, (x - 1) + 1>> \in HsetPairs(n)
        BY <3>1 DEF HsetPairs
      <3>3. (x - 1) + 1 = x
        OBVIOUS
      <3> QED
        BY <3>2, <3>3
    <2> QED
      BY <2>1, <2>2
  <1>5. 1 \in 1 .. n - 1
    BY <1>1
  <1>6. \A x \in HashReads("hset", n) : x \in 1 .. n - 1
    BY <1>2, <1>3, <1>5
  <1>7. \A x \in 1 .. n - 1 : x \in HashReads("hset", n)
    BY <1>2, <1>4
  <1> QED
    BY <1>6, <1>7

\* The index sets that a handler may read.
LEMMA Upto == 1 .. 1 = {1} /\ 1 .. 2 = {1, 2} /\ 1 .. 3 = {1, 2, 3}
  OBVIOUS

\* A handler lets an argument vector through only if it is as long as it is read.
LEMMA ReadsMatch ==
  ASSUME NEW op \in OPS, NEW n \in Nat, HandlerAccepts(op, n), WrapperReads(op, n) # {}
  PROVE  WrapperReads(op, n) = IF op = "llen" THEN {1} ELSE 1 .. n - 1
  <1>1. CASE op \in BasicOps
    <2>1. WrapperReads(op, n) = BasicReads(op)
      BY <1>1 DEF WrapperReads, BasicOps, HashOps, ListOps, ZsetOps, SetOps
    <2>2. BasicAccepts(op, n)
      BY <1>1 DEF HandlerAccepts, BasicAccepts, HashAccepts, ListAccepts, ZsetAccepts,
         SetAccepts, BasicOps, StoreOps
    <2>3. BasicReads(op) # {}
      BY <2>1
    <2>4. \/ n - 1 = 1 /\ BasicReads(op) = {1}
          \/ n - 1 = 2 /\ BasicReads(op) = {1, 2}
          \/ n - 1 = 3 /\ BasicReads(op) = {1, 2, 3}
          \/ op = "llen" /\ BasicReads(op) = {1}
      BY <1>1, <2>2, <2>3 DEF BasicAccepts, BasicReads, BasicOps
    <2>5. op = "llen" => BasicReads(op) = {1}
      BY <1>1, <2>2 DEF BasicReads, BasicOps
    <2> QED
      BY <2>1, <2>4, <2>5, Upto
  <1>2. CASE op \in HashOps /\ op # "hset"
    <2>1. WrapperReads(op, n) = HashReads(op, n)
      BY <1>2 DEF WrapperReads, BasicOps, HashOps, ListOps, ZsetOps, SetOps
    <2>2. HashAccepts(op, n)
      BY <1>2 DEF HandlerAccepts, BasicAccepts, HashAccepts, ListAccepts, ZsetAccepts,
         SetAccepts, HashOps, StoreOps
    <2>3. HashReads(op, n) # {}
      BY <2>1
    <2>4. \/ n - 1 = 1 /\ HashReads(op, n) = {1}
          \/ n - 1 = 2 /\ HashReads(op, n) = {1, 2}
          \/ n - 1 = 3 /\ HashReads(op, n) = {1, 2, 3}
          \/ op = "llen" /\ HashReads(op, n) = {1}
      BY <1>2, <2>2, <2>3 DEF HashAccepts, HashReads, HashOps
    <2>5. op = "llen" => HashReads(op, n) = {1}
      BY <1>2, <2>2 DEF HashReads, HashOps
    <2> QED
      BY <2>1, <2>4, <2>5, Upto
  <1>3. CASE op \in ListOps
    <2>1. WrapperReads(op, n) = ListReads(op)
      BY <1>3 DEF WrapperReads, BasicOps, HashOps, ListOps, ZsetOps, SetOps
    <2>2. ListAccepts(op, n)
      BY <1>3 DEF HandlerAccepts, BasicAccepts, HashAccepts, ListAccepts, ZsetAccepts,
         SetAccepts, ListOps, StoreOps
    <2>3. ListReads(op) # {}
      BY <2>1
    <2>4. \/ n - 1 = 1 /\ ListReads(op) = {1}
          \/ n - 1 = 2 /\ ListReads(op) = {1, 2}
          \/ n - 1 = 3 /\ ListReads(op) = {1, 2, 3}
          \/ op = "llen" /\ ListReads(op) = {1}
      BY <1>3, <2>2, <2>3 DEF ListAccepts, ListReads, ListOps
    <2>5. op = "llen" => ListReads(op) = {1}
      BY <1>3, <2>2 DEF ListReads, ListOps
    <2> QED
      BY <2>1, <2>4, <2>5, Upto
  <1>4. CASE op \in ZsetOps
    <2>1. WrapperReads(op, n) = ZsetReads(op)
      BY <1>4 DEF WrapperReads, BasicOps, HashOps, ListOps, ZsetOps, SetOps
    <2>2. ZsetAccepts(op, n)
      BY <1>4 DEF HandlerAccepts, BasicAccepts, HashAccepts, ListAccepts, ZsetAccepts,
         SetAccepts, ZsetOps, StoreOps
    <2>3. ZsetReads(op) # {}
      BY <2>1
    <2>4. \/ n - 1 = 1 /\ ZsetReads(op) = {1}
          \/ n - 1 = 2 /\ ZsetReads(op) = {1, 2}
          \/ n - 1 = 3 /\ ZsetReads(op) = {1, 2, 3}
          \/ op = "llen" /\ ZsetReads(op) = {1}
      BY <1>4, <2>2, <2>3 DEF ZsetAccepts, ZsetReads, ZsetOps
    <2>5. op = "llen" => ZsetReads(op) = {1}
      BY <1>4, <2>2 DEF ZsetReads, ZsetOps
    <2> QED
      BY <2>1, <2>4, <2>5, Upto
  <1>5. CASE op \in SetOps
    <2>1. WrapperReads(op, n) = SetReads(op)
      BY <1>5 DEF WrapperReads, BasicOps, HashOps, ListOps, ZsetOps, SetOps
    <2>2. SetAccepts(op, n)
      BY <1>5 DEF HandlerAccepts, BasicAccepts, HashAccepts, ListAccepts, ZsetAccepts,
         SetAccepts, SetOps, StoreOps
    <2>3. SetReads(op) # {}
      BY <2>1
    <2>4. \/ n - 1 = 1 /\ SetReads(op) = {1}
          \/ n - 1 = 2 /\ SetReads(op) = {1, 2}
          \/ n - 1 = 3 /\ SetReads(op) = {1, 2, 3}
          \/ op = "llen" /\ SetReads(op) = {1}
      BY <1>5, <2>2, <2>3 DEF SetAccepts, SetReads, SetOps
    <2>5. op = "llen" => SetReads(op) = {1}
      BY <1>5, <2>2 DEF SetReads, SetOps
    <2> QED
      BY <2>1, <2>4, <2>5, Upto
  <1>6. CASE op = "hset"
    <2>1. WrapperReads(op, n) = HashReads("hset", n)
      BY <1>6 DEF WrapperReads, BasicOps, HashOps, ListOps, ZsetOps, SetOps
    <2>2. HsetAccepts(n)
      BY <2>1 DEF HashReads
    <2> QED
      BY <1>6, <2>1, <2>2, HsetReadsAll
  <1>7. CASE op \in StoreOps \cup {"ping", "unknown"}
    BY <1>7 DEF WrapperReads, BasicOps, HashOps, ListOps, ZsetOps, SetOps, SetOps, StoreOps
  <1> QED
    BY <1>1, <1>2, <1>3, <1>4, <1>5, <1>6, <1>7 DEF OPS

\* A reply of three parts.
LEMMA ThreeParts ==
  ASSUME NEW a \in {"+", "-", ":", "$", "*"}, NEW t, t # CRLF
  PROVE  Framed(<<a, t, CRLF>>)
  BY DEF Framed

\* A reply that is framed by the handler has three parts.
LEMMA ThreeJoined ==
  ASSUME NEW x, NEW y, NEW z
  PROVE  LET s == <<x>> \o <<y>> \o <<z>>
         IN  Len(s) = 3 /\ s[1] = x /\ s[2] = y /\ s[3] = z
  <1> DEFINE T == {x, y, z}
             p == <<x>> \o <<y>>
             s == p \o <<z>>
  <1>1. <<x>> \in Seq(T) /\ <<y>> \in Seq(T) /\ <<z>> \in Seq(T)
    OBVIOUS
  <1>2. /\ p \in Seq(T) /\ Len(p) = Len(<<x>>) + Len(<<y>>)
        /\ \A i \in 1 .. Len(<<x>>) + Len(<<y>>) :
             p[i] = IF i <= Len(<<x>>) THEN <<x>>[i] ELSE <<y>>[i - Len(<<x>>)]
    BY <1>1, ConcatProperties
  <1>3. Len(<<x>>) = 1 /\ Len(<<y>>) = 1 /\ Len(<<z>>) = 1
        /\ <<x>>[1] = x /\ <<y>>[1] = y /\ <<z>>[1] = z
    OBVIOUS
  <1>4. Len(p) = 2 /\ p[1] = x /\ p[2] = y
    BY <1>2, <1>3
  <1> HIDE DEF p
  <1>5. /\ Len(s) = Len(p) + Len(<<z>>)
        /\ \A i \in 1 .. Len(p) + Len(<<z>>) :
             s[i] = IF i <= Len(p) THEN p[i] ELSE <<z>>[i - Len(p)]
    <2> HIDE DEF T
    <2>1. p \in Seq(T) /\ <<z>> \in Seq(T)
      BY <1>1, <1>2
    <2> DEFINE q == <<z>>
    <2> HIDE DEF q
    <2>2. q \in Seq(T)
      BY <2>1 DEF q
    <2>3. /\ Len(p \o q) = Len(p) + Len(q)
          /\ \A i \in 1 .. Len(p) + Len(q) :
               (p \o q)[i] = IF i <= Len(p) THEN p[i] ELSE q[i - Len(p)]
      BY <2>1, <2>2, ConcatProperties
    <2> QED
      BY <2>3 DEF q
  <1> HIDE DEF s
  <1>6. Len(s) = 3 /\ s[1] = x /\ s[2] = y /\ s[3] = z
    BY <1>3, <1>4, <1>5
  <1> QED
    BY <1>6 DEF s, p

\* The wrapper frames its replies, except those of incr and decr.
LEMMA WrapperFramed ==
  ASSUME NEW op \in BasicOps \cup HashOps \cup ListOps \cup ZsetOps \cup SetOps,
         op \notin {"incr", "decr"}, NEW n
  PROVE  Framed(WrapperReply(op, n))
  <1>0. Framed(Integer("0")) /\ Framed(Integer("1")) /\ Framed(NullBulk) /\ Framed(EmptyArray)
        /\ Framed(Simple("OK")) /\ Framed(Error("arguments"))
    BY ThreeParts DEF Integer, NullBulk, EmptyArray, Simple, Error, CRLF
  <1>1. CASE op \in BasicOps
    <2>1. WrapperReply(op, n) = BasicReply(op)
      BY <1>1 DEF WrapperReply, BasicOps, HashOps, ListOps, ZsetOps, SetOps
    <2>2. BasicReply(op) \in {Simple("OK"), NullBulk, Integer("0"), Integer("1")}
      BY <1>1 DEF BasicReply, BasicOps
    <2> QED
      BY <1>0, <2>1, <2>2
  <1>2. CASE op \in HashOps
    <2>1. WrapperReply(op, n) = HashReply(op, n)
      BY <1>2 DEF WrapperReply, BasicOps, HashOps, ListOps, ZsetOps, SetOps
    <2>2. HashReply(op, n) \in {Integer("0"), Error("arguments"), NullBulk, Integer("1"), EmptyArray}
      BY <1>2 DEF HashReply, HashOps
    <2> QED
      BY <1>0, <2>1, <2>2
  <1>3. CASE op \in ListOps
    <2>1. WrapperReply(op, n) = ListReply(op)
      BY <1>3 DEF WrapperReply, BasicOps, HashOps, ListOps, ZsetOps, SetOps
    <2>2. ListReply(op) \in {Integer("1"), NullBulk, EmptyArray}
      BY <1>3 DEF ListReply, ListOps
    <2> QED
      BY <1>0, <2>1, <2>2
  <1>4. CASE op \in ZsetOps
    <2>1. WrapperReply(op, n) = ZsetReply(op)
      BY <1>4 DEF WrapperReply, BasicOps, HashOps, ListOps, ZsetOps, SetOps
    <2>2. ZsetReply(op) \in {Integer("0"), Integer("1"), NullBulk, EmptyArray}
      BY <1>4 DEF ZsetReply, ZsetOps
    <2> QED
      BY <1>0, <2>1, <2>2
  <1>5. CASE op \in SetOps
    <2>1. WrapperReply(op, n) = SetReply(op)
      BY <1>5 DEF WrapperReply, BasicOps, HashOps, ListOps, ZsetOps, SetOps
    <2>2. SetReply(op) \in {Integer("0"), Integer("1"), EmptyArray}
      BY <1>5 DEF SetReply, SetOps
    <2> QED
      BY <1>0, <2>1, <2>2
  <1> QED
    BY <1>1, <1>2, <1>3, <1>4, <1>5

\* What a handler answers is one value of the protocol.
LEMMA HandlerFramed ==
  ASSUME NEW op \in OPS, NEW n \in Nat
  PROVE  Framed(HandlerReply(op, n))
  <1>0. Framed(Error("arguments")) /\ Framed(Simple("OK"))
    BY ThreeParts DEF Simple, Error, CRLF
  <1>1. CASE ~HandlerAccepts(op, n)
    BY <1>0, <1>1 DEF HandlerReply
  <1>2. CASE HandlerAccepts(op, n) /\ op \in StoreOps
    BY <1>0, <1>2 DEF HandlerReply, StoreOps
  <1>3. CASE HandlerAccepts(op, n) /\ op \in {"incr", "decr"}
    <2>1. HandlerReply(op, n) = <<":">> \o WrapperReply(op, n) \o <<CRLF>>
      BY <1>3 DEF HandlerReply, StoreOps
    <2>2. WrapperReply(op, n) = BasicReply(op)
      BY <1>3 DEF WrapperReply, BasicOps, HashOps, ListOps, ZsetOps, SetOps
    <2>3. BasicReply(op) = <<"1">> \/ BasicReply(op) = <<"-1">>
      BY <1>3 DEF BasicReply
    <2>4. PICK t \in {"1", "-1"} : BasicReply(op) = <<t>>
      BY <2>3
    <2>5. t # CRLF
      BY DEF CRLF
    <2>6. HandlerReply(op, n) = <<":">> \o <<t>> \o <<CRLF>>
      BY <2>1, <2>2, <2>4
    <2> QED
      BY <2>5, <2>6, ThreeJoined DEF Framed
  <1>4. CASE HandlerAccepts(op, n) /\ op \notin StoreOps \cup {"incr", "decr"}
    <2>1. HandlerReply(op, n) = WrapperReply(op, n)
      BY <1>4 DEF HandlerReply
    <2>2. op \in BasicOps \cup HashOps \cup ListOps \cup ZsetOps \cup SetOps
      BY <1>4 DEF HandlerAccepts, BasicAccepts, HashAccepts, ListAccepts, ZsetAccepts,
         SetAccepts, BasicOps, HashOps, ListOps, ZsetOps, SetOps, StoreOps
    <2> QED
      BY <1>4, <2>1, <2>2, WrapperFramed
  <1> QED
    BY <1>1, <1>2, <1>3, <1>4

\* Whatever is asked for.
LEMMA ExecuteFramed ==
  ASSUME NEW r \in Requests
  PROVE  Framed(Execute(r))
  <1>1. string2Ops(r.word) \in OPS /\ r.n \in Nat
    BY OpsOf DEF Requests
  <1>2. Framed(PONG) /\ Framed(Error("unknown"))
    BY ThreeParts DEF PONG, Simple, Error, CRLF
  <1> QED
    BY <1>1, <1>2, HandlerFramed DEF Execute

-----------------------------------------------------------------------------
(* What the read handler makes of the buffer.                              *)

\* The first line of the buffer, its first token, the lines the request announces,
\* and the result of a run, by names.
Text(b) == Getlines(b, 1)[1]
HeadOf(b) == IF Text(b) = << >> THEN CR ELSE Text(b)[1]
LinesAt(b) == Getlines(b, 1 + 2 * HeadOf(b)[3])
Made(b, ls, reply, request) ==
  [used |-> Extent(b, Len(ls)), reply |-> reply, request |-> request]
IsPing(b) == Text(b) = <<Token(HeadOf(b)[1], "PING", 0)>>

\* Parsed by its parts.
LEMMA ParsedIs ==
  ASSUME NEW c, NEW b
  PROVE  Parsed(c, b) =
           CASE IsPing(b) -> Made(b, Getlines(b, 1), PONG, << >>)
             [] HeadOf(b)[2] = "badcount" ->
                  Made(b, Getlines(b, 1), Error("invalid number"), << >>)
             [] HeadOf(b)[2] = "count" ->
                  IF Len(LinesAt(b)) < 1 + 2 * HeadOf(b)[3]
                  THEN Made(b, LinesAt(b), Error("partial request"), << >>)
                  ELSE Made(b, LinesAt(b), handleRequest(c, LinesAt(b)), LinesAt(b))
             [] OTHER -> Made(b, Getlines(b, 1), Error("expected '*'"), << >>)
  BY DEF Parsed, IsPing, Made, LinesAt, HeadOf, Text

\* The inline command begins with its name.
LEMMA PingHead ==
  ASSUME NEW b, IsPing(b)
  PROVE  HeadOf(b)[2] = "PING"
  <1> DEFINE t == Token(HeadOf(b)[1], "PING", 0)
  <1>1. t[2] = "PING"
    BY DEF Token
  <1>2. Text(b) = <<t>>
    BY DEF IsPing
  <1> HIDE DEF t
  <1>3. <<t>> # << >> /\ <<t>>[1] = t
    OBVIOUS
  <1> QED
    BY <1>1, <1>2, <1>3 DEF HeadOf

\* The first line says which of the arms applies: they exclude each other.
LEMMA ParsedCases ==
  ASSUME NEW c, NEW b
  PROVE  /\ IsPing(b) => Parsed(c, b) = Made(b, Getlines(b, 1), PONG, << >>)
         /\ HeadOf(b)[2] = "badcount" =>
              Parsed(c, b) = Made(b, Getlines(b, 1), Error("invalid number"), << >>)
         /\ HeadOf(b)[2] = "count" =>
              Parsed(c, b) =
                IF Len(LinesAt(b)) < 1 + 2 * HeadOf(b)[3]
                THEN Made(b, LinesAt(b), Error("partial request"), << >>)
                ELSE Made(b, LinesAt(b), handleRequest(c, LinesAt(b)), LinesAt(b))
         /\ ~IsPing(b) /\ HeadOf(b)[2] \notin {"badcount", "count"} =>
              Parsed(c, b) = Made(b, Getlines(b, 1), Error("expected '*'"), << >>)
  BY ParsedIs, PingHead

\* The replies of a session, and what may be sent to it.
Replies ==
  {Nothing, PONG, Error("invalid number"), Error("partial request"), Error("expected '*'")}
    \cup {Execute(r) : r \in Requests}

Sendable(s) ==
  {t \in Tokens : t[2] = "count" => t[1] \in DOMAIN s /\ t[3] = s[t[1]].n}

\* Every reply that is not empty is one value of the protocol.
LEMMA RepliesFramed ==
  ASSUME NEW reply \in Replies
  PROVE  reply # Nothing <=> Framed(reply)
  <1>1. ~Framed(Nothing)
    <2> Len(Nothing) = 0
      BY DEF Nothing
    <2> QED
      BY DEF Framed
  <1>2. Framed(PONG) /\ Framed(Error("invalid number")) /\ Framed(Error("partial request"))
        /\ Framed(Error("expected '*'"))
    BY ThreeParts DEF PONG, Simple, Error, CRLF
  <1> QED
    BY <1>1, <1>2, ExecuteFramed DEF Replies

\* A run of the handler consumes something that is in the buffer, and what it passes
\* on begins with the first line of a request of the client.
LEMMA ParsedType ==
  ASSUME NEW c, script(c) \in Seq(Requests), NEW b \in Seq(Sendable(script(c))),
         Len(Feeds(b)) \in Nat \ {0}
  PROVE  /\ Parsed(c, b).used \in 1 .. Len(b)
         /\ Parsed(c, b).reply \in Replies
         /\ Parsed(c, b).request \in Seq(Seq(Sendable(script(c))))
         /\ Parsed(c, b).request # << >> => RequestOf(c, Parsed(c, b).request) \in Requests
  <1> DEFINE T == Sendable(script(c))
             p == Parsed(c, b)
  <1>1. b # << >>
    <2> ~(Len(Feeds(<< >>)) \in Nat \ {0})
      BY FeedsEmpty
    <2> QED
      OBVIOUS
  <1>2. /\ Getlines(b, 1) \in Seq(Seq(T)) /\ Len(Getlines(b, 1)) = 1
        /\ Text(b) \in Seq(T) /\ Text(b) = SubSeq(b, 1, Feeds(b)[1] - 1)
    <2>1. /\ Getlines(b, 1) \in Seq(Seq(T)) /\ Len(Getlines(b, 1)) \in 1 .. 1
          /\ Getlines(b, 1)[1] = SubSeq(b, 1, Feeds(b)[1] - 1)
      <3> HIDE DEF T
      <3> b \in Seq(T) /\ 1 \in Nat /\ 1 > 0
        BY DEF T
      <3> QED
        BY GetlinesType
    <2> QED
      BY <2>1 DEF Text
  <1>3. ASSUME NEW ls, Len(ls) \in Nat, Len(ls) > 0 PROVE Extent(b, Len(ls)) \in 1 .. Len(b)
    BY <1>1, <1>3, ExtentIn
  <1>4. ASSUME NEW reply \in Replies
        PROVE  /\ Made(b, Getlines(b, 1), reply, << >>).used \in 1 .. Len(b)
               /\ Made(b, Getlines(b, 1), reply, << >>).reply \in Replies
               /\ Made(b, Getlines(b, 1), reply, << >>).request = << >>
    <2> DEFINE ls == Getlines(b, 1)
    <2>0. Len(ls) = 1
      BY <1>2, Zenon
    <2> HIDE DEF ls
    <2>1. Len(ls) \in Nat /\ Len(ls) > 0
      BY <2>0
    <2>2. Extent(b, Len(ls)) \in 1 .. Len(b)
      BY <1>3, <2>1
    <2>3. /\ Made(b, ls, reply, << >>).used \in 1 .. Len(b)
          /\ Made(b, ls, reply, << >>).reply \in Replies
          /\ Made(b, ls, reply, << >>).request = << >>
      BY <2>2 DEF Made
    <2> QED
      BY <2>3 DEF ls
  <1>5. << >> \in Seq(Seq(T))
    OBVIOUS
  <1>6. /\ PONG \in Replies /\ Error("invalid number") \in Replies
        /\ Error("partial request") \in Replies /\ Error("expected '*'") \in Replies
        /\ Nothing \in Replies
    BY DEF Replies
  <1>7. CASE IsPing(b)
    BY <1>4, <1>5, <1>6, <1>7, ParsedCases
  <1>8. CASE HeadOf(b)[2] = "badcount"
    BY <1>4, <1>5, <1>6, <1>8, ParsedCases
  <1>9. CASE ~IsPing(b) /\ HeadOf(b)[2] \notin {"badcount", "count"}
    BY <1>4, <1>5, <1>6, <1>9, ParsedCases
  <1>10. CASE HeadOf(b)[2] = "count"
    <2> DEFINE h == HeadOf(b)
               m == 1 + 2 * h[3]
               ls == LinesAt(b)
    <2>1. Text(b) # << >> /\ h = Text(b)[1]
      <3> CR[2] # "count"
        BY DEF CR, Token
      <3> QED
        BY <1>10 DEF HeadOf
    <2>2. h \in T
      <3> HIDE DEF T
      <3> 1 \in 1 .. Len(Text(b))
        BY <1>2, <2>1
      <3> QED
        BY <1>2, <2>1
    <2>3. h[1] \in DOMAIN script(c) /\ h[3] = script(c)[h[1]].n
      BY <1>10, <2>2 DEF Sendable
    <2>4. script(c)[h[1]] \in Requests
      BY <2>3
    <2>5. h[3] \in Nat
      BY <2>3, <2>4 DEF Requests
    <2>6. m \in Nat /\ m > 0
      BY <2>5
    <2>7. /\ ls \in Seq(Seq(T)) /\ Len(ls) \in 1 .. m
          /\ ls[1] = Text(b)
      <3>1. ls = Getlines(b, m)
        BY DEF LinesAt
      <3> HIDE DEF ls, m, T
      <3>2. b \in Seq(T)
        BY DEF T
      <3>3. /\ Getlines(b, m) \in Seq(Seq(T)) /\ Len(Getlines(b, m)) \in 1 .. m
            /\ Getlines(b, m)[1] = SubSeq(b, 1, Feeds(b)[1] - 1)
        BY <2>6, <3>2, GetlinesType
      <3> QED
        BY <1>2, <3>1, <3>3
    <2> HIDE DEF m, ls, h
    <2>8. Len(ls) \in Nat /\ Len(ls) > 0
      BY <2>6, <2>7
    <2>9. RequestOf(c, ls) \in Requests
      <3> ls[1][1] = h
        BY <2>1, <2>7
      <3> QED
        BY <2>4 DEF RequestOf
    <2>10. handleRequest(c, ls) \in Replies
      BY <1>6, <2>9 DEF handleRequest, Replies
    <2>11. ASSUME NEW reply \in Replies, NEW q
           PROVE  /\ Made(b, ls, reply, q).used \in 1 .. Len(b)
                  /\ Made(b, ls, reply, q).reply \in Replies
                  /\ Made(b, ls, reply, q).request = q
      BY <1>3, <2>8 DEF Made
    <2>12. p = IF Len(ls) < m THEN Made(b, ls, Error("partial request"), << >>)
               ELSE Made(b, ls, handleRequest(c, ls), ls)
      BY <1>10, ParsedCases DEF ls, m, h
    <2> HIDE DEF p
    <2>13. CASE Len(ls) < m
      <3> p = Made(b, ls, Error("partial request"), << >>)
        BY <2>12, <2>13
      <3>1. Error("partial request") \in Replies
        BY <1>6, Zenon
      <3> DEFINE e == Error("partial request")
      <3> HIDE DEF e
      <3>2. /\ Made(b, ls, e, << >>).used \in 1 .. Len(b)
            /\ Made(b, ls, e, << >>).reply \in Replies
            /\ Made(b, ls, e, << >>).request = << >>
        BY <2>11, <3>1 DEF e
      <3> QED
        BY <1>5, <3>2, Zenon DEF p, e
    <2>14. CASE ~(Len(ls) < m)
      <3> p = Made(b, ls, handleRequest(c, ls), ls)
        BY <2>12, <2>14
      <3> QED
        BY <2>7, <2>9, <2>10, <2>11 DEF p
    <2> QED
      BY <2>13, <2>14
  <1> QED
    BY <1>7, <1>8, <1>9, <1>10

\* The first line, if a line end follows the first character.
LEMMA FirstLine ==
  ASSUME NEW T, NEW b \in Seq(T), Len(b) >= 3, b[1] # LF, b[2] = CR, b[3] = LF
  PROVE  /\ HeadOf(b) = b[1] /\ ~IsPing(b)
         /\ Len(Getlines(b, 1)) = 1 /\ Extent(b, 1) = 3
  <1>1. \A i \in 1 .. 3 - 1 : b[i] # LF
    <2> CR # LF
      BY LineEnds
    <2> \A i \in 1 .. 3 - 1 : i = 1 \/ i = 2
      OBVIOUS
    <2> QED
      OBVIOUS
  <1>2. Len(Feeds(b)) \in Nat \ {0} /\ Feeds(b)[1] = 3
    <2> 3 \in 1 .. Len(b)
      OBVIOUS
    <2> QED
      BY <1>1, FirstFeed
  <1>3. Len(Getlines(b, 1)) \in 1 .. 1 /\ Getlines(b, 1)[1] = SubSeq(b, 1, Feeds(b)[1] - 1)
    <2> 1 \in Nat /\ 1 > 0
      OBVIOUS
    <2> QED
      BY <1>2, GetlinesType
  <1>4. Text(b) = SubSeq(b, 1, 2)
    BY <1>2, <1>3 DEF Text
  <1>5. Len(SubSeq(b, 1, 2)) = 2 /\ SubSeq(b, 1, 2)[1] = b[1]
    <2> 2 \in 1 .. Len(b) /\ 1 \in 1 .. 2
      OBVIOUS
    <2> QED
      BY SplitAt
  <1>6. HeadOf(b) = b[1]
    <2> Len(<< >>) # 2
      OBVIOUS
    <2> QED
      BY <1>4, <1>5 DEF HeadOf
  <1>7. ~IsPing(b)
    <2> \A t : Len(<<t>>) # 2
      OBVIOUS
    <2> QED
      BY <1>4, <1>5 DEF IsPing
  <1>8. Extent(b, 1) = 3
    BY <1>2 DEF Extent
  <1> QED
    BY <1>3, <1>6, <1>7, <1>8

\* The first line of a request.
Lead(k, r) ==
  Token(k, IF r.form = "array" THEN "count" ELSE IF r.form = "ping" THEN "PING" ELSE "badcount",
        IF r.form = "array" THEN r.n ELSE 0)

\* A request that is not the inline PING ended by LF begins with a line of one
\* token; all but an array have no more than it.
LEMMA WireHead ==
  ASSUME NEW k \in Nat, NEW r \in Requests, r.form # "pingLF"
  PROVE  /\ Len(Wire(k, r)) \in Nat /\ Len(Wire(k, r)) >= 3
         /\ Wire(k, r)[1] # LF /\ Wire(k, r)[1] # CR
         /\ Wire(k, r)[2] = CR /\ Wire(k, r)[3] = LF
         /\ Wire(k, r)[1] = Lead(k, r)
         /\ r.form # "array" => Len(Wire(k, r)) = 3
  <1>0. r.n \in Nat /\ r.form \in {"array", "ping", "junk"}
    BY DEF Requests
  <1> DEFINE t == Lead(k, r)
             l == <<t, CR, LF>>
  <1>1. t # LF /\ t # CR /\ t \in Own(k, r.n)
    <2>1. Token(k, "count", r.n) # LF /\ Token(k, "PING", 0) # LF
          /\ Token(k, "badcount", 0) # LF
      BY DEF Token, LF
    <2>2. Token(k, "count", r.n) # CR /\ Token(k, "PING", 0) # CR
          /\ Token(k, "badcount", 0) # CR
      BY DEF Token, CR
    <2>3. /\ Token(k, "count", r.n) \in Own(k, r.n) /\ Token(k, "PING", 0) \in Own(k, r.n)
          /\ Token(k, "badcount", 0) \in Own(k, r.n)
      <3> "count" \in Kinds /\ "PING" \in Kinds /\ "badcount" \in Kinds /\ 0 \in Nat
        BY DEF Kinds
      <3> QED
        BY <1>0, TokenType
    <2> QED
      BY <1>0, <2>1, <2>2, <2>3 DEF Lead
  <1>2. CASE r.form # "array"
    <2>1. Wire(k, r) = l
      BY <1>0, <1>2 DEF Wire, Line, Lead
    <2> HIDE DEF t
    <2>2. Len(l) = 3 /\ l[1] = t /\ l[2] = CR /\ l[3] = LF
      OBVIOUS
    <2> HIDE DEF l
    <2> QED
      BY <1>1, <1>2, <2>1, <2>2 DEF t
  <1>3. CASE r.form = "array"
    <2> DEFINE z == FlattenSeq(Elements(k, r))
               O == Own(k, r.n)
    <2>1. Wire(k, r) = l \o z
      BY <1>3, ArrayWire DEF Line, Lead
    <2>2. z \in Seq(O)
      <3>1. \A i \in 1 .. r.n : Element(k, r, i) \in Seq(O)
        BY ElementIs
      <3> HIDE DEF O
      <3>2. Elements(k, r) \in [1 .. r.n -> Seq(O)]
        BY <3>1 DEF Elements
      <3>3. Elements(k, r) \in Seq(Seq(O))
        BY <1>0, <3>2
      <3> QED
        BY <3>3, FlatType
    <2> HIDE DEF t
    <2>3. l \in Seq(O) /\ Len(l) = 3 /\ l[1] = t /\ l[2] = CR /\ l[3] = LF
      <3>1. CR \in O /\ LF \in O /\ t \in O
        BY <1>0, <1>1, LineEnds
      <3> HIDE DEF O
      <3> QED
        BY <3>1
    <2> HIDE DEF l, z, O
    <2>4. Len(l \o z) \in Nat /\ Len(l \o z) >= 3 /\ \A i \in 1 .. 3 : (l \o z)[i] = l[i]
      <3>1. /\ Len(l \o z) = Len(l) + Len(z)
            /\ \A i \in 1 .. Len(l) + Len(z) :
                 (l \o z)[i] = IF i <= Len(l) THEN l[i] ELSE z[i - Len(l)]
        BY <2>2, <2>3, ConcatProperties
      <3>2. Len(z) \in Nat
        BY <2>2
      <3> QED
        BY <2>3, <3>1, <3>2
    <2>5. 1 \in 1 .. 3 /\ 2 \in 1 .. 3 /\ 3 \in 1 .. 3
      OBVIOUS
    <2> QED
      BY <1>1, <1>3, <2>1, <2>3, <2>4, <2>5 DEF t
  <1> QED
    BY <1>2, <1>3

\* What the assumption says of the play that was chosen.
LEMMA ScriptType ==
  ASSUME choice \in DOMAIN Scripts, NEW c \in Client
  PROVE  script(c) \in Seq(Requests)
  BY RedisServerAssumption DEF script

\* The lines of a request.
LEMMA LinesIs ==
  ASSUME choice \in DOMAIN Scripts, NEW c \in Client, NEW k \in DOMAIN script(c)
  PROVE  Lines[choice][c][k] = LinesOf(Wire(k, script(c)[k]))
  BY DEF Lines, script

\* A result taken apart.
LEMMA MadeIs ==
  ASSUME NEW b, NEW ls, NEW reply, NEW q
  PROVE  /\ Made(b, ls, reply, q).used = Extent(b, Len(ls))
         /\ Made(b, ls, reply, q).request = q
         /\ Made(b, ls, reply, q).reply = reply
  BY DEF Made

\* If the buffer begins with a request that is whole, or with one of a single line,
\* the handler takes it out, with the lines and the reply that it should.
LEMMA ParsedInStep ==
  ASSUME choice \in DOMAIN Scripts, NEW c \in Client, NEW k \in DOMAIN script(c),
         NEW b \in Seq(Sendable(script(c))), HasDelimiter(b),
         NEW w, w = Wire(k, script(c)[k]),
         \A i \in 1 .. Len(b) : i <= Len(w) => b[i] = w[i],
         script(c)[k].form = "array" => ~script(c)[k].breaks /\ Len(w) <= Len(b)
  PROVE  /\ Parsed(c, b).used = Len(w)
         /\ [request |-> Parsed(c, b).request, reply |-> Parsed(c, b).reply] \in Wanted(c, k)
  <1> DEFINE r == script(c)[k]
             T == Sendable(script(c))
  <1>0. /\ r \in Requests /\ k \in Nat /\ r.n \in Nat
        /\ r.form \in {"array", "ping", "pingLF", "junk"}
    <2>1. script(c) \in Seq(Requests)
      BY ScriptType
    <2>2. r \in Requests /\ k \in Nat
      BY <2>1
    <2> QED
      BY <2>2 DEF Requests
  <1>1. PICK d \in 1 .. Len(b) - 1 : b[d] = CR /\ b[d + 1] = LF
    BY DEF HasDelimiter
  <1>2. Len(b) \in Nat /\ Len(b) >= 2
    BY <1>1
  <1>3. CASE r.form = "pingLF"
    <2> DEFINE t == Token(k, "PING", 0)
    <2>1. w = <<t, LF>>
      BY <1>3 DEF Wire
    <2>2. t # LF /\ t[1] = k
      BY DEF Token, LF
    <2> HIDE DEF t
    <2>3. Len(w) = 2 /\ w[1] = t /\ w[2] = LF
      BY <2>1
    <2>4. b[1] = t /\ b[2] = LF
      BY <1>2, <2>3
    <2>5. Len(Feeds(b)) \in Nat \ {0} /\ Feeds(b)[1] = 2
      <3> 2 \in 1 .. Len(b)
        BY <1>2
      <3> \A i \in 1 .. 2 - 1 : b[i] # LF
        BY <2>2, <2>4
      <3> HIDE DEF T
      <3> QED
        BY <2>4, FirstFeed
    <2>6. Len(Getlines(b, 1)) \in 1 .. 1 /\ Getlines(b, 1)[1] = SubSeq(b, 1, Feeds(b)[1] - 1)
      <3> 1 \in Nat /\ 1 > 0
        OBVIOUS
      <3> QED
        BY <2>5, GetlinesType
    <2>7. Text(b) = SubSeq(b, 1, 1)
      BY <2>5, <2>6 DEF Text
    <2>8. SubSeq(b, 1, 1) = <<t>>
      <3>1. b \in Seq(T) /\ 1 \in 1 .. Len(b) /\ 1 \in 1 .. 1
        BY <1>2
      <3> DEFINE p == SubSeq(b, 1, 1)
      <3> HIDE DEF T
      <3>2. p \in Seq(T) /\ Len(p) = 1 /\ p[1] = b[1]
        BY <3>1, SplitAt
      <3> HIDE DEF p
      <3>3. p = <<b[1]>>
        BY <3>2
      <3> QED
        BY <2>4, <3>3 DEF p
    <2>9. HeadOf(b) = t /\ IsPing(b)
      <3> <<t>> # << >> /\ <<t>>[1] = t
        OBVIOUS
      <3>1. HeadOf(b) = t
        BY <2>7, <2>8 DEF HeadOf
      <3>2. Token(t[1], "PING", 0) = t
        BY <2>2 DEF t
      <3> QED
        BY <2>7, <2>8, <3>1, <3>2 DEF IsPing
    <2>10. Parsed(c, b) = Made(b, Getlines(b, 1), PONG, << >>)
      BY <2>9, ParsedCases
    <2>11. Extent(b, 1) = 2 /\ Len(Getlines(b, 1)) = 1
      BY <2>5, <2>6 DEF Extent
    <2>12. Wanted(c, k) = {[request |-> << >>, reply |-> PONG]}
      BY <1>3 DEF Wanted
    <2> QED
      <3>1. /\ Parsed(c, b).used = Extent(b, Len(Getlines(b, 1)))
            /\ Parsed(c, b).request = << >>
            /\ Parsed(c, b).reply = PONG
        BY <2>10, MadeIs
      <3>2. Extent(b, Len(Getlines(b, 1))) = Len(w)
        BY <2>3, <2>11
      <3> QED
        BY <3>1, <3>2, <2>12
  <1>4. ASSUME r.form # "pingLF"
        PROVE  /\ Len(b) >= 3 /\ b[1] = w[1]
               /\ HeadOf(b) = b[1] /\ ~IsPing(b)
               /\ Len(Getlines(b, 1)) = 1 /\ Extent(b, 1) = 3
    <2>1. /\ Len(w) \in Nat /\ Len(w) >= 3 /\ w[1] # LF /\ w[1] # CR /\ w[2] = CR /\ w[3] = LF
      BY <1>0, <1>4, WireHead
    <2>2. Len(b) # 2
      <3> SUFFICES ASSUME Len(b) = 2 PROVE FALSE
        OBVIOUS
      <3> d = 1
        BY <1>1
      <3> b[1] = w[1]
        BY <1>2, <2>1
      <3> QED
        BY <1>1, <2>1
    <2>3. Len(b) >= 3
      <3> DEFINE n == Len(b)
      <3>1. n \in Nat /\ n >= 2 /\ n # 2
        BY <1>2, <2>2, Zenon
      <3> HIDE DEF n
      <3>2. n >= 3
        BY <3>1
      <3> QED
        BY <3>2 DEF n
    <2>4. b[1] = w[1] /\ b[2] = CR /\ b[3] = LF
      BY <2>1, <2>3
    <2> HIDE DEF T
    <2>5. b \in Seq(T)
      BY DEF T
    <2>6. /\ HeadOf(b) = b[1] /\ ~IsPing(b)
          /\ Len(Getlines(b, 1)) = 1 /\ Extent(b, 1) = 3
      BY <2>1, <2>3, <2>4, <2>5, FirstLine
    <2> QED
      BY <2>3, <2>4, <2>6
  <1>5. CASE r.form = "ping"
    <2>1. w[1] = Token(k, "PING", 0) /\ Len(w) = 3
      BY <1>0, <1>5, WireHead DEF Lead
    <2>2. HeadOf(b)[2] = "PING"
      BY <1>4, <1>5, <2>1 DEF Token
    <2>3. Parsed(c, b) = Made(b, Getlines(b, 1), Error("expected '*'"), << >>)
      <3>1. ~IsPing(b) /\ HeadOf(b)[2] \notin {"badcount", "count"}
        BY <1>4, <1>5, <2>2
      <3> QED
        BY <3>1, ParsedCases, Zenon
    <2>4. [request |-> << >>, reply |-> Error("expected '*'")] \in Wanted(c, k)
      BY <1>5 DEF Wanted
    <2> QED
      <3>1. /\ Parsed(c, b).used = Extent(b, Len(Getlines(b, 1)))
            /\ Parsed(c, b).request = << >>
            /\ Parsed(c, b).reply = Error("expected '*'")
        <4> DEFINE e == Error("expected '*'")
        <4> HIDE DEF e
        <4>1. Parsed(c, b) = Made(b, Getlines(b, 1), e, << >>)
          BY <2>3 DEF e
        <4>2. /\ Parsed(c, b).used = Extent(b, Len(Getlines(b, 1)))
              /\ Parsed(c, b).request = << >>
              /\ Parsed(c, b).reply = e
          BY <4>1, MadeIs
        <4> QED
          BY <4>2 DEF e
      <3>2. Extent(b, Len(Getlines(b, 1))) = Len(w)
        BY <1>4, <1>5, <2>1
      <3> QED
        BY <3>1, <3>2, <2>4
  <1>6. CASE r.form = "junk"
    <2>1. w[1] = Token(k, "badcount", 0) /\ Len(w) = 3
      BY <1>0, <1>6, WireHead DEF Lead
    <2>2. HeadOf(b)[2] = "badcount"
      BY <1>4, <1>6, <2>1 DEF Token
    <2>3. Parsed(c, b) = Made(b, Getlines(b, 1), Error("invalid number"), << >>)
      BY <2>2, ParsedCases
    <2>4. Wanted(c, k) = {[request |-> << >>, reply |-> Error("invalid number")]}
      BY <1>6 DEF Wanted
    <2> QED
      <3>1. /\ Parsed(c, b).used = Extent(b, Len(Getlines(b, 1)))
            /\ Parsed(c, b).request = << >>
            /\ Parsed(c, b).reply = Error("invalid number")
        <4> DEFINE e == Error("invalid number")
        <4> HIDE DEF e
        <4>1. Parsed(c, b) = Made(b, Getlines(b, 1), e, << >>)
          BY <2>3 DEF e
        <4>2. /\ Parsed(c, b).used = Extent(b, Len(Getlines(b, 1)))
              /\ Parsed(c, b).request = << >>
              /\ Parsed(c, b).reply = e
          BY <4>1, MadeIs
        <4> QED
          BY <4>2 DEF e
      <3>2. Extent(b, Len(Getlines(b, 1))) = Len(w)
        BY <1>4, <1>6, <2>1
      <3> QED
        BY <3>1, <3>2, <2>4
  <1>7. CASE r.form = "array"
    <2> DEFINE m == 1 + 2 * r.n
               z == SubSeq(b, Len(w) + 1, Len(b))
    <2>1. w[1] = Token(k, "count", r.n) /\ Len(w) \in Nat /\ Len(w) >= 3
      BY <1>0, <1>7, WireHead DEF Lead
    <2>2. HeadOf(b)[2] = "count" /\ HeadOf(b)[3] = r.n
      BY <1>4, <1>7, <2>1 DEF Token
    <2>3. ~r.breaks /\ Len(w) <= Len(b)
      BY <1>7
    <2>4. w \in Seq(T) /\ Ends(w) /\ Len(Feeds(w)) = m
      <3>1. w \in Seq(Own(k, r.n)) /\ Ends(w) /\ Len(Feeds(w)) = m
        BY <1>0, <1>7, <2>3, WireIs
      <3>2. \A t \in Own(k, r.n) : t \in T
        BY DEF Own, Sendable
      <3> HIDE DEF T
      <3>3. w \in Seq(T)
        BY <3>1, <3>2
      <3> QED
        BY <3>1, <3>3
    <2> HIDE DEF T
    <2>5. z \in Seq(T) /\ b = w \o z
      <3>1. b \in Seq(T) /\ Len(w) \in 1 .. Len(b)
        BY <1>2, <2>1, <2>3 DEF T
      <3>2. /\ SubSeq(b, 1, Len(w)) \in Seq(T) /\ Len(SubSeq(b, 1, Len(w))) = Len(w)
            /\ z \in Seq(T)
            /\ \A i \in 1 .. Len(w) : SubSeq(b, 1, Len(w))[i] = b[i]
            /\ b = SubSeq(b, 1, Len(w)) \o z
        BY <3>1, SplitAt
      <3> DEFINE p == SubSeq(b, 1, Len(w))
      <3>3. \A i \in 1 .. Len(w) : b[i] = w[i]
        BY <1>2, <2>1, <2>3
      <3>4. p \in Seq(T) /\ Len(p) = Len(w) /\ \A i \in 1 .. Len(w) : p[i] = w[i]
        BY <3>2, <3>3
      <3> HIDE DEF p
      <3>5. p = w
        BY <2>4, <3>4
      <3> QED
        BY <3>2, <3>5 DEF p
    <2> HIDE DEF z
    <2>6. /\ m \in Nat \ {0} /\ m <= Len(Feeds(w \o z))
          /\ Getlines(w \o z, m) = LinesOf(w)
          /\ Len(LinesOf(w)) = m
          /\ Extent(w \o z, m) = Len(w)
      <3> HIDE DEF m
      <3> QED
        BY <2>4, <2>5, WholeText
    <2>7. LinesAt(b) = LinesOf(w)
      BY <2>2, <2>5, <2>6 DEF LinesAt
    <2>8. Parsed(c, b) = Made(b, LinesOf(w), handleRequest(c, LinesOf(w)), LinesOf(w))
      <3>1. ~(Len(LinesAt(b)) < 1 + 2 * HeadOf(b)[3])
        BY <2>2, <2>6, <2>7
      <3> QED
        BY <2>2, <2>7, <3>1, ParsedCases
    <2>9. Wanted(c, k) = {[request |-> LinesOf(w), reply |-> handleRequest(c, LinesOf(w))]}
      BY <1>7, LinesIs DEF Wanted
    <2> HIDE DEF m, r
    <2> QED
      <3>1. /\ Parsed(c, b).used = Extent(b, Len(LinesOf(w)))
            /\ Parsed(c, b).request = LinesOf(w)
            /\ Parsed(c, b).reply = handleRequest(c, LinesOf(w))
        BY <2>8, MadeIs
      <3>2. Extent(b, Len(LinesOf(w))) = Len(w)
        BY <2>5, <2>6
      <3> QED
        BY <3>1, <3>2, <2>9
  <1> QED
    BY <1>0, <1>3, <1>5, <1>6, <1>7

-----------------------------------------------------------------------------
(* The stream of a client.                                                 *)

\* The requests of a stream, each as it is sent.
Pieces(s) == [k \in DOMAIN s |-> Wire(k, s[k])]

\* Where the requests behind the l-th begin.
Start(s, l) == Len(FlattenSeq(SubSeq(Pieces(s), 1, l)))

\* A stream is made of tokens that the read handler can read.
LEMMA PiecesType ==
  ASSUME NEW s \in Seq(Requests)
  PROVE  /\ Pieces(s) \in Seq(Seq(Sendable(s))) /\ Len(Pieces(s)) = Len(s)
         /\ \A k \in 1 .. Len(s) : Pieces(s)[k] = Wire(k, s[k])
         /\ Wires(s) = FlattenSeq(Pieces(s)) /\ Wires(s) \in Seq(Sendable(s))
  <1> DEFINE T == Sendable(s)
  <1>1. Len(s) \in Nat /\ DOMAIN s = 1 .. Len(s)
    OBVIOUS
  <1>2. ASSUME NEW k \in 1 .. Len(s) PROVE Wire(k, s[k]) \in Seq(T)
    <2>1. k \in Nat /\ s[k] \in Requests
      BY <1>1
    <2>2. Wire(k, s[k]) \in Seq(Own(k, s[k].n))
      BY <2>1, WireIs
    <2>3. \A t \in Own(k, s[k].n) : t \in T
      BY <1>1 DEF Own, Sendable
    <2> HIDE DEF T
    <2> QED
      BY <2>2, <2>3
  <1> HIDE DEF T
  <1>3. Pieces(s) \in [1 .. Len(s) -> Seq(T)]
    BY <1>1, <1>2 DEF Pieces
  <1>4. Pieces(s) \in Seq(Seq(T)) /\ Len(Pieces(s)) = Len(s)
    BY <1>1, <1>3
  <1>5. Wires(s) = FlattenSeq(Pieces(s))
    BY DEF Wires, Pieces
  <1>6. \A k \in 1 .. Len(s) : Pieces(s)[k] = Wire(k, s[k])
    BY <1>1 DEF Pieces
  <1> QED
    BY <1>4, <1>5, <1>6, FlatType DEF T

\* The first request begins at the beginning, and behind the last there is nothing.
LEMMA StartEnds ==
  ASSUME NEW s \in Seq(Requests)
  PROVE  Start(s, 0) = 0 /\ Start(s, Len(s)) = Len(Wires(s))
  <1>1. SubSeq(Pieces(s), 1, 0) = << >>
    BY SubSeqEmpty
  <1>2. SubSeq(Pieces(s), 1, Len(s)) = Pieces(s)
    <2> DEFINE p == Pieces(s)
    <2>1. p \in Seq(Seq(Sendable(s))) /\ Len(p) = Len(s)
      BY PiecesType
    <2> HIDE DEF p
    <2>2. SubSeq(p, 1, Len(p)) = p
      BY <2>1, SubSeqFull
    <2> QED
      BY <2>1, <2>2 DEF p
  <1>3. FlattenSeq(SubSeq(Pieces(s), 1, 0)) = << >>
    BY <1>1, FlatEmpty
  <1>4. Len(<< >>) = 0
    OBVIOUS
  <1> QED
    BY <1>2, <1>3, <1>4, PiecesType DEF Start

\* Each request stands between its beginning and that of the next one.
LEMMA StreamAt ==
  ASSUME NEW s \in Seq(Requests), NEW k \in 1 .. Len(s), NEW w, w = Wire(k, s[k])
  PROVE  /\ Start(s, k - 1) \in Nat /\ Len(w) \in Nat /\ Len(w) > 0
         /\ Start(s, k) = Start(s, k - 1) + Len(w)
         /\ Start(s, k) <= Len(Wires(s))
         /\ \A i \in 1 .. Len(w) : Wires(s)[Start(s, k - 1) + i] = w[i]
  <1> DEFINE T == Sendable(s)
             p == Pieces(s)
             q == SubSeq(p, 1, k - 1)
             z == SubSeq(p, k + 1, Len(p))
             u == FlattenSeq(q)
             v == FlattenSeq(z)
  <1>1. p \in Seq(Seq(T)) /\ Len(p) = Len(s) /\ p[k] = w /\ Wires(s) = FlattenSeq(p)
    BY PiecesType
  <1>2. k \in Nat /\ k - 1 \in Nat /\ k \in 1 .. Len(p) /\ Len(p) \in Nat
    BY <1>1
  <1>3. w \in Seq(T) /\ w # << >>
    <2>1. s[k] \in Requests
      OBVIOUS
    <2>2. Ends(w)
      BY <1>2, <2>1, WireIs
    <2> HIDE DEF T, p
    <2>3. p[k] \in Seq(T)
      BY <1>1, <1>2
    <2> QED
      BY <1>1, <2>2, <2>3 DEF Ends
  <1> HIDE DEF T, p
  <1>4. SubSeq(p, 1, k) = q \o <<w>> /\ q \in Seq(Seq(T))
    <2>1. SubSeq(p, 1, k) = SubSeq(p, 1, k - 1) \o <<p[k]>>
      <3> 1 \in 1 .. Len(p) /\ k \in 1 .. Len(p)
        BY <1>2
      <3> QED
        BY <1>1, SubSeqRecursiveSecond
    <2>2. SubSeq(p, 1, k - 1) \in Seq(Seq(T))
      <3> \A i \in 1 .. k - 1 : p[i] \in Seq(T)
        BY <1>1, <1>2
      <3> QED
        BY <1>2, SubSeqProperties
    <2> QED
      BY <1>1, <2>1, <2>2
  <1>5. z \in Seq(Seq(T)) /\ p = SubSeq(p, 1, k) \o z
    BY <1>1, <1>2, SplitAt
  <1> HIDE DEF q, z
  <1>6. FlattenSeq(SubSeq(p, 1, k)) = u \o w
    BY <1>3, <1>4, FlatAppend
  <1>7. u \in Seq(T) /\ v \in Seq(T)
    BY <1>4, <1>5, FlatType
  <1>8. SubSeq(p, 1, k) \in Seq(Seq(T))
    <2> <<w>> \in Seq(Seq(T))
      BY <1>3
    <2> q \o <<w>> \in Seq(Seq(T))
      BY <1>4
    <2> QED
      BY <1>4
  <1>9. Wires(s) = (u \o w) \o v
    <2> FlattenSeq(SubSeq(p, 1, k) \o z) = FlattenSeq(SubSeq(p, 1, k)) \o FlattenSeq(z)
      BY <1>5, <1>8, FlatConcat
    <2> QED
      BY <1>1, <1>5, <1>6
  <1>10. Start(s, k) = Len(u \o w) /\ Start(s, k - 1) = Len(u)
    BY <1>6 DEF Start, p, q
  <1> HIDE DEF u, v
  <1>11. /\ Len(u \o w) = Len(u) + Len(w) /\ Len(u) \in Nat /\ Len(w) \in Nat /\ Len(w) > 0
         /\ Len((u \o w) \o v) = Len(u) + Len(w) + Len(v) /\ Len(v) \in Nat
         /\ \A i \in 1 .. Len(w) : ((u \o w) \o v)[Len(u) + i] = w[i]
    BY <1>3, <1>7
  <1> DEFINE x == (u \o w) \o v
             f == Start(s, k - 1)
             g == Start(s, k)
  <1>12. Wires(s) = x /\ f = Len(u) /\ g = Len(u) + Len(w)
         /\ Len(x) = Len(u) + Len(w) + Len(v)
         /\ \A i \in 1 .. Len(w) : x[Len(u) + i] = w[i]
    BY <1>9, <1>10, <1>11
  <1> HIDE DEF x, f, g
  <1>13. /\ f \in Nat /\ Len(w) \in Nat /\ Len(w) > 0 /\ g = f + Len(w) /\ g <= Len(x)
         /\ \A i \in 1 .. Len(w) : x[f + i] = w[i]
    BY <1>11, <1>12
  <1> QED
    BY <1>12, <1>13 DEF f, g

-----------------------------------------------------------------------------
(* The replies of a log.                                                   *)

\* What a log holds; what it makes the server send; the replies that are framed.
Entries == [request : Seq(Seq(Tokens)), reply : Replies]

ReplyOf(e) == IF e.reply = Nothing THEN << >> ELSE <<e.reply>>

Framing == {reply \in Replies : Framed(reply)}

\* One run of the read handler sends a framed reply or nothing.
LEMMA ReplyOfType ==
  ASSUME NEW e \in Entries
  PROVE  ReplyOf(e) \in Seq(Framing)
  <1>1. e.reply \in Replies
    BY DEF Entries
  <1>2. e.reply # Nothing => e.reply \in Framing
    BY <1>1, RepliesFramed DEF Framing
  <1> HIDE DEF Framing
  <1>3. e.reply # Nothing => <<e.reply>> \in Seq(Framing)
    BY <1>2
  <1>4. << >> \in Seq(Framing)
    OBVIOUS
  <1> QED
    BY <1>3, <1>4 DEF ReplyOf

\* A log sends framed replies.
LEMMA SentIs ==
  ASSUME NEW l \in Seq(Entries)
  PROVE  /\ Sent(l) = FlattenSeq([i \in 1 .. Len(l) |-> ReplyOf(l[i])])
         /\ [i \in 1 .. Len(l) |-> ReplyOf(l[i])] \in Seq(Seq(Framing))
         /\ Sent(l) \in Seq(Framing)
  <1>1. DOMAIN l = 1 .. Len(l) /\ Len(l) \in Nat
    OBVIOUS
  <1>2. Sent(l) = FlattenSeq([i \in 1 .. Len(l) |-> ReplyOf(l[i])])
    BY <1>1 DEF Sent, ReplyOf
  <1>3. \A i \in 1 .. Len(l) : ReplyOf(l[i]) \in Seq(Framing)
    <2> \A i \in 1 .. Len(l) : l[i] \in Entries
      BY <1>1
    <2> QED
      BY ReplyOfType
  <1> HIDE DEF Framing
  <1>4. [i \in 1 .. Len(l) |-> ReplyOf(l[i])] \in [1 .. Len(l) -> Seq(Framing)]
    BY <1>3
  <1>5. [i \in 1 .. Len(l) |-> ReplyOf(l[i])] \in Seq(Seq(Framing))
    BY <1>1, <1>4
  <1> QED
    BY <1>2, <1>5, FlatType

\* One run more sends one reply more, or none.
LEMMA SentAppend ==
  ASSUME NEW l \in Seq(Entries), NEW e \in Entries
  PROVE  Sent(Append(l, e)) = Sent(l) \o ReplyOf(e)
  <1> DEFINE a == Append(l, e)
             n == Len(l)
             p == [i \in 1 .. n |-> ReplyOf(l[i])]
             q == [i \in 1 .. n + 1 |-> ReplyOf(a[i])]
  <1>1. a \in Seq(Entries) /\ Len(a) = n + 1 /\ n \in Nat /\ a[n + 1] = e
        /\ \A i \in 1 .. n : a[i] = l[i]
    BY AppendProperties
  <1>2. Sent(l) = FlattenSeq(p) /\ p \in Seq(Seq(Framing)) /\ Len(p) = n
    BY SentIs
  <1> HIDE DEF a
  <1>3. Sent(a) = FlattenSeq(q) /\ q \in Seq(Seq(Framing)) /\ Len(q) = n + 1
    <2> DEFINE u == [i \in 1 .. Len(a) |-> ReplyOf(a[i])]
    <2>1. Sent(a) = FlattenSeq(u) /\ u \in Seq(Seq(Framing))
      BY <1>1, SentIs
    <2>2. u = q
      BY <1>1
    <2>3. Len(q) = n + 1
      BY <1>1
    <2> HIDE DEF u, q
    <2> QED
      BY <2>1, <2>2, <2>3
  <1>4. ReplyOf(e) \in Seq(Framing)
    BY ReplyOfType
  <1>5. q = p \o <<ReplyOf(e)>>
    <2> DEFINE r == p \o <<ReplyOf(e)>>
               x == ReplyOf(e)
    <2>1. \A i \in 1 .. n : q[i] = p[i]
      BY <1>1
    <2>2. q[n + 1] = x
      BY <1>1
    <2> HIDE DEF Framing, p, q, x
    <2>3. <<x>> \in Seq(Seq(Framing)) /\ Len(<<x>>) = 1 /\ <<x>>[1] = x
      BY <1>4 DEF x
    <2>4. /\ p \o <<x>> \in Seq(Seq(Framing)) /\ Len(p \o <<x>>) = n + 1
          /\ \A i \in 1 .. n + 1 : (p \o <<x>>)[i] = IF i <= n THEN p[i] ELSE <<x>>[i - n]
      BY <1>2, <2>3, ConcatProperties
    <2>5. \A i \in 1 .. n + 1 : (p \o <<x>>)[i] = q[i]
      <3> TAKE i \in 1 .. n + 1
      <3> HIDE DEF n
      <3>1. CASE i = n + 1
        <4> ~(i <= n) /\ i - n = 1
          BY <1>1, <3>1
        <4> QED
          BY <2>2, <2>3, <2>4, <3>1
      <3>2. CASE i \in 1 .. n
        <4> i <= n
          BY <1>1, <3>2
        <4> QED
          BY <2>1, <2>4, <3>2
      <3>3. i = n + 1 \/ i \in 1 .. n
        BY <1>1
      <3> QED
        BY <3>1, <3>2, <3>3
    <2> DEFINE y == p \o <<x>>
    <2>6. y \in Seq(Seq(Framing)) /\ Len(y) = Len(q) /\ \A i \in 1 .. Len(q) : y[i] = q[i]
      BY <1>3, <2>4, <2>5
    <2> HIDE DEF y
    <2>7. y = q
      BY <1>3, <2>6
    <2> QED
      BY <2>7 DEF y, x
  <1> HIDE DEF p, q
  <1>6. FlattenSeq(p \o <<ReplyOf(e)>>) = FlattenSeq(p) \o ReplyOf(e)
    BY <1>2, <1>4, FlatAppend
  <1> QED
    BY <1>2, <1>3, <1>5, <1>6 DEF a

-----------------------------------------------------------------------------
(* The inductive invariant.                                                *)

\* What may be in a socket, and the types of the variables.
Values == Replies \cup {Garbage}

Shape ==
  /\ wired \in BOOLEAN /\ up \in BOOLEAN
  /\ choice \in DOMAIN Scripts
  /\ stream = [c \in Client |-> Wires(script(c))]
  /\ conn \in [Client -> {"open", "closed", "reset"}]
  /\ pc \in [Client -> Pc]
  /\ taken \in [Client -> Nat]
  /\ consumed \in [Client -> Nat]
  /\ pending \in [Client -> Values]
  /\ out \in [Client -> Seq(Values)]
  /\ received \in [Client -> Seq(Values)]
  /\ log \in [Client -> Seq(Entries)]
  /\ skew \in [Client -> BOOLEAN]
  /\ late \in [Client -> BOOLEAN]

\* The buffer is a part of the stream, the socket has its limit, and only a stalled
\* write has something to send.
Bounds ==
  \A c \in Client :
    /\ consumed[c] <= taken[c] /\ taken[c] <= Len(stream[c])
    /\ pc[c] \in {"new", "reading", "written"} => pending[c] = Nothing
    /\ Len(out[c]) <= SendRoom

\* What was passed on to a handler was a request of the client.
Asked ==
  \A c \in Client : \A i \in DOMAIN log[c] :
    log[c][i].request # << >> => RequestOf(c, log[c][i].request) \in Requests

\* As long as no write had to wait, the client has read, or finds in the socket, the
\* replies of the log.
Delivery ==
  \A c \in Client :
    /\ pc[c] = "stalled" => late[c]
    /\ ~late[c] => received[c] \o out[c] = Sent(log[c])

\* As long as no request was cut short, the log is that of the first requests of the
\* script, and as long as the server runs, the buffer begins behind them.
Sync ==
  \A c \in Client : ~skew[c] =>
    /\ Len(log[c]) <= Len(script(c))
    /\ \A k \in DOMAIN log[c] : log[c][k] \in Wanted(c, k)
    /\ up => consumed[c] = Start(script(c), Len(log[c]))

\* The stream of a client.
LEMMA StreamType ==
  ASSUME Shape, NEW c \in Client
  PROVE  /\ script(c) \in Seq(Requests)
         /\ stream[c] = Wires(script(c))
         /\ stream[c] \in Seq(Sendable(script(c)))
         /\ Len(stream[c]) \in Nat
  <1>1. script(c) \in Seq(Requests)
    BY ScriptType DEF Shape
  <1>2. stream[c] = Wires(script(c))
    BY DEF Shape
  <1>3. Wires(script(c)) \in Seq(Sendable(script(c)))
    <2> DEFINE s == script(c)
    <2> HIDE DEF s
    <2> s \in Seq(Requests)
      BY <1>1 DEF s
    <2> Wires(s) \in Seq(Sendable(s))
      BY PiecesType
    <2> QED
      BY DEF s
  <1> DEFINE T == Sendable(script(c))
  <1>4. stream[c] \in Seq(T)
    BY <1>2, <1>3
  <1> HIDE DEF T
  <1>5. Len(stream[c]) \in Nat
    BY <1>4
  <1> QED
    BY <1>1, <1>2, <1>4, <1>5 DEF T

\* The buffer as the part of the stream that it is.
LEMMA BufferIs ==
  ASSUME Shape, Bounds, NEW c \in Client
  PROVE  /\ buffer_(c) \in Seq(Sendable(script(c)))
         /\ Len(buffer_(c)) = taken[c] - consumed[c]
         /\ \A i \in 1 .. Len(buffer_(c)) : buffer_(c)[i] = stream[c][consumed[c] + i]
  <1> DEFINE T == Sendable(script(c))
             s == stream[c]
             f == consumed[c]
             t == taken[c]
             b == SubSeq(s, f + 1, t)
  <1>1. s \in Seq(T) /\ Len(s) \in Nat
    BY StreamType
  <1>2. f \in Nat /\ t \in Nat /\ f <= t /\ t <= Len(s)
    BY DEF Shape, Bounds
  <1>3. buffer_(c) = b
    BY DEF buffer_
  <1> HIDE DEF T, s, f, t
  <1>4. \A i \in f + 1 .. t : s[i] \in T
    BY <1>1, <1>2
  <1>5. /\ b \in Seq(T)
        /\ Len(b) = IF f + 1 <= t THEN t - (f + 1) + 1 ELSE 0
        /\ \A i \in 1 .. t - (f + 1) + 1 : b[i] = s[f + 1 + i - 1]
    BY <1>2, <1>4, SubSeqProperties
  <1> HIDE DEF b
  <1>6. Len(b) = t - f
    BY <1>2, <1>5
  <1>7. \A i \in 1 .. Len(b) : b[i] = s[f + i]
    <2> TAKE i \in 1 .. Len(b)
    <2> i \in 1 .. t - (f + 1) + 1 /\ f + 1 + i - 1 = f + i
      BY <1>2, <1>6
    <2> QED
      BY <1>5
  <1> QED
    BY <1>3, <1>5, <1>6, <1>7 DEF T, s, f, t

\* A buffer with a line end has a line.
LEMMA HasLine ==
  ASSUME NEW T, NEW b \in Seq(T), HasDelimiter(b)
  PROVE  Len(Feeds(b)) \in Nat \ {0}
  <1>1. PICK d \in 1 .. Len(b) - 1 : b[d + 1] = LF
    BY DEF HasDelimiter
  <1>2. d + 1 \in 1 .. Len(b)
    BY <1>1
  <1> DEFINE j == d + 1
  <1>3. j \in 1 .. Len(b) /\ b[j] = LF
    BY <1>1, <1>2
  <1> HIDE DEF j
  <1> QED
    BY <1>3, SomeFeed

\* What one run of the read handler makes of the buffer.
LEMMA HandlerFacts ==
  ASSUME Shape, Bounds, NEW c \in Client, HasDelimiter(buffer_(c)),
         NEW p, p = Parsed(c, buffer_(c))
  PROVE  /\ p.used \in Nat /\ p.used > 0 /\ p.used <= taken[c] - consumed[c]
         /\ p.reply \in Replies
         /\ [request |-> p.request, reply |-> p.reply] \in Entries
         /\ p.request # << >> => RequestOf(c, p.request) \in Requests
  <1> DEFINE T == Sendable(script(c))
             b == buffer_(c)
  <1>1. script(c) \in Seq(Requests)
    BY StreamType
  <1>2. b \in Seq(T) /\ Len(b) = taken[c] - consumed[c]
    BY BufferIs
  <1>3. Len(Feeds(b)) \in Nat \ {0}
    <2> HIDE DEF T, b
    <2> HasDelimiter(b)
      BY DEF b
    <2> QED
      BY <1>2, HasLine
  <1>4. /\ p.used \in 1 .. Len(b) /\ p.reply \in Replies
        /\ p.request \in Seq(Seq(T))
        /\ p.request # << >> => RequestOf(c, p.request) \in Requests
    <2> HIDE DEF b
    <2>1. /\ Parsed(c, b).used \in 1 .. Len(b)
          /\ Parsed(c, b).reply \in Replies
          /\ Parsed(c, b).request \in Seq(Seq(Sendable(script(c))))
          /\ Parsed(c, b).request # << >> => RequestOf(c, Parsed(c, b).request) \in Requests
      BY <1>1, <1>2, <1>3, ParsedType
    <2> QED
      BY <2>1 DEF b
  <1>5. p.request \in Seq(Seq(Tokens))
    <2>1. \A t \in T : t \in Tokens
      BY DEF Sendable
    <2> HIDE DEF T
    <2>2. \A l \in Seq(T) : l \in Seq(Tokens)
      BY <2>1
    <2> DEFINE U == Seq(T)
               V == Seq(Tokens)
    <2>3. (\A l \in U : l \in V) /\ p.request \in Seq(U)
      BY <1>4, <2>2
    <2> HIDE DEF U, V
    <2>4. p.request \in Seq(V)
      BY <2>3
    <2> QED
      BY <2>4 DEF V
  <1>6. [request |-> p.request, reply |-> p.reply] \in Entries
    <2> DEFINE V == Seq(Seq(Tokens))
    <2> HIDE DEF V
    <2> p.request \in V
      BY <1>5 DEF V
    <2> [request |-> p.request, reply |-> p.reply] \in [request : V, reply : Replies]
      BY <1>4
    <2> QED
      BY DEF V, Entries
  <1>7. taken[c] - consumed[c] \in Int
    BY DEF Shape
  <1> DEFINE n == taken[c] - consumed[c]
             u == p.used
  <1>8. u \in 1 .. n /\ n \in Int
    BY <1>2, <1>4, <1>7
  <1> HIDE DEF n, u
  <1>9. u \in Nat /\ u > 0 /\ u <= n
    BY <1>8
  <1> QED
    BY <1>4, <1>6, <1>9 DEF n, u

\* What do_write leaves alone, and what it does to the session.
LEMMA WriteIs ==
  ASSUME Shape, Bounds, NEW c \in Client, NEW reply \in Replies,
         pc[c] = "reading", do_write(c, reply)
  PROVE  /\ pc' \in [Client -> Pc] /\ pending' \in [Client -> Values]
         /\ out' \in [Client -> Seq(Values)] /\ late' \in [Client -> BOOLEAN]
         /\ \A d \in Client \ {c} :
              pc'[d] = pc[d] /\ pending'[d] = pending[d] /\ out'[d] = out[d] /\ late'[d] = late[d]
         /\ \/ pc'[c] = "stalled" /\ late'[c]
            \/ /\ pc'[c] = "written" /\ pending'[c] = Nothing /\ late'[c] = late[c]
               /\ Len(out'[c]) <= SendRoom
               /\ out'[c] = IF reply = Nothing THEN out[c] ELSE Append(out[c], reply)
         /\ Len(out'[c]) <= SendRoom
  <1> DEFINE V == Values
  <1>0. reply \in V /\ out[c] \in Seq(V) /\ pending[c] = Nothing
        /\ Len(out[c]) \in Nat /\ Len(out[c]) <= SendRoom /\ SendRoom \in Nat
    BY RedisServerAssumption DEF Values, Shape, Bounds
  <1> HIDE DEF V
  <1>1. CASE reply # Nothing /\ Len(out[c]) = SendRoom
    <2>1. /\ pc' = [pc EXCEPT ![c] = "stalled"]
          /\ pending' = [pending EXCEPT ![c] = reply]
          /\ late' = [late EXCEPT ![c] = TRUE]
          /\ out' = out
      BY <1>1 DEF do_write
    <2> QED
      BY <1>0, <2>1 DEF Shape, Pc, V
  <1>2. CASE ~(reply # Nothing /\ Len(out[c]) = SendRoom)
    <2> DEFINE o == IF reply = Nothing THEN out[c] ELSE Append(out[c], reply)
    <2>1. /\ pc' = [pc EXCEPT ![c] = "written"]
          /\ out' = [out EXCEPT ![c] = o]
          /\ pending' = pending /\ late' = late
      BY <1>2 DEF do_write
    <2>2. o \in Seq(V) /\ Len(o) <= SendRoom
      <3>1. CASE reply = Nothing
        BY <1>0, <3>1
      <3>2. CASE reply # Nothing
        <4>1. o = Append(out[c], reply)
          BY <3>2
        <4>2. Append(out[c], reply) \in Seq(V) /\ Len(Append(out[c], reply)) = Len(out[c]) + 1
          BY <1>0, AppendProperties
        <4>3. Len(out[c]) # SendRoom
          BY <1>2, <3>2
        <4> HIDE DEF o
        <4> QED
          BY <1>0, <4>1, <4>2, <4>3
      <3> QED
        BY <3>1, <3>2
    <2> HIDE DEF o
    <2> QED
      <3>1. pc \in [Client -> Pc] /\ out \in [Client -> Seq(V)] /\ late \in [Client -> BOOLEAN]
            /\ pending \in [Client -> V]
        BY DEF Shape, V
      <3>2. pc' \in [Client -> Pc] /\ pc'[c] = "written" /\ \A d \in Client \ {c} : pc'[d] = pc[d]
        BY <2>1, <3>1 DEF Pc
      <3>3. out' \in [Client -> Seq(V)] /\ out'[c] = o /\ \A d \in Client \ {c} : out'[d] = out[d]
        BY <2>1, <2>2, <3>1
      <3>4. out'[c] = IF reply = Nothing THEN out[c] ELSE Append(out[c], reply)
        BY <3>3 DEF o
      <3> QED
        BY <1>0, <2>1, <2>2, <3>1, <3>2, <3>3, <3>4 DEF V
  <1> QED
    BY <1>1, <1>2

\* A run of the read handler, with its result by name.
Run(c, p) ==
  /\ consumed' = [consumed EXCEPT ![c] = @ + p.used]
  /\ skew' = [skew EXCEPT ![c] = @ \/ CutShort(c)]
  /\ IF wired /\ p.request # << >> /\ Throws(RequestOf(c, p.request))
     THEN up' = FALSE /\ UNCHANGED <<pc, pending, out, late, log>>
     ELSE /\ up' = up
          /\ log' = [log EXCEPT ![c] =
                      Append(@, [request |-> p.request, reply |-> p.reply])]
          /\ do_write(c, p.reply)

\* A step of the read handler is such a run.
LEMMA RunIs ==
  ASSUME NEW c \in Client, ReadHandler(c)
  PROVE  Run(c, Parsed(c, buffer_(c)))
  BY DEF ReadHandler, Run

\* What a run of the read handler does to the types of the variables.
LEMMA HandlerShape ==
  ASSUME Shape, Bounds, NEW c \in Client, ReadHandler(c)
  PROVE  Shape'
  <1> DEFINE p == Parsed(c, buffer_(c))
             e == [request |-> p.request, reply |-> p.reply]
  <1>1. /\ p.used \in Nat /\ p.reply \in Replies /\ e \in Entries
    <2> HasDelimiter(buffer_(c))
      BY DEF ReadHandler
    <2> QED
      BY HandlerFacts
  <1>2. Run(c, p) /\ pc[c] = "reading"
    BY RunIs DEF ReadHandler
  <1>3. UNCHANGED <<wired, choice, stream, conn, cuts, taken, received>>
    BY DEF ReadHandler
  <1> HIDE DEF p
  <1>4. consumed' \in [Client -> Nat]
    <2> consumed' = [consumed EXCEPT ![c] = @ + p.used]
      BY <1>2 DEF Run
    <2> QED
      BY <1>1 DEF Shape
  <1>5. skew' \in [Client -> BOOLEAN]
    <2> DEFINE x == skew[c] \/ CutShort(c)
    <2>1. skew' = [skew EXCEPT ![c] = x]
      BY <1>2 DEF Run
    <2>2. x \in BOOLEAN
      OBVIOUS
    <2> HIDE DEF x
    <2> QED
      BY <2>1, <2>2 DEF Shape
  <1>6. /\ up' \in BOOLEAN /\ pc' \in [Client -> Pc] /\ pending' \in [Client -> Values]
        /\ out' \in [Client -> Seq(Values)] /\ log' \in [Client -> Seq(Entries)]
        /\ late' \in [Client -> BOOLEAN]
    <2>1. CASE wired /\ p.request # << >> /\ Throws(RequestOf(c, p.request))
      <3> up' = FALSE /\ UNCHANGED <<pc, pending, out, late, log>>
        BY <1>2, <2>1 DEF Run
      <3> QED
        BY DEF Shape
    <2>2. CASE ~(wired /\ p.request # << >> /\ Throws(RequestOf(c, p.request)))
      <3>1. up' = up /\ log' = [log EXCEPT ![c] = Append(@, e)] /\ do_write(c, p.reply)
        BY <1>2, <2>2 DEF Run
      <3> DEFINE E == Entries
      <3> HIDE DEF e, E
      <3>2. log' \in [Client -> Seq(E)]
        <4> log \in [Client -> Seq(E)] /\ e \in E
          BY <1>1 DEF Shape, E
        <4> QED
          BY <3>1, AppendProperties
      <3>3. up' \in BOOLEAN
        BY <3>1 DEF Shape
      <3>4. /\ pc' \in [Client -> Pc] /\ pending' \in [Client -> Values]
            /\ out' \in [Client -> Seq(Values)] /\ late' \in [Client -> BOOLEAN]
        BY <1>1, <1>2, <3>1, WriteIs
      <3> QED
        BY <3>2, <3>3, <3>4 DEF E
    <2> QED
      BY <2>1, <2>2
  <1> QED
    BY <1>3, <1>4, <1>5, <1>6 DEF Shape, script

\* Every other step keeps the types of the variables.
LEMMA ShapeStep ==
  ASSUME Shape, Bounds, [Next]_vars
  PROVE  Shape'
  <1>1. CASE UNCHANGED vars
    BY <1>1 DEF Shape, script, vars, connVars
  <1>2. ASSUME NEW c \in Client, Accept(c) PROVE Shape'
    <2> pc' \in [Client -> Pc] /\ up' \in BOOLEAN
      BY <1>2 DEF Accept, LogEndpoint, Shape, Pc
    <2> QED
      BY <1>2 DEF Accept, Shape, script
  <1>3. ASSUME NEW c \in Client, ReadSome(c) PROVE Shape'
    <2>1. PICK end \in taken[c] + 1 .. Len(stream[c]) : taken' = [taken EXCEPT ![c] = end]
      BY <1>3 DEF ReadSome
    <2>2. Len(stream[c]) \in Nat
      BY StreamType
    <2>3. taken' \in [Client -> Nat]
      BY <2>1, <2>2 DEF Shape
    <2>4. UNCHANGED <<connVars, pc, consumed, pending, out, received, log, skew, late>>
      BY <1>3 DEF ReadSome
    <2> QED
      BY <2>3, <2>4 DEF Shape, script, connVars
  <1>4. ASSUME NEW c \in Client, ReadHandler(c) PROVE Shape'
    BY <1>4, HandlerShape
  <1>5. ASSUME NEW c \in Client, ReadEnds(c) PROVE Shape'
    <2> pc' \in [Client -> Pc] /\ up' \in BOOLEAN
      BY <1>5 DEF ReadEnds, LogEndpoint, Shape, Pc
    <2> QED
      BY <1>5 DEF ReadEnds, Shape, script
  <1>6. ASSUME NEW c \in Client, WriteLater(c) PROVE Shape'
    <2> DEFINE V == Values
    <2>1. pending \in [Client -> V] /\ out \in [Client -> Seq(V)] /\ Garbage \in V /\ Nothing \in V
      BY DEF Shape, Values, Replies
    <2> HIDE DEF V
    <2>2. PICK bytes \in {pending[c], Garbage} : out' = [out EXCEPT ![c] = Append(@, bytes)]
      BY <1>6 DEF WriteLater
    <2>3. out' \in [Client -> Seq(V)]
      BY <2>1, <2>2, AppendProperties
    <2>4. pending' \in [Client -> V]
      BY <1>6, <2>1 DEF WriteLater
    <2>5. pc' \in [Client -> Pc]
      BY <1>6 DEF WriteLater, Shape, Pc
    <2>6. UNCHANGED <<connVars, cuts, taken, consumed, received, log, skew, late>>
      BY <1>6 DEF WriteLater
    <2> QED
      BY <2>3, <2>4, <2>5, <2>6 DEF Shape, script, connVars, V
  <1>7. ASSUME NEW c \in Client, WriteDone(c) PROVE Shape'
    <2> pc' \in [Client -> Pc]
      BY <1>7 DEF WriteDone, Shape, Pc
    <2> QED
      BY <1>7 DEF WriteDone, Shape, script, connVars
  <1>8. ASSUME NEW c \in Client, WriteFails(c) PROVE Shape'
    <2> pc' \in [Client -> Pc] /\ up' \in BOOLEAN
      BY <1>8 DEF WriteFails, LogEndpoint, Shape, Pc
    <2> QED
      BY <1>8 DEF WriteFails, Shape, script
  <1>9. ASSUME NEW c \in Client, Receive(c) PROVE Shape'
    <2> DEFINE V == Values
    <2>1. out \in [Client -> Seq(V)] /\ received \in [Client -> Seq(V)]
      BY DEF Shape
    <2> HIDE DEF V
    <2>2. out[c] # << >> /\ out[c] \in Seq(V) /\ received[c] \in Seq(V)
      BY <1>9, <2>1 DEF Receive
    <2>3. Head(out[c]) \in V /\ Tail(out[c]) \in Seq(V)
      BY <2>2
    <2>4. Append(received[c], Head(out[c])) \in Seq(V)
      BY <2>2, <2>3, AppendProperties
    <2>5. out' \in [Client -> Seq(V)] /\ received' \in [Client -> Seq(V)]
      BY <1>9, <2>1, <2>3, <2>4 DEF Receive
    <2>6. UNCHANGED <<connVars, pc, cuts, taken, consumed, pending, log, skew, late>>
      BY <1>9 DEF Receive
    <2> QED
      BY <2>5, <2>6 DEF Shape, script, connVars, V
  <1>10. ASSUME NEW c \in Client, Disconnect(c) PROVE Shape'
    <2> conn' \in [Client -> {"open", "closed", "reset"}]
      BY <1>10 DEF Disconnect, Shape
    <2> QED
      BY <1>10 DEF Disconnect, Shape, script
  <1> QED
    BY <1>1, <1>2, <1>3, <1>4, <1>5, <1>6, <1>7, <1>8, <1>9, <1>10
       DEF Next, System, Session

\* Every step keeps the bounds.
LEMMA BoundsStep ==
  ASSUME Shape, Bounds, [Next]_vars
  PROVE  Bounds'
  <1>0. /\ \A c \in Client : consumed[c] \in Nat /\ taken[c] \in Nat
                             /\ Len(stream[c]) \in Nat /\ out[c] \in Seq(Values)
        /\ SendRoom \in Nat
    BY StreamType, RedisServerAssumption DEF Shape
  <1>1. CASE UNCHANGED vars
    BY <1>1 DEF Bounds, vars, connVars
  <1>2. ASSUME NEW c \in Client, Accept(c) PROVE Bounds'
    BY <1>2 DEF Accept, Bounds, Shape
  <1>3. ASSUME NEW c \in Client, ReadSome(c) PROVE Bounds'
    <2>1. PICK end \in taken[c] + 1 .. Len(stream[c]) : taken' = [taken EXCEPT ![c] = end]
      BY <1>3 DEF ReadSome
    <2>2. UNCHANGED <<stream, pc, consumed, pending, out>>
      BY <1>3 DEF ReadSome, connVars
    <2>3. \A d \in Client : consumed[d] <= taken'[d] /\ taken'[d] <= Len(stream[d])
      <3> TAKE d \in Client
      <3>1. CASE d = c
        <4> taken'[c] = end
          BY <2>1 DEF Shape
        <4> QED
          BY <1>0, <3>1 DEF Bounds
      <3>2. CASE d # c
        <4> taken'[d] = taken[d]
          BY <2>1, <3>2 DEF Shape
        <4> QED
          BY DEF Bounds
      <3> QED
        BY <3>1, <3>2
    <2> QED
      BY <2>2, <2>3 DEF Bounds
  <1>4. ASSUME NEW c \in Client, ReadHandler(c) PROVE Bounds'
    <2> DEFINE p == Parsed(c, buffer_(c))
    <2>1. /\ p.used \in Nat /\ p.used <= taken[c] - consumed[c] /\ p.reply \in Replies
      <3> HasDelimiter(buffer_(c))
        BY <1>4 DEF ReadHandler
      <3> QED
        BY HandlerFacts
    <2>2. Run(c, p) /\ pc[c] = "reading" /\ taken' = taken /\ stream' = stream
      BY <1>4, RunIs DEF ReadHandler
    <2> HIDE DEF p
    <2>3. \A d \in Client : consumed'[d] <= taken[d]
      <3> TAKE d \in Client
      <3>1. consumed' = [consumed EXCEPT ![c] = @ + p.used] /\ consumed \in [Client -> Nat]
        BY <2>2 DEF Run, Shape
      <3>2. CASE d = c
        <4> consumed'[c] = consumed[c] + p.used
          BY <3>1
        <4> QED
          BY <1>0, <2>1, <3>2
      <3>3. CASE d # c
        <4> consumed'[d] = consumed[d]
          BY <3>1, <3>3
        <4> QED
          BY DEF Bounds
      <3> QED
        BY <3>2, <3>3
    <2>4. \A d \in Client : /\ pc'[d] \in {"new", "reading", "written"} => pending'[d] = Nothing
                            /\ Len(out'[d]) <= SendRoom
      <3>1. CASE wired /\ p.request # << >> /\ Throws(RequestOf(c, p.request))
        <4> UNCHANGED <<pc, pending, out>>
          BY <2>2, <3>1 DEF Run
        <4> QED
          BY DEF Bounds
      <3>2. CASE ~(wired /\ p.request # << >> /\ Throws(RequestOf(c, p.request)))
        <4>1. do_write(c, p.reply)
          BY <2>2, <3>2 DEF Run
        <4>2. /\ \A d \in Client \ {c} :
                   pc'[d] = pc[d] /\ pending'[d] = pending[d] /\ out'[d] = out[d]
              /\ pc'[c] = "stalled" \/ (pc'[c] = "written" /\ pending'[c] = Nothing)
              /\ Len(out'[c]) <= SendRoom
          BY <2>1, <2>2, <4>1, WriteIs
        <4> TAKE d \in Client
        <4>3. CASE d = c
          BY <4>2, <4>3
        <4>4. CASE d # c
          BY <4>2, <4>4 DEF Bounds
        <4> QED
          BY <4>3, <4>4
      <3> QED
        BY <3>1, <3>2
    <2> QED
      BY <2>2, <2>3, <2>4 DEF Bounds
  <1>5. ASSUME NEW c \in Client, ReadEnds(c) PROVE Bounds'
    BY <1>5 DEF ReadEnds, Bounds, Shape
  <1>6. ASSUME NEW c \in Client, WriteLater(c) PROVE Bounds'
    <2>1. PICK bytes : out' = [out EXCEPT ![c] = Append(@, bytes)]
      BY <1>6 DEF WriteLater
    <2>2. /\ pending' = [pending EXCEPT ![c] = Nothing] /\ pc' = [pc EXCEPT ![c] = "written"]
          /\ Len(out[c]) < SendRoom /\ UNCHANGED <<stream, taken, consumed>>
      BY <1>6 DEF WriteLater, connVars
    <2>3. \A d \in Client : Len(out'[d]) <= SendRoom
      <3> TAKE d \in Client
      <3>1. CASE d = c
        <4>1. out'[c] = Append(out[c], bytes)
          BY <2>1 DEF Shape
        <4>2. Len(Append(out[c], bytes)) = Len(out[c]) + 1
          BY <1>0
        <4>3. Len(out[c]) \in Nat
          BY <1>0
        <4> QED
          BY <1>0, <2>2, <3>1, <4>1, <4>2, <4>3
      <3>2. CASE d # c
        <4> out'[d] = out[d]
          BY <2>1, <3>2 DEF Shape
        <4> QED
          BY DEF Bounds
      <3> QED
        BY <3>1, <3>2
    <2> QED
      BY <2>2, <2>3 DEF Bounds, Shape
  <1>7. ASSUME NEW c \in Client, WriteDone(c) PROVE Bounds'
    BY <1>7 DEF WriteDone, Bounds, Shape, connVars
  <1>8. ASSUME NEW c \in Client, WriteFails(c) PROVE Bounds'
    BY <1>8 DEF WriteFails, Bounds, Shape
  <1>9. ASSUME NEW c \in Client, Receive(c) PROVE Bounds'
    <2>1. /\ out[c] # << >> /\ out' = [out EXCEPT ![c] = Tail(@)]
          /\ UNCHANGED <<stream, pc, taken, consumed, pending>>
      BY <1>9 DEF Receive, connVars
    <2>2. \A d \in Client : Len(out'[d]) <= SendRoom
      <3> TAKE d \in Client
      <3>1. CASE d = c
        <4>1. out'[c] = Tail(out[c])
          BY <2>1 DEF Shape
        <4>2. Len(Tail(out[c])) = Len(out[c]) - 1 /\ Len(out[c]) \in Nat
          BY <1>0, <2>1
        <4>3. Len(out[c]) <= SendRoom
          BY DEF Bounds
        <4> QED
          BY <1>0, <3>1, <4>1, <4>2, <4>3
      <3>2. CASE d # c
        <4> out'[d] = out[d]
          BY <2>1, <3>2 DEF Shape
        <4> QED
          BY DEF Bounds
      <3> QED
        BY <3>1, <3>2
    <2> QED
      BY <2>1, <2>2 DEF Bounds
  <1>10. ASSUME NEW c \in Client, Disconnect(c) PROVE Bounds'
    BY <1>10 DEF Disconnect, Bounds
  <1> QED
    BY <1>1, <1>2, <1>3, <1>4, <1>5, <1>6, <1>7, <1>8, <1>9, <1>10
       DEF Next, System, Session

\* Only the read handler writes the log.
LEMMA LogKept ==
  ASSUME [Next]_vars, \A c \in Client : ~ReadHandler(c)
  PROVE  log' = log /\ skew' = skew /\ consumed' = consumed /\ choice' = choice
         /\ late' = late
  BY DEF Next, System, Session, Accept, ReadSome, ReadEnds, WriteLater, WriteDone,
         WriteFails, Receive, Disconnect, vars, connVars

\* Every step keeps the log to requests of the clients.
LEMMA AskedStep ==
  ASSUME Shape, Bounds, Asked, [Next]_vars
  PROVE  Asked'
  <1>1. CASE \A c \in Client : ~ReadHandler(c)
    <2> log' = log /\ choice' = choice
      BY <1>1, LogKept
    <2> QED
      BY DEF Asked, RequestOf, script
  <1>2. ASSUME NEW c \in Client, ReadHandler(c) PROVE Asked'
    <2> DEFINE p == Parsed(c, buffer_(c))
               e == [request |-> p.request, reply |-> p.reply]
    <2>1. /\ e \in Entries
          /\ p.request # << >> => RequestOf(c, p.request) \in Requests
      <3> HasDelimiter(buffer_(c))
        BY <1>2 DEF ReadHandler
      <3> QED
        BY HandlerFacts
    <2>2. Run(c, p) /\ choice' = choice
      BY <1>2, RunIs DEF ReadHandler
    <2>3. e.request = p.request
      OBVIOUS
    <2> HIDE DEF p
    <2>4. CASE log' = log
      BY <2>2, <2>4 DEF Asked, RequestOf, script
    <2>5. CASE log' = [log EXCEPT ![c] = Append(@, e)]
      <3> SUFFICES ASSUME NEW d \in Client, NEW i \in DOMAIN log'[d],
                          log'[d][i].request # << >>
                   PROVE  RequestOf(d, log'[d][i].request) \in Requests
        BY <2>2 DEF Asked, RequestOf, script
      <3> DEFINE E == Entries
      <3>1. log \in [Client -> Seq(E)] /\ log[d] \in Seq(E) /\ log[c] \in Seq(E) /\ e \in E
        BY <2>1 DEF Shape
      <3> HIDE DEF E, e
      <3>2. CASE d = c /\ i = Len(log[c]) + 1
        <4> log'[d][i] = e
          BY <2>5, <3>1, <3>2
        <4> QED
          BY <2>1, <2>3, <3>2
      <3>3. CASE ~(d = c /\ i = Len(log[c]) + 1)
        <4> i \in DOMAIN log[d] /\ log'[d][i] = log[d][i]
          <5>1. CASE d = c
            <6>1. log'[c] = Append(log[c], e)
              BY <2>5, <3>1
            <6>2. i \in 1 .. Len(log[c]) + 1
              BY <3>1, <5>1, <6>1
            <6>3. i \in 1 .. Len(log[c]) /\ Append(log[c], e)[i] = log[c][i]
              BY <3>1, <3>3, <5>1, <6>2
            <6> QED
              BY <3>1, <5>1, <6>1, <6>3
          <5>2. CASE d # c
            BY <2>5, <3>1, <5>2
          <5> QED
            BY <5>1, <5>2
        <4> QED
          BY DEF Asked
      <3> QED
        BY <3>2, <3>3
    <2> QED
      BY <2>2, <2>4, <2>5 DEF Run
  <1> QED
    BY <1>1, <1>2

\* A reply more in the socket.
LEMMA MoreSent ==
  ASSUME NEW T, NEW r \in Seq(T), NEW o \in Seq(T), NEW x \in T
  PROVE  r \o Append(o, x) = (r \o o) \o <<x>>
  <1>1. <<x>> \in Seq(T) /\ Append(o, x) = o \o <<x>>
    OBVIOUS
  <1>2. (r \o o) \o <<x>> = r \o (o \o <<x>>)
    <2>1. JoinsAlike(r, o, <<x>>)
      BY <1>1, Joined
    <2> QED
      BY <2>1 DEF JoinsAlike
  <1> QED
    BY <1>1, <1>2

\* A reply from the socket to the client.
LEMMA MoreReceived ==
  ASSUME NEW T, NEW r \in Seq(T), NEW o \in Seq(T), o # << >>
  PROVE  Append(r, Head(o)) \o Tail(o) = r \o o
  <1> DEFINE h == <<Head(o)>>
             t == Tail(o)
  <1>1. h \in Seq(T) /\ t \in Seq(T) /\ Append(r, Head(o)) = r \o h
    OBVIOUS
  <1>2. h \o t = o
    <2>1. Len(h) = 1 /\ Len(t) = Len(o) - 1 /\ h[1] = o[1]
          /\ \A i \in 1 .. Len(t) : t[i] = o[i + 1]
      OBVIOUS
    <2> DEFINE p == h \o t
    <2>2. /\ p \in Seq(T) /\ Len(p) = Len(h) + Len(t)
          /\ \A i \in 1 .. Len(h) + Len(t) : p[i] = IF i <= Len(h) THEN h[i] ELSE t[i - Len(h)]
      <3> HIDE DEF h, t
      <3> QED
        BY <1>1, ConcatProperties
    <2> HIDE DEF p, h, t
    <2>3. Len(o) \in Nat /\ Len(o) > 0
      OBVIOUS
    <2>4. Len(p) = Len(o)
      BY <2>1, <2>2, <2>3
    <2>5. \A i \in 1 .. Len(o) : p[i] = o[i]
      <3> TAKE i \in 1 .. Len(o)
      <3>1. CASE i = 1
        BY <2>1, <2>2, <2>3, <3>1
      <3>2. CASE i # 1
        <4> i - 1 \in 1 .. Len(t) /\ ~(i <= Len(h)) /\ i \in 1 .. Len(h) + Len(t)
          BY <2>1, <2>3, <3>2
        <4> t[i - 1] = o[i - 1 + 1] /\ i - 1 + 1 = i
          BY <2>1
        <4> QED
          BY <2>1, <2>2
      <3> QED
        BY <3>1, <3>2
    <2>6. p = o
      BY <2>2, <2>4, <2>5
    <2> QED
      BY <2>6 DEF p, h, t
  <1> HIDE DEF h, t
  <1>3. (r \o h) \o t = r \o (h \o t)
    <2>1. JoinsAlike(r, h, t)
      BY <1>1, Joined
    <2> QED
      BY <2>1 DEF JoinsAlike
  <1>4. Append(r, Head(o)) \o t = r \o o
    BY <1>1, <1>2, <1>3
  <1> QED
    BY <1>4 DEF t

\* Every step keeps the replies in order and complete.
LEMMA DeliveryStep ==
  ASSUME Shape, Bounds, Delivery, [Next]_vars
  PROVE  Delivery'
  <1> DEFINE V == Values
  <1>0. /\ out \in [Client -> Seq(V)] /\ received \in [Client -> Seq(V)]
        /\ pc \in [Client -> Pc] /\ late \in [Client -> BOOLEAN]
        /\ log \in [Client -> Seq(Entries)]
    BY DEF Shape
  <1> HIDE DEF V
  <1>1. CASE UNCHANGED vars
    BY <1>1 DEF Delivery, vars, connVars
  <1>2. ASSUME NEW c \in Client, \/ Accept(c) \/ ReadSome(c) \/ ReadEnds(c)
                                 \/ WriteDone(c) \/ WriteFails(c) \/ Disconnect(c)
        PROVE  Delivery'
    <2>1. UNCHANGED <<out, received, late, log>>
      BY <1>2 DEF Accept, ReadSome, ReadEnds, WriteDone, WriteFails, Disconnect, connVars
    <2>2. pc' = pc \/ \E to \in {"reading", "ended"} : pc' = [pc EXCEPT ![c] = to]
      BY <1>2 DEF Accept, ReadSome, ReadEnds, WriteDone, WriteFails, Disconnect
    <2>3. \A d \in Client : pc'[d] = "stalled" => pc[d] = "stalled"
      BY <1>0, <2>2
    <2> QED
      BY <2>1, <2>3 DEF Delivery
  <1>3. ASSUME NEW c \in Client, WriteLater(c) PROVE Delivery'
    <2>1. PICK bytes : out' = [out EXCEPT ![c] = Append(@, bytes)]
      BY <1>3 DEF WriteLater
    <2>2. /\ pc[c] = "stalled" /\ pc' = [pc EXCEPT ![c] = "written"]
          /\ UNCHANGED <<received, late, log>>
      BY <1>3 DEF WriteLater
    <2>3. late[c]
      BY <2>2 DEF Delivery
    <2> SUFFICES ASSUME NEW d \in Client
                 PROVE  /\ pc'[d] = "stalled" => late'[d]
                        /\ ~late'[d] => received'[d] \o out'[d] = Sent(log'[d])
      BY DEF Delivery
    <2>4. CASE d = c
      BY <2>2, <2>3, <2>4
    <2>5. CASE d # c
      <3> out'[d] = out[d] /\ pc'[d] = pc[d]
        BY <1>0, <2>1, <2>2, <2>5
      <3> QED
        BY <2>2 DEF Delivery
    <2> QED
      BY <2>4, <2>5
  <1>4. ASSUME NEW c \in Client, Receive(c) PROVE Delivery'
    <2>1. /\ out[c] # << >>
          /\ received' = [received EXCEPT ![c] = Append(@, Head(out[c]))]
          /\ out' = [out EXCEPT ![c] = Tail(@)]
          /\ UNCHANGED <<pc, late, log>>
      BY <1>4 DEF Receive
    <2>2. received'[c] \o out'[c] = received[c] \o out[c]
      <3>1. out[c] \in Seq(V) /\ received[c] \in Seq(V)
        BY <1>0
      <3>2. received'[c] = Append(received[c], Head(out[c])) /\ out'[c] = Tail(out[c])
        BY <1>0, <2>1
      <3> QED
        BY <2>1, <3>1, <3>2, MoreReceived
    <2>3. \A d \in Client \ {c} : received'[d] = received[d] /\ out'[d] = out[d]
      BY <1>0, <2>1
    <2> QED
      BY <2>1, <2>2, <2>3 DEF Delivery
  <1>5. ASSUME NEW c \in Client, ReadHandler(c) PROVE Delivery'
    <2> DEFINE p == Parsed(c, buffer_(c))
               e == [request |-> p.request, reply |-> p.reply]
    <2>1. e \in Entries /\ p.reply \in Replies
      <3> HasDelimiter(buffer_(c))
        BY <1>5 DEF ReadHandler
      <3> QED
        BY HandlerFacts
    <2>2. Run(c, p) /\ pc[c] = "reading" /\ received' = received
      BY <1>5, RunIs DEF ReadHandler
    <2> HIDE DEF p
    <2>3. CASE wired /\ p.request # << >> /\ Throws(RequestOf(c, p.request))
      <3> UNCHANGED <<pc, out, late, log>>
        BY <2>2, <2>3 DEF Run
      <3> QED
        BY <2>2 DEF Delivery
    <2>4. CASE ~(wired /\ p.request # << >> /\ Throws(RequestOf(c, p.request)))
      <3>1. log' = [log EXCEPT ![c] = Append(@, e)] /\ do_write(c, p.reply)
        BY <2>2, <2>4 DEF Run
      <3>2. /\ \A d \in Client \ {c} :
                 pc'[d] = pc[d] /\ out'[d] = out[d] /\ late'[d] = late[d]
            /\ \/ pc'[c] = "stalled" /\ late'[c]
               \/ /\ pc'[c] = "written" /\ late'[c] = late[c]
                  /\ out'[c] = IF p.reply = Nothing THEN out[c] ELSE Append(out[c], p.reply)
        BY <2>1, <2>2, <3>1, WriteIs
      <3>3. e.reply = p.reply
        OBVIOUS
      <3> DEFINE E == Entries
      <3> HIDE DEF e, E
      <3>4. log'[c] = Append(log[c], e) /\ \A d \in Client \ {c} : log'[d] = log[d]
        BY <1>0, <3>1
      <3> SUFFICES ASSUME NEW d \in Client
                   PROVE  /\ pc'[d] = "stalled" => late'[d]
                          /\ ~late'[d] => received'[d] \o out'[d] = Sent(log'[d])
        BY DEF Delivery
      <3>5. CASE d # c
        BY <2>2, <3>2, <3>4, <3>5 DEF Delivery
      <3>6. CASE d = c /\ late'[c]
        BY <3>6
      <3>7. CASE d = c /\ ~late'[c]
        <4>1. /\ pc'[c] = "written" /\ ~late[c]
              /\ out'[c] = IF p.reply = Nothing THEN out[c] ELSE Append(out[c], p.reply)
          BY <3>2, <3>7
        <4>2. received[c] \o out[c] = Sent(log[c])
          BY <4>1 DEF Delivery
        <4>3. Sent(Append(log[c], e)) = Sent(log[c]) \o ReplyOf(e)
          <5> log[c] \in Seq(E) /\ e \in E
            BY <1>0, <2>1 DEF e, E
          <5> QED
            BY SentAppend DEF E
        <4>4. received[c] \in Seq(V) /\ out[c] \in Seq(V) /\ p.reply \in V
          BY <1>0, <2>1 DEF V, Values
        <4>5. received[c] \o out'[c] = Sent(log[c]) \o ReplyOf(e)
          <5>1. CASE p.reply = Nothing
            <6>1. ReplyOf(e) = << >> /\ out'[c] = out[c]
              BY <3>3, <4>1, <5>1 DEF ReplyOf
            <6>2. received[c] \o out[c] \in Seq(V)
              BY <4>4
            <6> DEFINE x == received[c] \o out[c]
            <6>3. x \in Seq(V) /\ Sent(log[c]) = x
              BY <4>2, <6>2
            <6> HIDE DEF x
            <6>4. x \o << >> = x
              BY <6>3
            <6> QED
              BY <6>1, <6>3, <6>4 DEF x
          <5>2. CASE p.reply # Nothing
            <6>1. ReplyOf(e) = <<p.reply>> /\ out'[c] = Append(out[c], p.reply)
              BY <3>3, <4>1, <5>2 DEF ReplyOf
            <6>2. received[c] \o Append(out[c], p.reply)
                    = (received[c] \o out[c]) \o <<p.reply>>
              <7>1. \A r, o \in Seq(V), x \in V : r \o Append(o, x) = (r \o o) \o <<x>>
                BY MoreSent
              <7> QED
                BY <4>4, <7>1
            <6> QED
              BY <4>2, <6>1, <6>2
          <5> QED
            BY <5>1, <5>2
        <4> QED
          BY <2>2, <3>4, <3>7, <4>1, <4>3, <4>5
      <3> QED
        BY <3>5, <3>6, <3>7
    <2> QED
      BY <2>3, <2>4
  <1> QED
    BY <1>1, <1>2, <1>3, <1>4, <1>5 DEF Next, System, Session

\* What no step changes, and what never comes back.
LEMMA ServerKept ==
  ASSUME [Next]_vars
  PROVE  wired' = wired /\ choice' = choice /\ (up' => up)
  <1>1. CASE UNCHANGED vars
    BY <1>1 DEF vars, connVars
  <1>2. ASSUME NEW c \in Client, Session(c)
        PROVE  wired' = wired /\ choice' = choice /\ up
    <2>1. CASE Accept(c)
      BY <2>1 DEF Accept
    <2>2. CASE ReadSome(c)
      BY <2>2 DEF ReadSome, connVars
    <2>3. CASE ReadHandler(c)
      BY <2>3 DEF ReadHandler
    <2>4. CASE ReadEnds(c)
      BY <2>4 DEF ReadEnds
    <2>5. CASE WriteLater(c)
      BY <2>5 DEF WriteLater, connVars
    <2>6. CASE WriteDone(c)
      BY <2>6 DEF WriteDone, connVars
    <2>7. CASE WriteFails(c)
      BY <2>7 DEF WriteFails
    <2> QED
      BY <1>2, <2>1, <2>2, <2>3, <2>4, <2>5, <2>6, <2>7 DEF Session
  <1>3. ASSUME NEW c \in Client, Receive(c)
        PROVE  wired' = wired /\ choice' = choice /\ up' = up
    BY <1>3 DEF Receive, connVars
  <1>4. ASSUME NEW c \in Client, Disconnect(c)
        PROVE  wired' = wired /\ choice' = choice /\ up' = up
    BY <1>4 DEF Disconnect
  <1> QED
    BY <1>1, <1>2, <1>3, <1>4 DEF Next, System

\* What the server should make of a request does not change.
LEMMA WantedKept ==
  ASSUME wired' = wired, choice' = choice, NEW c \in Client
  PROVE  /\ \A k : Wanted(c, k)' = Wanted(c, k)
         /\ \A n : Start(script(c), n)' = Start(script(c), n)
         /\ script(c)' = script(c)
  <1>1. script(c)' = script(c)
    BY DEF script
  <1>2. ASSUME NEW k PROVE Wanted(c, k)' = Wanted(c, k)
    BY DEF Wanted, handleRequest, RequestOf, script
  <1>3. ASSUME NEW n PROVE Start(script(c), n)' = Start(script(c), n)
    BY <1>1
  <1> QED
    BY <1>1, <1>2, <1>3

\* A session in step has the next request, or a part of it, at the beginning of its
\* buffer; if the request is not cut short, it is taken out as it was put in.
LEMMA NextRequest ==
  ASSUME Shape, Bounds, NEW c \in Client, HasDelimiter(buffer_(c)), ~CutShort(c),
         Len(log[c]) <= Len(script(c)), consumed[c] = Start(script(c), Len(log[c])),
         NEW p, p = Parsed(c, buffer_(c)), NEW k, k = Len(log[c]) + 1
  PROVE  /\ k <= Len(script(c))
         /\ [request |-> p.request, reply |-> p.reply] \in Wanted(c, k)
         /\ consumed[c] + p.used = Start(script(c), k)
  <1> DEFINE s == script(c)
             b == buffer_(c)
             n == Len(log[c])
             T == Sendable(s)
  <1>1. /\ s \in Seq(Requests) /\ stream[c] = Wires(s) /\ Len(stream[c]) \in Nat
    BY StreamType
  <1>2. /\ b \in Seq(T) /\ Len(b) = taken[c] - consumed[c]
        /\ \A i \in 1 .. Len(b) : b[i] = stream[c][consumed[c] + i]
    BY BufferIs
  <1>3. n \in Nat /\ k = n + 1 /\ Len(s) \in Nat
    <2>1. log[c] \in Seq(Entries)
      BY DEF Shape
    <2> DEFINE E == Entries
    <2> HIDE DEF E
    <2>2. n \in Nat
      BY <2>1 DEF E
    <2> HIDE DEF s
    <2> QED
      BY <1>1, <2>2
  <1>4. HasDelimiter(b) /\ ~CutShort(c) /\ n <= Len(s) /\ consumed[c] = Start(s, n)
        /\ p = Parsed(c, b)
    OBVIOUS
  <1>5. consumed[c] \in Nat /\ taken[c] \in Nat /\ taken[c] <= Len(stream[c])
    BY DEF Shape, Bounds
  <1>6. \/ b[1][2] \notin {"count", "PING", "badcount"}
        \/ b[1][2] = "count" /\ s[b[1][1]].breaks
        \/ b[1][2] = "count" /\ Len(b) < Len(Wire(b[1][1], s[b[1][1]]))
        <=> CutShort(c)
    BY DEF CutShort
  <1> HIDE DEF s, b, n, T
  <1>7. Len(b) \in Nat /\ Len(b) > 0
    <2> PICK d \in 1 .. Len(b) - 1 : b[d] = CR
      BY <1>4 DEF HasDelimiter
    <2> QED
      BY <1>2
  <1>8. k \in 1 .. Len(s)
    <2>1. n # Len(s)
      <3> SUFFICES ASSUME n = Len(s) PROVE FALSE
        OBVIOUS
      <3> Start(s, Len(s)) = Len(Wires(s))
        BY <1>1, StartEnds
      <3> QED
        BY <1>1, <1>2, <1>4, <1>5, <1>7
    <2> QED
      BY <1>3, <1>4, <2>1
  <1>15. PICK w : w = Wire(k, s[k])
    OBVIOUS
  <1>9. /\ Len(w) \in Nat /\ Len(w) > 0
        /\ Start(s, k) = Start(s, n) + Len(w)
        /\ \A i \in 1 .. Len(w) : Wires(s)[Start(s, n) + i] = w[i]
    <2>1. k - 1 = n
      BY <1>3
    <2>2. /\ Len(w) \in Nat /\ Len(w) > 0
          /\ Start(s, k) = Start(s, k - 1) + Len(w)
          /\ \A i \in 1 .. Len(w) : Wires(s)[Start(s, k - 1) + i] = w[i]
      <3>1. s \in Seq(Requests) /\ k \in 1 .. Len(s) /\ w = Wire(k, s[k])
        BY <1>1, <1>8, <1>15
      <3> QED
        BY ONLY <3>1, StreamAt
    <2> QED
      BY <2>1, <2>2
  <1>10. \A i \in 1 .. Len(b) : i <= Len(w) => b[i] = w[i]
    <2> SUFFICES ASSUME NEW i \in 1 .. Len(b), i <= Len(w) PROVE b[i] = w[i]
      OBVIOUS
    <2>1. i \in 1 .. Len(w)
      BY <1>7, <1>9
    <2>2. b[i] = Wires(s)[Start(s, n) + i]
      BY <1>1, <1>2, <1>4
    <2> QED
      BY <1>9, <2>1, <2>2
  <1>11. s[k].form = "array" => ~s[k].breaks /\ Len(w) <= Len(b)
    <2> SUFFICES ASSUME s[k].form = "array" PROVE ~s[k].breaks /\ Len(w) <= Len(b)
      OBVIOUS
    <2>1. s[k] \in Requests /\ k \in Nat
      BY <1>1, <1>8
    <2>2. w[1] = Lead(k, s[k])
      BY <1>15, <2>1, WireHead
    <2>3. b[1] = w[1]
      <3> 1 \in 1 .. Len(b) /\ 1 <= Len(w)
        BY <1>7, <1>9
      <3> QED
        BY <1>10
    <2>4. b[1][1] = k /\ b[1][2] = "count"
      BY <2>2, <2>3 DEF Lead, Token
    <2>5. ~s[k].breaks /\ ~(Len(b) < Len(w))
      BY <1>4, <1>6, <1>15, <2>4
    <2>6. Len(w) <= Len(b)
      BY <1>7, <1>9, <2>5
    <2> QED
      BY <2>5, <2>6
  <1>12. /\ p.used = Len(w)
         /\ [request |-> p.request, reply |-> p.reply] \in Wanted(c, k)
    <2>1. choice \in DOMAIN Scripts /\ k \in DOMAIN script(c)
      BY <1>1, <1>8 DEF Shape, s
    <2>2. b \in Seq(Sendable(script(c))) /\ HasDelimiter(b) /\ w = Wire(k, script(c)[k])
      BY <1>2, <1>4, <1>15 DEF T, s
    <2>3. script(c)[k].form = "array" => ~script(c)[k].breaks /\ Len(w) <= Len(b)
      BY <1>11 DEF s
    <2>4. /\ Parsed(c, b).used = Len(w)
          /\ [request |-> Parsed(c, b).request, reply |-> Parsed(c, b).reply] \in Wanted(c, k)
      BY <1>10, <2>1, <2>2, <2>3, ParsedInStep
    <2> QED
      BY <1>4, <2>4
  <1>13. consumed[c] + p.used = Start(s, k)
    BY <1>4, <1>9, <1>12
  <1>14. k <= Len(s)
    BY <1>3, <1>8
  <1> QED
    BY <1>12, <1>13, <1>14 DEF s

\* Every step keeps a session in step, or marks it as out of step.
LEMMA SyncStep ==
  ASSUME Shape, Bounds, Sync, [Next]_vars
  PROVE  Sync'
  <1>0. /\ wired' = wired /\ choice' = choice /\ (up' => up)
        /\ \A c \in Client : /\ \A k : Wanted(c, k)' = Wanted(c, k)
                             /\ \A n : Start(script(c), n)' = Start(script(c), n)
                             /\ script(c)' = script(c)
    BY ServerKept, WantedKept
  <1>1. CASE \A c \in Client : ~ReadHandler(c)
    <2>1. log' = log /\ skew' = skew /\ consumed' = consumed
      BY <1>1, LogKept
    <2> SUFFICES ASSUME NEW d \in Client, ~skew'[d]
                 PROVE  /\ Len(log'[d]) <= Len(script(d)')
                        /\ \A k \in DOMAIN log'[d] : log'[d][k] \in Wanted(d, k)'
                        /\ up' => consumed'[d] = Start(script(d)', Len(log'[d]))
      BY DEF Sync
    <2> QED
      BY <1>0, <2>1 DEF Sync
  <1>2. ASSUME NEW c \in Client, ReadHandler(c) PROVE Sync'
    <2> DEFINE p == Parsed(c, buffer_(c))
               e == [request |-> p.request, reply |-> p.reply]
    <2>1. HasDelimiter(buffer_(c)) /\ Run(c, p) /\ up
      BY <1>2, RunIs DEF ReadHandler
    <2> SUFFICES ASSUME NEW d \in Client, ~skew'[d]
                 PROVE  /\ Len(log'[d]) <= Len(script(d)')
                        /\ \A k \in DOMAIN log'[d] : log'[d][k] \in Wanted(d, k)'
                        /\ up' => consumed'[d] = Start(script(d)', Len(log'[d]))
      BY DEF Sync
    <2>2. CASE d # c
      <3>1. skew'[d] = skew[d] /\ consumed'[d] = consumed[d] /\ log'[d] = log[d]
        <4> HIDE DEF p
        <4>1. /\ skew' = [skew EXCEPT ![c] = @ \/ CutShort(c)]
              /\ consumed' = [consumed EXCEPT ![c] = @ + p.used]
              /\ log' = log \/ log' = [log EXCEPT ![c] = Append(@, e)]
          BY <2>1 DEF Run
        <4> QED
          BY <2>2, <4>1 DEF Shape
      <3> QED
        BY <1>0, <3>1 DEF Sync
    <2>3. CASE d = c
      <3> DEFINE k == Len(log[c]) + 1
      <3>1. ~skew[c] /\ ~CutShort(c)
        <4> HIDE DEF p
        <4>1. skew' = [skew EXCEPT ![c] = @ \/ CutShort(c)]
          BY <2>1 DEF Run
        <4> QED
          BY <2>3, <4>1 DEF Shape
      <3>2. /\ Len(log[c]) <= Len(script(c))
            /\ \A i \in DOMAIN log[c] : log[c][i] \in Wanted(c, i)
            /\ consumed[c] = Start(script(c), Len(log[c]))
        BY <2>1, <3>1 DEF Sync
      <3>3. /\ k <= Len(script(c)) /\ e \in Wanted(c, k)
            /\ consumed[c] + p.used = Start(script(c), k)
        BY <2>1, <3>1, <3>2, NextRequest
      <3> HIDE DEF p, e
      <3>4. CASE wired /\ p.request # << >> /\ Throws(RequestOf(c, p.request))
        <4> up' = FALSE /\ log' = log
          BY <2>1, <3>4 DEF Run
        <4> QED
          BY <1>0, <2>3, <3>2
      <3>5. CASE ~(wired /\ p.request # << >> /\ Throws(RequestOf(c, p.request)))
        <4>1. /\ log' = [log EXCEPT ![c] = Append(@, e)]
              /\ consumed' = [consumed EXCEPT ![c] = @ + p.used]
          BY <2>1, <3>5 DEF Run, e
        <4> DEFINE E == Entries
        <4>2. log[c] \in Seq(E) /\ log'[c] = Append(log[c], e)
              /\ consumed'[c] = consumed[c] + p.used
          BY <4>1 DEF Shape
        <4> HIDE DEF E
        <4>3. Len(log'[c]) = k /\ DOMAIN log'[c] = 1 .. k /\ Len(log[c]) \in Nat
          BY <4>2
        <4>4. \A i \in 1 .. k : log'[c][i] \in Wanted(c, i)
          <5> TAKE i \in 1 .. k
          <5>1. CASE i = k
            <6> Append(log[c], e)[k] = e
              BY <4>2
            <6> HIDE DEF k
            <6> QED
              BY <3>3, <4>2, <5>1
          <5>2. CASE i # k
            <6> i \in 1 .. Len(log[c]) /\ i \in DOMAIN log[c]
              BY <4>2, <4>3, <5>2
            <6> Append(log[c], e)[i] = log[c][i]
              BY <4>2
            <6> QED
              BY <3>2, <4>2
          <5> QED
            BY <5>1, <5>2
        <4> HIDE DEF k
        <4> QED
          BY <1>0, <2>3, <3>3, <4>2, <4>3, <4>4
      <3> QED
        BY <3>4, <3>5
    <2> QED
      BY <2>2, <2>3
  <1> QED
    BY <1>1, <1>2

\* The inductive invariant.
RedisInv == Shape /\ Bounds /\ Asked /\ Delivery /\ Sync

\* The inductive invariant holds when the server starts.
LEMMA RedisInit == Init => RedisInv
  <1> SUFFICES ASSUME Init PROVE RedisInv
    OBVIOUS
  <1>1. /\ wired \in BOOLEAN /\ up = TRUE /\ choice \in DOMAIN Scripts
        /\ stream = [c \in Client |-> Wires(script(c))]
        /\ conn = [c \in Client |-> "open"] /\ pc = [c \in Client |-> "new"]
        /\ taken = [c \in Client |-> 0] /\ consumed = [c \in Client |-> 0]
        /\ pending = [c \in Client |-> Nothing]
        /\ out = [c \in Client |-> << >>] /\ received = [c \in Client |-> << >>]
        /\ log = [c \in Client |-> << >>]
        /\ skew = [c \in Client |-> FALSE] /\ late = [c \in Client |-> FALSE]
    BY DEF Init, script
  <1>2. Nothing \in Values
    BY DEF Values, Replies
  <1>3. Shape
    <2> DEFINE V == Values
               E == Entries
    <2>1. << >> \in Seq(V) /\ << >> \in Seq(E)
      OBVIOUS
    <2> HIDE DEF V, E
    <2>2. /\ pending \in [Client -> V] /\ out \in [Client -> Seq(V)]
          /\ received \in [Client -> Seq(V)] /\ log \in [Client -> Seq(E)]
      BY <1>1, <1>2, <2>1 DEF V
    <2>3. pc \in [Client -> Pc]
      BY <1>1 DEF Pc
    <2> QED
      BY <1>1, <2>2, <2>3 DEF Shape, V, E
  <1>4. \A c \in Client : Len(stream[c]) \in Nat
    BY <1>3, StreamType
  <1>5. Bounds
    BY <1>1, <1>4, RedisServerAssumption DEF Bounds
  <1>6. Asked
    BY <1>1 DEF Asked
  <1>7. Delivery
    <2>1. Sent(<< >>) = << >>
      <3> FlattenSeq([i \in 1 .. 0 |-> ReplyOf((<< >>)[i])]) = << >>
        <4> [i \in 1 .. 0 |-> ReplyOf((<< >>)[i])] = << >>
          OBVIOUS
        <4> QED
          BY FlatEmpty
      <3> << >> \in Seq(Entries) /\ Len(<< >>) = 0
        OBVIOUS
      <3> QED
        BY SentIs
    <2>2. << >> \o << >> = << >>
      OBVIOUS
    <2> QED
      BY <1>1, <2>1, <2>2 DEF Delivery
  <1>8. Sync
    <2> SUFFICES ASSUME NEW c \in Client
                 PROVE  /\ Len(log[c]) <= Len(script(c))
                        /\ \A k \in DOMAIN log[c] : log[c][k] \in Wanted(c, k)
                        /\ consumed[c] = Start(script(c), Len(log[c]))
      BY DEF Sync
    <2>1. log[c] = << >> /\ consumed[c] = 0 /\ Len(<< >>) = 0 /\ DOMAIN << >> = {}
      BY <1>1
    <2>2. script(c) \in Seq(Requests)
      BY <1>3, StreamType
    <2>3. Start(script(c), 0) = 0 /\ 0 <= Len(script(c))
      <3> DEFINE s == script(c)
      <3> HIDE DEF s
      <3> s \in Seq(Requests)
        BY <2>2 DEF s
      <3> Start(s, 0) = 0 /\ 0 <= Len(s)
        BY StartEnds
      <3> QED
        BY DEF s
    <2> QED
      BY <2>1, <2>3
  <1> QED
    BY <1>3, <1>5, <1>6, <1>7, <1>8 DEF RedisInv

\* Every step keeps the inductive invariant.
LEMMA RedisStep == RedisInv /\ [Next]_vars => RedisInv'
  BY ShapeStep, BoundsStep, AskedStep, DeliveryStep, SyncStep DEF RedisInv

\* The parts of the inductive invariant hold in every state.
THEOREM RedisInvHolds == Spec => []RedisInv
  BY RedisInit, RedisStep, PTL DEF Spec

\* Every variable keeps its type, the buffer is a part of the stream, and the socket
\* never holds more replies than it has room for (do_write, do_read).
THEOREM RedisTypeOK == Spec => []TypeOK
  <1>1. RedisInv => TypeOK
    BY DEF RedisInv, Shape, Bounds, TypeOK
  <1> QED
    BY <1>1, RedisInvHolds, PTL

\* However the stream of a client is cut into reads, and with any number of requests
\* in flight, the read handler takes out the requests that the client put in, each
\* once and in order, up to the first that was cut short when its first line was
\* read, or has a line end in its last string (the handler of do_read).
THEOREM RedisInStep == Spec => []InStep
  <1>1. RedisInv => InStep
    BY DEF RedisInv, Sync, InStep
  <1> QED
    BY <1>1, RedisInvHolds, PTL

\* Unless a write had to wait, the client receives the replies of its session
\* complete, in order, once each and framed (do_write, the handlers of handler.cpp).
THEOREM RedisRepliesDelivered == Spec => []RepliesDelivered
  <1>1. RedisInv => RepliesDelivered
    <2> SUFFICES ASSUME RedisInv, NEW c \in Client, ~late[c]
                 PROVE  /\ received[c] \o out[c] = Sent(log[c])
                        /\ \A i \in DOMAIN Sent(log[c]) : Framed(Sent(log[c])[i])
      BY DEF RepliesDelivered
    <2>1. received[c] \o out[c] = Sent(log[c])
      BY DEF RedisInv, Delivery
    <2>2. log[c] \in Seq(Entries)
      BY DEF RedisInv, Shape
    <2>3. Sent(log[c]) \in Seq(Framing)
      BY <2>2, SentIs
    <2>4. \A i \in DOMAIN Sent(log[c]) : Sent(log[c])[i] \in Framing
      <3> DEFINE F == Framing
      <3> HIDE DEF F
      <3> Sent(log[c]) \in Seq(F)
        BY <2>3 DEF F
      <3> \A i \in DOMAIN Sent(log[c]) : Sent(log[c])[i] \in F
        OBVIOUS
      <3> QED
        BY DEF F
    <2> QED
      BY <2>1, <2>4 DEF Framing
  <1> QED
    BY <1>1, RedisInvHolds, PTL

\* No handler passes an argument vector on that is shorter, or longer, than the
\* method of the wrapper reads, but llen (handler.cpp, redis_wrapper.cpp).
THEOREM RedisArgumentsMatch == Spec => []ArgumentsMatch
  <1>1. RedisInv => ArgumentsMatch
    <2> SUFFICES ASSUME RedisInv, NEW c \in Client, NEW e \in Range(log[c]),
                        e.request # << >>, NEW r, r = RequestOf(c, e.request),
                        NEW op, op = string2Ops(r.word),
                        HandlerAccepts(op, r.n), WrapperReads(op, r.n) # {}
                 PROVE  WrapperReads(op, r.n) = IF op = "llen" THEN {1} ELSE 1 .. r.n - 1
      BY DEF ArgumentsMatch
    <2>1. PICK i \in DOMAIN log[c] : e = log[c][i]
      BY DEF Range
    <2>2. r \in Requests
      BY <2>1 DEF RedisInv, Asked
    <2>3. r.n \in Nat
      BY <2>2 DEF Requests
    <2>4. op \in OPS
      BY OpsOf
    <2> QED
      BY <2>3, <2>4, ReadsMatch
  <1> QED
    BY <1>1, RedisInvHolds, PTL
==============================================================================
