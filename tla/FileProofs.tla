------------------------------ MODULE FileProofs ------------------------------
(***************************************************************************)
(* Theorems about File: while the stream has had no error the file is what *)
(* the accepted writes make it, sync tells the truth, and both classes     *)
(* implement ByteFile, whatever is written, wherever, and however much of  *)
(* it a full disk takes.                                                   *)
(***************************************************************************)
EXTENDS File, SequenceTheorems, TLAPS

-----------------------------------------------------------------------------
(* Bytes.                                                                  *)

\* A patch is a file, and reaches to the end of the longer of the two.
LEMMA PatchType ==
  ASSUME NEW f \in Seq(Byte), NEW off \in Nat, NEW d \in Seq(Byte)
  PROVE  /\ Patch(f, off, d) \in Seq(Byte)
         /\ d # <<>> => Len(Patch(f, off, d)) =
                          (IF off + Len(d) > Len(f) THEN off + Len(d) ELSE Len(f))
<1>1. CASE d = <<>>
  BY <1>1 DEF Patch
<1>2. CASE d # <<>>
  <2> DEFINE n == IF off + Len(d) > Len(f) THEN off + Len(d) ELSE Len(f)
             byte(i) == IF i \in off + 1 .. off + Len(d) THEN d[i - off]
                        ELSE IF i <= Len(f) THEN f[i] ELSE 0
  <2>1. n \in Nat
    OBVIOUS
  <2>2. Patch(f, off, d) = [i \in 1 .. n |-> byte(i)]
    BY <1>2 DEF Patch
  <2>3. ASSUME NEW i \in 1 .. n PROVE byte(i) \in Byte
    <3>1. CASE i \in off + 1 .. off + Len(d)
      <4>1. i - off \in 1 .. Len(d)
        BY <3>1
      <4> QED BY <3>1, <4>1
    <3>2. CASE ~(i \in off + 1 .. off + Len(d)) /\ i <= Len(f)
      BY <3>2
    <3>3. CASE ~(i \in off + 1 .. off + Len(d)) /\ ~(i <= Len(f))
      BY <3>3 DEF Byte
    <3> QED BY <3>1, <3>2, <3>3
  <2> HIDE DEF n, byte
  <2>4. Patch(f, off, d) \in Seq(Byte) /\ Len(Patch(f, off, d)) = n
    BY <2>1, <2>2, <2>3
  <2> QED BY <2>4 DEF n
<1> QED BY <1>1, <1>2

\* What a patch makes of each byte.
LEMMA PatchAt ==
  ASSUME NEW f \in Seq(Byte), NEW off \in Nat, NEW d \in Seq(Byte), d # <<>>,
         NEW i \in 1 .. Len(Patch(f, off, d))
  PROVE  Patch(f, off, d)[i] = IF i \in off + 1 .. off + Len(d) THEN d[i - off]
                               ELSE IF i <= Len(f) THEN f[i] ELSE 0
<1>1. i \in 1 .. (IF off + Len(d) > Len(f) THEN off + Len(d) ELSE Len(f))
  BY PatchType
<1> QED BY <1>1 DEF Patch

\* A file that is cut or filled up has the length asked for.
LEMMA ResizedType ==
  ASSUME NEW f \in Seq(Byte), NEW n \in Nat
  PROVE  Resized(f, n) \in Seq(Byte) /\ Len(Resized(f, n)) = n
<1>1. ASSUME NEW i \in 1 .. n PROVE (IF i <= Len(f) THEN f[i] ELSE 0) \in Byte
  <2>1. CASE i <= Len(f)
    BY <2>1
  <2>2. CASE ~(i <= Len(f))
    BY <2>2 DEF Byte
  <2> QED BY <2>1, <2>2
<1> QED BY <1>1 DEF Resized

\* A patch leaves alone what lies before it.
LEMMA PatchBefore ==
  ASSUME NEW f \in Seq(Byte), NEW off \in Nat, NEW d \in Seq(Byte), NEW n \in 0 .. off
  PROVE  Resized(Patch(f, off, d), n) = Resized(f, n)
<1>1. CASE d = <<>>
  BY <1>1 DEF Patch
<1>2. CASE d # <<>>
  <2> DEFINE g == Patch(f, off, d)
  <2>1. g \in Seq(Byte) /\ Len(g) >= off /\ Len(g) >= Len(f)
    BY <1>2, PatchType
  <2>2. ASSUME NEW i \in 1 .. n
        PROVE  (IF i <= Len(g) THEN g[i] ELSE 0) = (IF i <= Len(f) THEN f[i] ELSE 0)
    <3>1. i \in 1 .. Len(g) /\ ~(i \in off + 1 .. off + Len(d))
      BY <2>1
    <3> QED BY <3>1, <1>2, PatchAt
  <2> HIDE DEF g
  <2> QED BY <2>2 DEF Resized, g
<1> QED BY <1>1, <1>2

\* A patch that reaches the end of the file ends the file.
LEMMA PatchFits ==
  ASSUME NEW f \in Seq(Byte), NEW off \in Nat, NEW d \in Seq(Byte), d # <<>>,
         off + Len(d) >= Len(f)
  PROVE  Resized(Patch(f, off, d), off + Len(d)) = Patch(f, off, d)
<1> DEFINE g == Patch(f, off, d)
<1>1. g \in Seq(Byte) /\ Len(g) = off + Len(d)
  BY PatchType
<1> HIDE DEF g
<1>2. Resized(g, Len(g)) = g
  BY <1>1 DEF Resized
<1> QED BY <1>1, <1>2 DEF g

\* Bytes put behind the last one are appended.
LEMMA PatchEnd ==
  ASSUME NEW f \in Seq(Byte), NEW d \in Seq(Byte)
  PROVE  Patch(f, Len(f), d) = f \o d
<1>1. CASE d = <<>>
  BY <1>1 DEF Patch
<1>2. CASE d # <<>>
  <2> DEFINE g == Patch(f, Len(f), d)
  <2>1. g \in Seq(Byte) /\ Len(g) = Len(f) + Len(d)
    BY <1>2, PatchType
  <2>2. f \o d \in Seq(Byte) /\ Len(f \o d) = Len(f) + Len(d)
    OBVIOUS
  <2>3. ASSUME NEW i \in 1 .. Len(f) + Len(d) PROVE g[i] = (f \o d)[i]
    BY <2>1, <1>2, PatchAt
  <2> HIDE DEF g
  <2>4. g = f \o d
    BY <2>1, <2>2, <2>3, SeqEqual
  <2> QED BY <2>4 DEF g
<1> QED BY <1>1, <1>2

\* The bytes of an empty file are those written to it.
LEMMA PatchNothing ==
  ASSUME NEW d \in Seq(Byte)
  PROVE  Patch(<<>>, 0, d) = d
<1>1. <<>> \in Seq(Byte) /\ Len(<<>>) = 0 /\ <<>> \o d = d
  OBVIOUS
<1> QED BY <1>1, PatchEnd

\* The first bytes of some bytes.
LEMMA PrefixType ==
  ASSUME NEW d \in Seq(Byte), NEW p \in 0 .. Len(d)
  PROVE  SubSeq(d, 1, p) \in Seq(Byte) /\ Len(SubSeq(d, 1, p)) = p
OBVIOUS

(***************************************************************************)
(* The inductive invariant.  What was accepted is there only while the     *)
(* stream has its buffer in order, so the types have to say which handles  *)
(* can have a buffer or an error at all.                                   *)
(***************************************************************************)

Buffered == [at : 0 .. MaxSize, data : {d \in Data : Len(d) \in 1 .. Direct - 1}]

TypeInv ==
  /\ kind \in {"std", "mmap"}
  /\ open \in BOOLEAN /\ named \in BOOLEAN /\ good \in BOOLEAN
  /\ mapped \in BOOLEAN /\ synced \in BOOLEAN
  /\ disk \in Seq(Byte) /\ result \in Seq(Byte) \cup {None}
  /\ accepted \in Seq(Byte) \cup {None}
  /\ buf \in Buffered \cup {None}

\* Which class has what: only an open stream a buffer or an error, only an open
\* mapped file a mapping, and only a mapped file is ever cut.
Handles ==
  /\ ~good \/ buf # None => std /\ open
  /\ good /\ buf # None => buf.at + Len(buf.data) <= MaxSize
  /\ mapped => mmap /\ open /\ disk # <<>>
  /\ accepted = None => mmap

Inv == TypeInv /\ Handles /\ AcceptedIsThere /\ SyncTells

-----------------------------------------------------------------------------
(* The stream.                                                             *)

Streams == {s \in [disk : Seq(Byte), buf : Buffered \cup {None}, good : BOOLEAN] :
              s.good /\ s.buf # None => s.buf.at + Len(s.buf.data) <= MaxSize}

\* The file with the buffer in it, if that is going to get there.
Sees(s) == IF s.good /\ s.buf # None THEN Patch(s.disk, s.buf.at, s.buf.data) ELSE s.disk

\* What a caller writes is bytes, no more than the bound allows.
LEMMA DataType ==
  ASSUME NEW d \in Data
  PROVE  d \in Seq(Byte) /\ Len(d) \in 0 .. MaxSize
BY FileAssumption

\* A buffer is not None, and what it holds was given by a caller.
LEMMA BufferType ==
  ASSUME NEW b \in Buffered
  PROVE  /\ b # None /\ b.at \in Nat /\ b.at \in 0 .. MaxSize
         /\ b.data \in Data /\ b.data \in Seq(Byte) /\ b.data # <<>>
         /\ Len(b.data) \in 1 .. Direct - 1
<1>1. b \in [at : Nat, data : Seq(Byte)]
  BY FileAssumption DEF Buffered
<1>2. b # None
  BY <1>1, FileAssumption
<1> QED BY <1>2, FileAssumption DEF Buffered

\* The file with the buffer in it is a sequence of bytes.
LEMMA SeesType ==
  ASSUME NEW s \in Streams
  PROVE  Sees(s) \in Seq(Byte)
BY PatchType, BufferType DEF Sees, Streams

\* What becomes of bytes given to the operating system.
LEMMA PushedIs ==
  ASSUME NEW s \in Streams, NEW off \in Nat, NEW d \in Data, d # <<>>,
         NEW b \in BOOLEAN, NEW t \in Pushed(s, off, d, b)
  PROVE  \/ t = [disk |-> Patch(s.disk, off, d), buf |-> None, good |-> TRUE]
         \/ \E p \in 0 .. Len(d) - 1 :
              t = [disk |-> Patch(s.disk, off, SubSeq(d, 1, p)),
                   buf |-> IF b THEN [at |-> off + p, data |-> d] ELSE None,
                   good |-> FALSE]
BY DEF Pushed

\* They lie at off and behind it.
LEMMA PushedDisk ==
  ASSUME NEW s \in Streams, NEW off \in Nat, NEW d \in Data, d # <<>>,
         NEW b \in BOOLEAN, NEW t \in Pushed(s, off, d, b), NEW n \in 0 .. off
  PROVE  t.disk \in Seq(Byte) /\ Resized(t.disk, n) = Resized(s.disk, n)
<1>1. \E g \in Seq(Byte) : t.disk = Patch(s.disk, off, g)
  <2>1. CASE t = [disk |-> Patch(s.disk, off, d), buf |-> None, good |-> TRUE]
    BY <2>1, DataType
  <2>2. ASSUME NEW p \in 0 .. Len(d) - 1,
               t = [disk |-> Patch(s.disk, off, SubSeq(d, 1, p)),
                    buf |-> IF b THEN [at |-> off + p, data |-> d] ELSE None,
                    good |-> FALSE]
        PROVE  \E g \in Seq(Byte) : t.disk = Patch(s.disk, off, g)
    <3>1. d \in Seq(Byte) /\ p \in 0 .. Len(d)
      BY DataType
    <3>2. SubSeq(d, 1, p) \in Seq(Byte)
      BY <3>1, PrefixType
    <3>3. t.disk = Patch(s.disk, off, SubSeq(d, 1, p))
      BY <2>2
    <3> QED BY <3>2, <3>3
  <2> QED BY <2>1, <2>2, PushedIs
<1>2. s.disk \in Seq(Byte)
  BY DEF Streams
<1>3. PICK g \in Seq(Byte) : t.disk = Patch(s.disk, off, g)
  BY <1>1
<1>4. Patch(s.disk, off, g) \in Seq(Byte)
  BY <1>2, PatchType
<1>5. Resized(Patch(s.disk, off, g), n) = Resized(s.disk, n)
  BY <1>2, PatchBefore
<1> QED BY <1>3, <1>4, <1>5

\* Bytes from the buffer that are not all taken leave a stream as streams are.
LEMMA PushedType ==
  ASSUME NEW s \in Streams, NEW off \in Nat, NEW d \in Data, d # <<>>,
         NEW b \in BOOLEAN, NEW t \in Pushed(s, off, d, b),
         off + Len(d) <= MaxSize, b => Len(d) < Direct
  PROVE  t \in Streams
<1>1. s.disk \in Seq(Byte) /\ d \in Seq(Byte) /\ Len(d) \in Nat
  BY DataType DEF Streams
<1>2. CASE t = [disk |-> Patch(s.disk, off, d), buf |-> None, good |-> TRUE]
  BY <1>1, <1>2, PatchType DEF Streams
<1>3. ASSUME NEW p \in 0 .. Len(d) - 1,
             t = [disk |-> Patch(s.disk, off, SubSeq(d, 1, p)),
                  buf |-> IF b THEN [at |-> off + p, data |-> d] ELSE None,
                  good |-> FALSE]
      PROVE  t \in Streams
  <2>1. t.disk \in Seq(Byte)
    BY PushedDisk
  <2>2. b => [at |-> off + p, data |-> d] \in Buffered
    BY <1>1, FileAssumption DEF Buffered
  <2> QED BY <1>3, <2>1, <2>2 DEF Streams
<1> QED BY <1>2, <1>3, PushedIs

\* A flush either empties the buffer into the file, or fails, which it does at most
\* once, and then costs no more than what was in the buffer.
LEMMA SeekIs ==
  ASSUME NEW s \in Streams, NEW t \in Seek(s)
  PROVE  /\ t \in Streams
         /\ ~s.good => t = s
         /\ t.good => s.good /\ t.buf = None /\ t.disk = Sees(s)
         /\ s.good /\ ~t.good => /\ s.buf \in Buffered /\ t.buf \in Buffered
                                 /\ s.buf.at <= t.buf.at
                                 /\ Resized(t.disk, s.buf.at) = Resized(Sees(s), s.buf.at)
<1>1. CASE ~s.good
  BY <1>1 DEF Seek
<1>2. CASE s.good /\ s.buf = None
  BY <1>2 DEF Seek, Sees
<1>3. CASE s.good /\ s.buf # None
  <2>1. s.buf \in Buffered /\ s.disk \in Seq(Byte)
    BY <1>3 DEF Streams
  <2> DEFINE at == s.buf.at
             d == s.buf.data
  <2>2. /\ at \in Nat /\ d \in Data /\ d \in Seq(Byte) /\ d # <<>>
        /\ Len(d) < Direct /\ at + Len(d) <= MaxSize
    BY <1>3, <2>1, BufferType, FileAssumption DEF Streams
  <2>3. t \in Pushed(s, at, d, TRUE)
    BY <1>3 DEF Seek
  <2>4. Sees(s) = Patch(s.disk, at, d)
    BY <1>3 DEF Sees
  <2> HIDE DEF at, d
  <2>5. t \in Streams
    BY <2>2, <2>3, PushedType
  <2>6. CASE t = [disk |-> Patch(s.disk, at, d), buf |-> None, good |-> TRUE]
    BY <1>3, <2>4, <2>5, <2>6
  <2>7. ASSUME NEW p \in 0 .. Len(d) - 1,
               t = [disk |-> Patch(s.disk, at, SubSeq(d, 1, p)),
                    buf |-> [at |-> at + p, data |-> d], good |-> FALSE]
        PROVE  /\ ~t.good /\ t.buf \in Buffered /\ at <= t.buf.at
               /\ Resized(t.disk, at) = Resized(Sees(s), at)
    <3>1. t.buf \in Buffered
      <4>1. at + p \in 0 .. MaxSize /\ Len(d) \in 1 .. Direct - 1
        BY <2>2, FileAssumption
      <4>2. t.buf = [at |-> at + p, data |-> d]
        BY <2>7
      <4> QED BY <2>2, <4>1, <4>2 DEF Buffered
    <3>2. Resized(t.disk, at) = Resized(s.disk, at)
      <4>1. at \in 0 .. at /\ TRUE \in BOOLEAN
        BY <2>2
      <4> QED BY <2>2, <2>3, <4>1, PushedDisk
    <3>3. Resized(Sees(s), at) = Resized(s.disk, at)
      BY <2>1, <2>2, <2>4, PatchBefore
    <3>4. at <= t.buf.at
      BY <2>2, <2>7
    <3> QED BY <2>7, <3>1, <3>2, <3>3, <3>4
  <2>8. s.buf.at = at
    BY DEF at
  <2>9. \/ t = [disk |-> Patch(s.disk, at, d), buf |-> None, good |-> TRUE]
        \/ \E p \in 0 .. Len(d) - 1 :
             t = [disk |-> Patch(s.disk, at, SubSeq(d, 1, p)),
                  buf |-> [at |-> at + p, data |-> d], good |-> FALSE]
    BY <2>3 DEF Pushed
  <2> QED BY <1>3, <2>1, <2>5, <2>6, <2>7, <2>8, <2>9
<1> QED BY <1>1, <1>2, <1>3

\* filebuf::close: the same, in any state of the stream.
LEMMA ClosedIs ==
  ASSUME NEW s \in Streams, NEW t \in Closed(s)
  PROVE  /\ t.disk \in Seq(Byte)
         /\ s.buf = None => t = s
         /\ s.buf # None => /\ s.buf \in Buffered
                            /\ \A n \in 0 .. s.buf.at :
                                 Resized(t.disk, n) = Resized(s.disk, n)
<1>1. CASE s.buf = None
  BY <1>1 DEF Closed, Streams
<1>2. CASE s.buf # None
  <2>1. s.buf \in Buffered
    BY <1>2 DEF Streams
  <2>2. t \in Pushed(s, s.buf.at, s.buf.data, TRUE)
    BY <1>2 DEF Closed
  <2>3. /\ s.buf.at \in Nat /\ s.buf.data \in Data /\ s.buf.data # <<>> /\ TRUE \in BOOLEAN
        /\ 0 \in 0 .. s.buf.at
    BY <2>1, BufferType
  <2>4. \A n \in 0 .. s.buf.at : t.disk \in Seq(Byte) /\ Resized(t.disk, n) = Resized(s.disk, n)
    BY <2>2, <2>3, PushedDisk
  <2> QED BY <1>2, <2>1, <2>3, <2>4
<1> QED BY <1>1, <1>2

\* A write to a stream in order, with nothing in its buffer, is seen at once, all
\* of it if the stream stays in order.
LEMMA PutIs ==
  ASSUME NEW s \in Streams, NEW off \in Nat, NEW d \in Data, NEW t \in Put(s, off, d),
         off + Len(d) <= MaxSize, s.good => s.buf = None
  PROVE  /\ t \in Streams
         /\ ~s.good => t = s
         /\ s.good /\ t.good => /\ Sees(t) = Patch(s.disk, off, d)
                                /\ t.buf = None \/ (t.buf \in Buffered /\ t.buf.at = off)
         /\ s.good /\ ~t.good => /\ t.buf = None
                                 /\ \E p \in Prefixes(d) : t.disk = Patch(s.disk, off, p)
<1>1. CASE ~s.good
  BY <1>1 DEF Put
<1>2. CASE s.good /\ d = <<>>
  BY <1>2 DEF Put, Sees, Patch
<1>3. CASE s.good /\ d # <<>> /\ Len(d) < Direct
  <2>1. t = [s EXCEPT !.buf = [at |-> off, data |-> d]]
    BY <1>3 DEF Put
  <2>2. t = [disk |-> s.disk, buf |-> [at |-> off, data |-> d], good |-> TRUE]
    BY <1>3, <2>1 DEF Streams
  <2>3. [at |-> off, data |-> d] \in Buffered
    BY <1>3, DataType, FileAssumption DEF Buffered
  <2>4. t.buf # None /\ t.good /\ t.buf = [at |-> off, data |-> d] /\ t.disk = s.disk
    BY <2>2, <2>3, BufferType
  <2>5. t \in Streams
    BY <2>2, <2>3, <2>4 DEF Streams
  <2> QED BY <1>3, <2>3, <2>4, <2>5 DEF Sees
<1>4. CASE s.good /\ d # <<>> /\ ~(Len(d) < Direct)
  <2>1. t \in Pushed(s, off, d, FALSE)
    BY <1>4 DEF Put
  <2>2. t \in Streams
    BY <1>4, <2>1, PushedType
  <2>3. CASE t = [disk |-> Patch(s.disk, off, d), buf |-> None, good |-> TRUE]
    BY <1>4, <2>2, <2>3 DEF Sees
  <2>4. ASSUME NEW p \in 0 .. Len(d) - 1,
               t = [disk |-> Patch(s.disk, off, SubSeq(d, 1, p)), buf |-> None, good |-> FALSE]
        PROVE  /\ ~t.good /\ t.buf = None
               /\ \E g \in Prefixes(d) : t.disk = Patch(s.disk, off, g)
    <3>1. SubSeq(d, 1, p) \in Prefixes(d)
      BY DataType DEF Prefixes
    <3> QED BY <2>4, <3>1
  <2>5. \/ t = [disk |-> Patch(s.disk, off, d), buf |-> None, good |-> TRUE]
        \/ \E p \in 0 .. Len(d) - 1 :
             t = [disk |-> Patch(s.disk, off, SubSeq(d, 1, p)), buf |-> None, good |-> FALSE]
    BY <2>1 DEF Pushed
  <2> QED BY <1>4, <2>2, <2>3, <2>4, <2>5
<1> QED BY <1>1, <1>2, <1>3, <1>4

\* The stream of the handle, before a step and after it.
LEMMA StreamIs ==
  ASSUME TypeInv, Handles
  PROVE  /\ Stream \in Streams /\ Content = Sees(Stream)
         /\ Stream.disk = disk /\ Stream.buf = buf /\ Stream.good = good
BY DEF TypeInv, Handles, Stream, Streams, Content, Sees

\* After a call on the stream the parts of the stream are those of its outcome.
LEMMA BecomeIs ==
  ASSUME NEW t \in Streams, Become(t)
  PROVE  /\ disk' = t.disk /\ buf' = t.buf /\ good' = t.good /\ Content' = Sees(t)
         /\ disk' \in Seq(Byte) /\ buf' \in Buffered \cup {None} /\ good' \in BOOLEAN
         /\ good' /\ buf' # None => buf'.at + Len(buf'.data) <= MaxSize
BY DEF Become, Content, Sees, Streams

-----------------------------------------------------------------------------
(* The invariant holds.                                                    *)

\* No bytes are a file, and no file is None.
LEMMA NoBytes == <<>> \in Seq(Byte) /\ None \notin Seq(Byte) /\ <<>> # None
<1>1. None \notin Seq(Byte)
  BY FileAssumption
<1>2. <<>> \in Seq(Byte)
  OBVIOUS
<1> QED BY <1>1, <1>2

\* A stream over another file.
LEMMA NewDisk ==
  ASSUME NEW f, NEW b, NEW g, NEW h
  PROVE  [[disk |-> f, buf |-> b, good |-> g] EXCEPT !.disk = h]
           = [disk |-> h, buf |-> b, good |-> g]
OBVIOUS

\* At first no file is there.
LEMMA InvInit == Init => Inv
<1> SUFFICES ASSUME Init PROVE Inv
  OBVIOUS
<1>1. <<>> \in Seq(Byte) /\ <<>> # None
  BY NoBytes
<1>2. TypeInv /\ Handles
  BY <1>1 DEF Init, TypeInv, Handles, std, mmap
<1>3. AcceptedIsThere /\ SyncTells
  BY DEF Init, AcceptedIsThere, SyncTells
<1> QED BY <1>2, <1>3 DEF Inv

\* open makes what is there, or an empty file, the accepted one.
LEMMA StdOpenInv ==
  ASSUME Inv, NEW create \in BOOLEAN, StdOpen(create)
  PROVE  Inv'
<1>1. <<>> \in Seq(Byte) /\ None \notin Seq(Byte)
  BY FileAssumption
<1>2. /\ ~open /\ kind = "std" /\ open' = TRUE /\ named' = TRUE /\ accepted' = disk'
      /\ disk' \in {disk, <<>>} /\ result' = None /\ synced' = FALSE
      /\ UNCHANGED <<kind, buf, good, mapped>>
  BY DEF StdOpen, Quiet, std
<1>3. TypeInv' /\ Handles'
  BY <1>1, <1>2 DEF Inv, TypeInv, Handles, std, mmap
<1>4. AcceptedIsThere' /\ SyncTells'
  BY <1>2 DEF Inv, Handles, AcceptedIsThere, SyncTells, Content
<1> QED BY <1>3, <1>4 DEF Inv

\* create_and_write empties the file, writes, and syncs without a look at the outcome.
LEMMA CreateAndWriteInv ==
  ASSUME Inv, NEW d \in Data, CreateAndWrite(d)
  PROVE  Inv'
<1> DEFINE new == [Stream EXCEPT !.disk = <<>>]
<1>1. PICK s \in Put(new, 0, d) : \E t \in Seek(s) : Become(t)
  BY DEF CreateAndWrite
<1>2. PICK t \in Seek(s) : Become(t)
  BY <1>1
<1>3. /\ std /\ ~open /\ open' = TRUE /\ named' = TRUE /\ accepted' = d
      /\ result' = None /\ synced' = FALSE /\ UNCHANGED <<kind, mapped>>
  BY DEF CreateAndWrite, Quiet
<1>4. buf = None /\ good
  BY <1>3 DEF Inv, TypeInv, Handles
<1>5. new = [disk |-> <<>>, buf |-> buf, good |-> good]
  BY NewDisk DEF Stream
<1> HIDE DEF new
<1>6. new \in Streams /\ new.good /\ new.buf = None /\ new.disk = <<>>
  BY <1>4, <1>5, NoBytes DEF Streams
<1>7. 0 \in Nat /\ 0 + Len(d) <= MaxSize /\ d \in Seq(Byte) /\ d # None
  BY FileAssumption, DataType
<1>8. s \in Streams /\ (s.good => Sees(s) = d)
  BY <1>6, <1>7, PutIs, PatchNothing
<1>9. t \in Streams /\ (t.good => Sees(t) = d)
  BY <1>8, SeekIs DEF Sees
<1>10. TypeInv' /\ Handles'
  BY <1>2, <1>3, <1>7, <1>9, BecomeIs DEF Inv, TypeInv, Handles, std, mmap
<1>11. AcceptedIsThere' /\ SyncTells'
  BY <1>2, <1>3, <1>9, BecomeIs DEF AcceptedIsThere, SyncTells
<1> QED BY <1>10, <1>11 DEF Inv

\* A write ends at MaxSize or before, and StdWrite and StdAppend differ only in
\* where it starts.
LEMMA WriteInv ==
  ASSUME Inv, std, open, NEW s \in Seek(Stream), NEW off \in Nat, NEW d \in Data,
         off + Len(d) <= MaxSize, NEW t \in Put(s, off, d), Become(t),
         accepted' \in Seq(Byte),
         s.good /\ s.disk = accepted => accepted' = Patch(accepted, off, d),
         Quiet, UNCHANGED <<kind, open, named, mapped>>
  PROVE  Inv'
<1>1. s \in Streams /\ (s.good => s.buf = None /\ s.disk = Content /\ good)
  BY StreamIs, SeekIs DEF Inv
<1>2. t \in Streams
  BY <1>1, PutIs
<1>3. t.good => s.good /\ Sees(t) = Patch(s.disk, off, d)
  BY <1>1, PutIs
<1>4. TypeInv' /\ Handles'
  BY <1>2, BecomeIs, FileAssumption DEF Inv, TypeInv, Handles, Quiet, std, mmap
<1>5. accepted # None
  BY DEF Inv, Handles, std, mmap
<1>6. good' => Content' = accepted'
  BY <1>1, <1>2, <1>3, <1>5, BecomeIs DEF Inv, AcceptedIsThere
<1> QED BY <1>4, <1>6 DEF Inv, AcceptedIsThere, SyncTells, Quiet

\* write: the seek hands over what was buffered before the new bytes come.
LEMMA StdWriteInv ==
  ASSUME Inv, NEW off \in 0 .. MaxSize, NEW d \in Data, off + Len(d) <= MaxSize,
         StdWrite(off, d)
  PROVE  Inv'
<1>1. PICK s \in Seek(Stream) : \E t \in Put(s, off, d) : Become(t)
  BY DEF StdWrite
<1>2. PICK t \in Put(s, off, d) : Become(t)
  BY <1>1
<1>3. accepted \in Seq(Byte) /\ off \in Nat /\ d \in Seq(Byte)
  BY DataType DEF StdWrite, Inv, TypeInv, Handles, std, mmap
<1>4. accepted' \in Seq(Byte)
  BY <1>3, PatchType DEF StdWrite
<1> QED BY <1>2, <1>3, <1>4, WriteInv DEF StdWrite

\* append: a write at the end of the file as the reader sees it.
LEMMA StdAppendInv ==
  ASSUME Inv, NEW d \in Data, StdAppend(d)
  PROVE  Inv'
<1>1. PICK s \in Seek(Stream) :
        /\ Len(s.disk) + Len(d) <= MaxSize
        /\ \E t \in Put(s, Len(s.disk), d) : Become(t)
  BY DEF StdAppend
<1>2. PICK t \in Put(s, Len(s.disk), d) : Become(t)
  BY <1>1
<1>3. accepted \in Seq(Byte) /\ d \in Seq(Byte)
  BY DataType DEF StdAppend, Inv, TypeInv, Handles, std, mmap
<1>4. Len(s.disk) \in Nat
  BY StreamIs, SeekIs DEF Inv, Streams
<1>5. /\ accepted' \in Seq(Byte)
      /\ s.disk = accepted => accepted' = Patch(accepted, Len(s.disk), d)
  BY <1>3, PatchEnd DEF StdAppend
<1> QED BY <1>1, <1>2, <1>4, <1>5, WriteInv DEF StdAppend

\* A call that only flushes leaves what is seen as it is.
LEMMA FlushInv ==
  ASSUME Inv, std, open, NEW s \in Seek(Stream), Become(s),
         result' \in Seq(Byte) \cup {None}, synced' \in BOOLEAN, synced' => s.good,
         UNCHANGED <<kind, open, named, mapped, accepted>>
  PROVE  Inv'
<1>1. s \in Streams /\ (s.good => s.buf = None /\ s.disk = Content /\ good)
  BY StreamIs, SeekIs DEF Inv
<1>2. TypeInv' /\ Handles'
  BY <1>1, BecomeIs DEF Inv, TypeInv, Handles, std, mmap
<1>3. good' => Content' = Content /\ disk' = Content /\ good
  BY <1>1, BecomeIs DEF Sees
<1>4. synced' => good'
  BY <1>1, BecomeIs
<1> QED BY <1>2, <1>3, <1>4 DEF Inv, AcceptedIsThere, SyncTells

\* A read through the stream hands over the buffer and changes nothing else.
LEMMA StdReadInv ==
  ASSUME Inv, NEW off \in 0 .. MaxSize, NEW n \in 0 .. MaxSize, StdRead(off, n)
  PROVE  Inv'
<1>1. PICK s \in Seek(Stream) :
        /\ Become(s)
        /\ result' = IF s.good /\ off + n <= Len(s.disk)
                     THEN SubSeq(s.disk, off + 1, off + n) ELSE None
  BY DEF StdRead
<1>2. s.disk \in Seq(Byte)
  BY StreamIs, SeekIs DEF Inv, Streams
<1>3. result' \in Seq(Byte) \cup {None}
  BY <1>1, <1>2, FileAssumption
<1>4. /\ std /\ open /\ synced' = FALSE
      /\ UNCHANGED <<kind, open, named, mapped, accepted>>
  BY DEF StdRead
<1> QED BY <1>1, <1>3, <1>4, FlushInv

\* After a sync that answered true nothing is left in the buffer.
LEMMA StdSyncInv ==
  ASSUME Inv, StdSync
  PROVE  Inv'
<1>1. PICK s \in Seek(Stream) : Become(s) /\ synced' = s.good
  BY DEF StdSync
<1>2. s.good \in BOOLEAN
  BY StreamIs, SeekIs DEF Inv, Streams
<1>3. std /\ open /\ result' = None /\ UNCHANGED <<kind, open, named, mapped, accepted>>
  BY DEF StdSync
<1> QED BY <1>1, <1>2, <1>3, FlushInv

\* A closed handle leaves no buffer, error or mapping.
LEMMA GoneInv ==
  ASSUME Inv, NEW d \in Seq(Byte), Gone(d)
  PROVE  Inv'
<1>1. <<>> \in Seq(Byte) /\ <<>> # None
  BY NoBytes
<1>2. /\ open' = FALSE /\ disk' \in Seq(Byte) /\ buf' = None /\ good' = TRUE
      /\ mapped' = FALSE /\ accepted' = <<>> /\ result' = None /\ synced' = FALSE
      /\ UNCHANGED <<kind, named>>
  BY <1>1 DEF Gone, Quiet
<1>3. TypeInv' /\ Handles'
  BY <1>1, <1>2 DEF Inv, TypeInv, Handles, std, mmap
<1> QED BY <1>2, <1>3 DEF Inv, AcceptedIsThere, SyncTells

\* close tries the buffer a last time.
LEMMA StdCloseInv ==
  ASSUME Inv, StdClose
  PROVE  Inv'
<1>1. PICK s \in Seek(Stream) : \E t \in Closed(s) : Gone(t.disk)
  BY DEF StdClose
<1>2. PICK t \in Closed(s) : Gone(t.disk)
  BY <1>1
<1>3. t.disk \in Seq(Byte)
  BY StreamIs, SeekIs, ClosedIs DEF Inv
<1> QED BY <1>2, <1>3, GoneInv

\* A removed file is gone for its handle too.
LEMMA DelFileInv ==
  ASSUME Inv, del_file
  PROVE  Inv'
<1>1. TypeInv' /\ Handles'
  BY DEF del_file, Quiet, Inv, TypeInv, Handles, std, mmap
<1> QED BY <1>1 DEF del_file, Quiet, Inv, AcceptedIsThere, SyncTells, Content

\* MmapFile::open maps what is there.
LEMMA MmapOpenInv ==
  ASSUME Inv, NEW create \in BOOLEAN, MmapOpen(create)
  PROVE  Inv'
<1>1. /\ mmap /\ ~open /\ named' = TRUE /\ open' \in BOOLEAN
      /\ mapped' = (open' /\ disk # <<>>)
      /\ accepted' = IF open' THEN disk ELSE accepted
      /\ Quiet /\ UNCHANGED <<kind, disk, buf, good>>
  BY DEF MmapOpen
<1>2. TypeInv'
  BY <1>1 DEF Inv, TypeInv, Quiet
<1>3. buf = None /\ good
  BY <1>1 DEF Inv, TypeInv, Handles, std, mmap
<1>4. Handles'
  BY <1>1, <1>3 DEF Inv, TypeInv, Handles, std, mmap
<1> QED BY <1>1, <1>2, <1>3, <1>4 DEF Inv, Quiet, AcceptedIsThere, SyncTells, Content

\* MmapFile::create makes a file that holds the data, or fails after it was resized.
LEMMA MmapCreateInv ==
  ASSUME Inv, NEW d \in Data, MmapCreate(d)
  PROVE  Inv'
<1>1. d \in Seq(Byte) /\ Resized(<<>>, Len(d)) \in Seq(Byte)
  BY DataType, ResizedType, NoBytes
<1>2. buf = None /\ good /\ mmap /\ ~open
  BY DEF MmapCreate, Inv, TypeInv, Handles, std, mmap
<1>3. /\ named' = TRUE /\ mapped' \in BOOLEAN /\ open' = mapped'
      /\ mapped' => disk' = d /\ d # <<>>
      /\ disk' \in Seq(Byte)
      /\ accepted' = IF mapped' THEN d ELSE accepted
      /\ Quiet /\ UNCHANGED <<kind, buf, good>>
  BY <1>1, NoBytes DEF MmapCreate, Mappable
<1>4. TypeInv'
  BY <1>1, <1>3 DEF Inv, TypeInv, Quiet
<1>5. Handles'
  BY <1>1, <1>2, <1>3 DEF Inv, TypeInv, Handles, std, mmap
<1> QED BY <1>2, <1>3, <1>4, <1>5 DEF Inv, Quiet, AcceptedIsThere, SyncTells, Content

\* MmapFile::write cuts the file where the write ends, and the accepted one with it.
LEMMA MmapWriteInv ==
  ASSUME Inv, NEW off \in 0 .. MaxSize, NEW d \in Data, MmapWrite(off, d)
  PROVE  Inv'
<1> DEFINE size == off + Len(d)
<1>1. d \in Seq(Byte) /\ disk \in Seq(Byte) /\ off \in Nat /\ size \in Nat
  BY DataType, FileAssumption DEF Inv, TypeInv
<1>2. Patch(disk, off, d) \in Seq(Byte)
  BY <1>1, PatchType
<1>3. /\ mmap /\ open /\ mapped' \in Mappable(size)
      /\ disk' = Resized(IF mapped' THEN Patch(disk, off, d) ELSE disk, size)
      /\ accepted' = IF mapped' /\ d # <<>> /\ accepted # None /\ size >= Len(disk)
                     THEN Patch(accepted, off, d) ELSE None
      /\ Quiet /\ UNCHANGED <<kind, open, named, buf, good>>
  BY DEF MmapWrite
<1>4. disk' \in Seq(Byte) /\ Len(disk') = size
  BY <1>1, <1>2, <1>3, ResizedType
<1>5. mapped' \in BOOLEAN /\ (mapped' => size # 0)
  BY <1>3 DEF Mappable
<1>6. buf = None /\ good
  BY <1>3 DEF Inv, TypeInv, Handles, std, mmap
<1>7. accepted' # None => accepted' = disk'
  <2>1. SUFFICES ASSUME accepted' # None PROVE accepted' = disk'
    OBVIOUS
  <2>2. mapped' /\ d # <<>> /\ accepted # None /\ size >= Len(disk)
    BY <1>3, <2>1
  <2>3. accepted = disk
    BY <1>3, <1>6, <2>2 DEF Inv, AcceptedIsThere, Content
  <2> QED BY <1>1, <1>3, <2>2, <2>3, PatchFits
<1>8. accepted' \in Seq(Byte) \cup {None}
  BY <1>4, <1>7
<1>9. TypeInv'
  BY <1>3, <1>4, <1>5, <1>8 DEF Inv, TypeInv, Quiet
<1>10. Handles'
  BY <1>3, <1>4, <1>5, <1>6, NoBytes DEF Inv, Handles, std, mmap
<1> QED BY <1>3, <1>6, <1>7, <1>9, <1>10 DEF Inv, Quiet, AcceptedIsThere, SyncTells, Content

\* The other calls on a mapped file change nothing.
LEMMA MmapOthersInv ==
  ASSUME Inv,
         \/ MmapWriteFull \/ MmapSync
         \/ \E off, n \in 0 .. MaxSize : MmapRead(off, n)
  PROVE  Inv'
<1>1. /\ mmap /\ open /\ UNCHANGED <<kind, open, named, disk, buf, good, mapped, accepted>>
      /\ synced' \in BOOLEAN
  BY DEF MmapWriteFull, MmapSync, MmapRead, Quiet
<1>2. result' \in Seq(Byte) \cup {None}
  <2>1. ASSUME NEW off \in 0 .. MaxSize, NEW n \in 0 .. MaxSize, MmapRead(off, n)
        PROVE  result' \in Seq(Byte)
    <3>1. /\ disk \in Seq(Byte) /\ off + n <= Len(disk) /\ off \in Nat /\ n \in Nat
          /\ result' = SubSeq(disk, off + 1, off + n)
      BY <2>1, FileAssumption DEF MmapRead, Inv, TypeInv
    <3> QED BY <3>1
  <2> QED BY <2>1 DEF MmapWriteFull, MmapSync, Quiet
<1>3. buf = None /\ good
  BY <1>1 DEF Inv, TypeInv, Handles, std, mmap
<1>4. TypeInv' /\ Handles'
  BY <1>1, <1>2 DEF Inv, TypeInv, Handles, std, mmap
<1> QED BY <1>1, <1>3, <1>4 DEF Inv, AcceptedIsThere, SyncTells, Content

\* Neither closing a mapping nor a crash takes anything from the file but the buffer.
LEMMA LeaveInv ==
  ASSUME Inv, MmapClose \/ Crash
  PROVE  Inv'
<1>1. disk \in Seq(Byte) /\ Gone(disk)
  BY DEF MmapClose, Crash, Inv, TypeInv
<1> QED BY <1>1, GoneInv

\* Every step keeps the invariant.
LEMMA InvNext == Inv /\ [Next]_vars => Inv'
<1> SUFFICES ASSUME Inv, [Next]_vars PROVE Inv'
  OBVIOUS
<1>1. ASSUME NEW create \in BOOLEAN, StdOpen(create) \/ MmapOpen(create) PROVE Inv'
  BY <1>1, StdOpenInv, MmapOpenInv
<1>2. ASSUME NEW d \in Data, CreateAndWrite(d) \/ StdAppend(d) \/ MmapCreate(d) PROVE Inv'
  BY <1>2, CreateAndWriteInv, StdAppendInv, MmapCreateInv
<1>3. ASSUME NEW off \in 0 .. MaxSize, NEW d \in Data, off + Len(d) <= MaxSize,
             StdWrite(off, d) \/ MmapWrite(off, d)
      PROVE  Inv'
  BY <1>3, StdWriteInv, MmapWriteInv
<1>4. ASSUME NEW off \in 0 .. MaxSize, NEW n \in 0 .. MaxSize,
             StdRead(off, n) \/ MmapRead(off, n)
      PROVE  Inv'
  BY <1>4, StdReadInv, MmapOthersInv
<1>5. CASE StdSync \/ StdClose \/ del_file \/ MmapWriteFull \/ MmapSync \/ MmapClose \/ Crash
  BY <1>5, StdSyncInv, StdCloseInv, DelFileInv, MmapOthersInv, LeaveInv
<1>6. CASE UNCHANGED vars
  BY <1>6 DEF vars, Inv, TypeInv, Handles, AcceptedIsThere, SyncTells, Content, std, mmap
<1> QED BY <1>1, <1>2, <1>3, <1>4, <1>5, <1>6 DEF Next

\* The inductive invariant holds throughout, for both backends and any data.
THEOREM Invariant == Spec => []Inv
BY InvInit, InvNext, PTL DEF Spec

\* Every variable keeps its type, and only an open handle of the right class has a
\* mapping, a buffer or an error.
THEOREM Types == Spec => []TypeOK
<1>1. Inv => TypeOK
  <2> SUFFICES ASSUME Inv PROVE TypeOK
    OBVIOUS
  <2>1. \A f \in {disk, result, accepted} \ {None} : f \in Seq(Byte)
    BY DEF Inv, TypeInv
  <2>2. disk # None
    BY NoBytes DEF Inv, TypeInv
  <2>3. buf # None => /\ buf.at \in 0 .. MaxSize
                      /\ buf.data \in Data /\ Len(buf.data) \in 1 .. Direct - 1
    BY BufferType DEF Inv, TypeInv
  <2> QED BY <2>1, <2>2, <2>3 DEF Inv, TypeInv, Handles, TypeOK
<1> QED BY Invariant, <1>1, PTL

\* While a stream has had no error, and no write has cut a mapped file, readers see
\* what all the accepted writes make of the file (std_file.cpp, mmap_file.cpp).
THEOREM AcceptedWritesAreThere == Spec => []AcceptedIsThere
BY Invariant, PTL DEF Inv

\* If sync returns true, every write accepted since the file was opened is with the
\* operating system, though write itself returns true in any case
\* (std_file.cpp:54-65).
THEOREM SyncTellsTheTruth == Spec => []SyncTells
BY Invariant, PTL DEF Inv

-----------------------------------------------------------------------------
(* File implements ByteFile.                                               *)

Risk == IF buf = None THEN None ELSE buf.at

\* Nothing before the byte at risk is different.
Survives(f) == IF Risk = None THEN f = Content ELSE Resized(f, Risk) = Resized(Content, Risk)

\* Both specifications mean the same by a patch.
LEMMA SameBytes ==
  /\ \A f, off, d : Abstract!Patch(f, off, d) = Patch(f, off, d)
  /\ \A f, n : Abstract!Resized(f, n) = Resized(f, n)
  /\ \A d : Abstract!Prefixes(d) = Prefixes(d)
BY DEF Patch, Abstract!Patch, Resized, Abstract!Resized, Prefixes, Abstract!Prefixes

\* The abstract file and the detailed one agree on what may survive.
LEMMA SameSurvives == ASSUME NEW f PROVE Abstract!Survives(f) <=> Survives(f)
BY SameBytes DEF Abstract!Survives, Survives, Risk

\* Bytes are at risk from the place where the buffer goes.
LEMMA RiskIs ==
  ASSUME buf \in Buffered \cup {None}
  PROVE  (Risk = None <=> buf = None) /\ (buf # None => Risk = buf.at /\ Risk \in Nat)
<1>1. None \notin Nat
  BY FileAssumption
<1> QED BY <1>1, BufferType DEF Risk

\* One lemma per action of ByteFile, in the terms of File.
LEMMA AWrite ==
  ASSUME NEW off \in 0 .. MaxSize, NEW d \in Data,
         good, Content' = Patch(Content, off, d), Risk' \in {None, off},
         result' = None, UNCHANGED <<kind, named, good>>
  PROVE  Abstract!Next
<1>1. Abstract!Write(off, d)
  BY SameBytes DEF Abstract!Write, Risk
<1> QED BY <1>1 DEF Abstract!Next

\* A write through a mapping, as the abstract file has it.
LEMMA AWriteMapped ==
  ASSUME NEW off \in 0 .. MaxSize, NEW d \in Data, kind = "mmap",
         Content' \in {Resized(Patch(Content, off, d), off + Len(d)),
                       Resized(Content, off + Len(d))},
         result' = None, UNCHANGED <<kind, named, buf, good>>
  PROVE  Abstract!Next
<1>1. Abstract!WriteMapped(off, d)
  BY SameBytes DEF Abstract!WriteMapped
<1> QED BY <1>1 DEF Abstract!Next

\* A read that answers.
LEMMA ARead ==
  ASSUME NEW off \in 0 .. MaxSize, NEW n \in 0 .. MaxSize,
         good, off + n <= Len(Content), result' = SubSeq(Content, off + 1, off + n),
         buf' = None, Content' = Content, UNCHANGED <<kind, named, good>>
  PROVE  Abstract!Next
<1>1. Abstract!Read(off, n)
  BY DEF Abstract!Read
<1> QED BY <1>1 DEF Abstract!Next

\* The buffer reaches the file.
LEMMA ASettle ==
  ASSUME good, buf' = None, result' = None, Content' = Content,
         UNCHANGED <<kind, named, good>>
  PROVE  Abstract!Next
<1>1. Abstract!Settle
  BY DEF Abstract!Settle
<1> QED BY <1>1 DEF Abstract!Next

\* A call that fails and leaves part of its bytes, or of those before.
LEMMA ABreak ==
  ASSUME NEW off \in 0 .. MaxSize, NEW d \in Data, std, good, ~good',
         Survives(Content') \/ \E p \in Prefixes(d) : Content' = Patch(Content, off, p),
         buf' \in Buffered \cup {None}, result' = None, UNCHANGED <<kind, named>>
  PROVE  Abstract!Next
<1>1. (IF buf' = None THEN None ELSE buf'.at) = None \/
      (IF buf' = None THEN None ELSE buf'.at) \in Nat
  BY BufferType
<1>2. Abstract!Survives(Content') <=> Survives(Content')
  BY SameSurvives
<1>3. \A f : Abstract!Patch(Content, off, f) = Patch(Content, off, f)
  BY SameBytes
<1>4. Abstract!Prefixes(d) = Prefixes(d)
  BY SameBytes
<1>5. Abstract!Break(off, d)
  BY <1>1, <1>2, <1>3, <1>4 DEF Abstract!Break, std
<1> QED BY <1>5 DEF Abstract!Next

\* A call on a handle that has had an error.
LEMMA ARefuse ==
  ASSUME ~good, result' = None, Content' = Content, UNCHANGED <<kind, named, buf, good>>
  PROVE  Abstract!Next
<1>1. Abstract!Refuse
  BY DEF Abstract!Refuse
<1> QED BY <1>1 DEF Abstract!Next

\* A file that is made with the data, or with part of it.
LEMMA ACreate ==
  ASSUME NEW d \in Data \cup {<<>>}, named', Content' \in Prefixes(d),
         good' => Content' = d /\ Risk' = None,
         Risk' = None \/ Risk' = Len(Content'), result' = None, UNCHANGED kind
  PROVE  Abstract!Next
<1>1. Abstract!Create(d)
  BY SameBytes DEF Abstract!Create, Risk
<1> QED BY <1>1 DEF Abstract!Next

\* A mapped file that is made.
LEMMA ACreateMapped ==
  ASSUME NEW d \in Data, kind = "mmap", named', Content' \in {<<>>, Resized(<<>>, Len(d))},
         result' = None, UNCHANGED <<kind, buf, good>>
  PROVE  Abstract!Next
<1>1. Abstract!CreateMapped(d)
  BY SameBytes DEF Abstract!CreateMapped
<1> QED BY <1>1 DEF Abstract!Next

\* A file that is opened.
LEMMA AOpen ==
  ASSUME named', good', buf' = None, result' = None, Content' = Content, UNCHANGED kind
  PROVE  Abstract!Next
<1>1. Abstract!Open
  BY DEF Abstract!Open
<1> QED BY <1>1 DEF Abstract!Next

\* A file that is removed.
LEMMA ARemove ==
  ASSUME ~named', result' = None, Content' = Content, UNCHANGED <<kind, buf, good>>
  PROVE  Abstract!Next
<1>1. Abstract!Remove
  BY DEF Abstract!Remove
<1> QED BY <1>1 DEF Abstract!Next

\* A handle that is closed, or a program that dies.
LEMMA ALeave ==
  ASSUME IF named THEN Survives(Content') ELSE Content' = <<>>,
         buf' = None, good', result' = None, UNCHANGED <<kind, named>>
  PROVE  Abstract!Next
<1>1. Abstract!Leave
  BY SameSurvives DEF Abstract!Leave
<1> QED BY <1>1 DEF Abstract!Next

-----------------------------------------------------------------------------
(* Each step of File is a step of ByteFile.                                *)

LEMMA StdOpenStep ==
  ASSUME Inv, Inv', NEW create \in BOOLEAN, StdOpen(create)
  PROVE  Abstract!Next
<1>1. /\ std /\ ~open /\ named' = TRUE /\ result' = None
      /\ disk' = IF create THEN <<>> ELSE disk
      /\ UNCHANGED <<kind, buf, good>>
  BY DEF StdOpen, Quiet
<1>2. buf = None /\ good
  BY <1>1 DEF Inv, TypeInv, Handles
<1>3. Content' = disk' /\ Content = disk /\ Risk' = None
  BY <1>1, <1>2 DEF Content, Risk
<1>4. CASE create
  <2>1. Content' = <<>> /\ <<>> \in Data \cup {<<>>}
    BY <1>1, <1>3, <1>4
  <2>2. <<>> \in Prefixes(<<>>)
    <3>1. <<>> = SubSeq(<<>>, 1, 0) /\ 0 \in 0 .. Len(<<>>)
      OBVIOUS
    <3> QED BY <3>1 DEF Prefixes
  <2> QED BY <1>1, <1>3, <2>1, <2>2, ACreate
<1>5. CASE ~create
  BY <1>1, <1>2, <1>3, <1>5, AOpen
<1> QED BY <1>4, <1>5

\* create_and_write makes a file with the data or with part of it.
LEMMA CreateAndWriteStep ==
  ASSUME Inv, Inv', NEW d \in Data, CreateAndWrite(d)
  PROVE  Abstract!Next
<1> DEFINE new == [Stream EXCEPT !.disk = <<>>]
<1>1. PICK s \in Put(new, 0, d) : \E t \in Seek(s) : Become(t)
  BY DEF CreateAndWrite
<1>2. PICK t \in Seek(s) : Become(t)
  BY <1>1
<1>3. std /\ ~open /\ named' = TRUE /\ result' = None /\ UNCHANGED kind
  BY DEF CreateAndWrite, Quiet
<1>4. buf = None /\ good
  BY <1>3 DEF Inv, TypeInv, Handles
<1>5. new = [disk |-> <<>>, buf |-> buf, good |-> good]
  BY NewDisk DEF Stream
<1> HIDE DEF new
<1>6. new \in Streams /\ new.good /\ new.buf = None /\ new.disk = <<>>
  BY <1>4, <1>5, NoBytes DEF Streams
<1>7. 0 \in Nat /\ 0 + Len(d) <= MaxSize /\ d \in Seq(Byte) /\ d \in Prefixes(d)
  <2>1. d \in Seq(Byte) /\ Len(d) \in 0 .. Len(d) /\ SubSeq(d, 1, Len(d)) = d
    BY DataType
  <2>2. d \in Prefixes(d)
    BY <2>1 DEF Prefixes
  <2> QED BY <2>1, <2>2, DataType
<1>8. /\ s \in Streams
      /\ s.good => Sees(s) = d /\ (s.buf = None \/ (s.buf \in Buffered /\ s.buf.at = 0))
      /\ ~s.good => s.buf = None /\ \E p \in Prefixes(d) : s.disk = Patch(<<>>, 0, p)
  BY <1>6, <1>7, PutIs, PatchNothing
<1>9. t \in Streams
  BY <1>8, SeekIs
<1>10. CASE t.good
  <2>1. Content' = d /\ buf' = None /\ good'
    BY <1>2, <1>8, <1>9, <1>10, SeekIs, BecomeIs DEF Sees
  <2> QED BY <1>3, <1>7, <2>1, ACreate DEF Risk
<1>11. CASE ~t.good /\ ~s.good
  <2>1. t = s /\ s.buf = None
    BY <1>8, <1>11, SeekIs
  <2>2. PICK p \in Prefixes(d) : s.disk = Patch(<<>>, 0, p)
    BY <1>8, <1>11
  <2>3. p \in Seq(Byte)
    BY <1>7, <2>2, PrefixType DEF Prefixes
  <2>4. Content' = p /\ buf' = None /\ ~good'
    BY <1>2, <1>9, <1>11, <2>1, <2>2, <2>3, BecomeIs, PatchNothing DEF Sees
  <2> QED BY <1>3, <2>4, ACreate DEF Risk
<1>12. CASE ~t.good /\ s.good
  <2>1. s.buf # None /\ s.buf \in Buffered /\ s.buf.at = 0
    BY <1>8, <1>12, SeekIs, BufferType
  <2>2. s.buf.data = d /\ s.disk = <<>> /\ d # <<>>
    <3>1. d # <<>> /\ Len(d) < Direct
      BY <1>1, <1>6, <2>1, <1>12 DEF Put, Pushed
    <3>2. s = [new EXCEPT !.buf = [at |-> 0, data |-> d]]
      BY <1>1, <1>6, <3>1 DEF Put
    <3>3. s.buf = [at |-> 0, data |-> d] /\ s.disk = new.disk
      BY <1>6, <3>2 DEF Streams
    <3> QED BY <1>6, <3>1, <3>3
  <2>3. t \in Pushed(s, 0, d, TRUE)
    BY <1>12, <2>1, <2>2 DEF Seek
  <2>4. PICK p \in 0 .. Len(d) - 1 :
          t = [disk |-> Patch(<<>>, 0, SubSeq(d, 1, p)),
               buf |-> [at |-> 0 + p, data |-> d], good |-> FALSE]
    BY <1>12, <2>2, <2>3 DEF Pushed
  <2>5. p \in 0 .. Len(d) /\ p \in Nat /\ 0 + p = p
    BY <1>7
  <2>6. SubSeq(d, 1, p) \in Seq(Byte) /\ Len(SubSeq(d, 1, p)) = p
        /\ SubSeq(d, 1, p) \in Prefixes(d)
    BY <1>7, <2>5, PrefixType DEF Prefixes
  <2>7. t.disk = SubSeq(d, 1, p) /\ t.buf.at = p /\ t.buf # None
    <3>1. t.buf \in Buffered
      BY <1>8, <1>12, SeekIs
    <3> QED BY <2>4, <2>5, <2>6, <3>1, PatchNothing, BufferType
  <2>8. Content' = SubSeq(d, 1, p) /\ ~good' /\ buf' # None /\ buf'.at = p
    BY <1>2, <1>9, <1>12, <2>7, BecomeIs DEF Sees
  <2> QED BY <1>3, <2>6, <2>8, ACreate DEF Risk
<1> QED BY <1>10, <1>11, <1>12

\* What the flush at the head of a call does to what is seen.
LEMMA FlushIs ==
  ASSUME Inv, NEW s \in Seek(Stream)
  PROVE  /\ s \in Streams
         /\ ~good => s = Stream /\ ~s.good
         /\ s.good => good /\ s.buf = None /\ s.disk = Content
         /\ good /\ ~s.good => /\ s.buf \in Buffered /\ buf \in Buffered
                               /\ buf.at <= s.buf.at /\ Survives(s.disk)
<1>1. Stream \in Streams /\ Content = Sees(Stream) /\ Stream.buf = buf /\ Stream.good = good
  BY StreamIs DEF Inv
<1>2. buf \in Buffered \cup {None}
  BY DEF Inv, TypeInv
<1>3. good /\ ~s.good => Survives(s.disk)
  <2> SUFFICES ASSUME good, ~s.good PROVE Survives(s.disk)
    OBVIOUS
  <2>1. buf \in Buffered /\ Resized(s.disk, buf.at) = Resized(Content, buf.at)
    BY <1>1, SeekIs
  <2>2. Risk = buf.at /\ Risk # None
    BY <1>2, <2>1, RiskIs, BufferType
  <2> QED BY <2>1, <2>2 DEF Survives
<1> QED BY <1>1, <1>3, SeekIs

\* A flush that fails is an error of the call, whatever the call goes on to do.
LEMMA FlushBreaks ==
  ASSUME Inv, std, NEW s \in Seek(Stream), good, ~s.good, Become(s),
         result' = None, UNCHANGED <<kind, named>>
  PROVE  Abstract!Next
<1>1. s \in Streams /\ s.buf \in Buffered /\ Survives(s.disk)
  BY FlushIs
<1>2. ~good' /\ Content' = s.disk /\ buf' = s.buf
  BY <1>1, BecomeIs DEF Sees
<1>3. buf \in Buffered
  BY FlushIs, SeekIs, StreamIs DEF Inv
<1>4. buf.data \in Data /\ 0 \in 0 .. MaxSize
  BY <1>3, BufferType, FileAssumption
<1> QED BY <1>1, <1>2, <1>4, ABreak

\* A write is kept, buffered, or breaks the handle.
LEMMA WriteStep ==
  ASSUME Inv, std, NEW s \in Seek(Stream), NEW off \in 0 .. MaxSize, NEW d \in Data,
         off + Len(d) <= MaxSize, NEW t \in Put(s, off, d), Become(t),
         result' = None, UNCHANGED <<kind, named>>
  PROVE  Abstract!Next
<1>1. s \in Streams /\ off \in Nat
  BY FlushIs, FileAssumption
<1>2. CASE ~good
  <2>1. s = Stream /\ ~s.good /\ (s.good => s.buf = None)
    BY <1>2, FlushIs
  <2>2. t = s
    BY <1>1, <2>1, PutIs
  <2>3. UNCHANGED <<disk, buf, good>>
    BY <2>1, <2>2, StreamIs DEF Become, Inv
  <2>4. Content' = Content
    BY <2>3 DEF Content
  <2> QED BY <1>2, <2>3, <2>4, ARefuse
<1>3. CASE good /\ ~s.good
  <2>1. ~s.good /\ (s.good => s.buf = None)
    BY <1>3
  <2>2. s \in Streams /\ off \in Nat /\ off + Len(d) <= MaxSize
    BY <1>1
  <2>3. ~s.good => t = s
    BY ONLY <2>1, <2>2, t \in Put(s, off, d), d \in Data, PutIs
  <2>4. t = s
    BY <2>1, <2>3
  <2> QED BY <1>3, <2>4, FlushBreaks
<1>4. CASE s.good
  <2>1. good /\ s.buf = None /\ s.disk = Content
    BY <1>4, FlushIs
  <2>2. /\ t \in Streams
        /\ t.good => /\ Sees(t) = Patch(s.disk, off, d)
                     /\ t.buf = None \/ (t.buf \in Buffered /\ t.buf.at = off)
        /\ ~t.good => /\ t.buf = None
                      /\ \E p \in Prefixes(d) : t.disk = Patch(s.disk, off, p)
    BY <1>1, <1>4, <2>1, PutIs
  <2>3. CASE t.good
    <3>1. /\ good' /\ Content' = Patch(Content, off, d)
          /\ buf' = None \/ (buf' # None /\ buf'.at = off)
      BY <2>1, <2>2, <2>3, BecomeIs, BufferType
    <3>2. Risk' \in {None, off}
      BY <3>1 DEF Risk
    <3> QED BY <2>1, <3>1, <3>2, AWrite
  <2>4. CASE ~t.good
    <3>1. /\ ~good' /\ buf' = None
          /\ \E p \in Prefixes(d) : Content' = Patch(Content, off, p)
      BY <2>1, <2>2, <2>4, BecomeIs DEF Sees
    <3> QED BY <2>1, <3>1, ABreak
  <2> QED BY <2>3, <2>4
<1> QED BY <1>2, <1>3, <1>4

\* write is such a write,
LEMMA StdWriteStep ==
  ASSUME Inv, NEW off \in 0 .. MaxSize, NEW d \in Data, off + Len(d) <= MaxSize,
         StdWrite(off, d)
  PROVE  Abstract!Next
<1>1. PICK s \in Seek(Stream) : \E t \in Put(s, off, d) : Become(t)
  BY DEF StdWrite
<1>2. PICK t \in Put(s, off, d) : Become(t)
  BY <1>1
<1> QED BY <1>2, WriteStep, FileAssumption DEF StdWrite, Quiet

\* and append is one at the end of the file.
LEMMA StdAppendStep ==
  ASSUME Inv, NEW d \in Data, StdAppend(d)
  PROVE  Abstract!Next
<1>1. PICK s \in Seek(Stream) :
        /\ Len(s.disk) + Len(d) <= MaxSize
        /\ \E t \in Put(s, Len(s.disk), d) : Become(t)
  BY DEF StdAppend
<1>2. PICK t \in Put(s, Len(s.disk), d) : Become(t)
  BY <1>1
<1>3. Len(s.disk) \in 0 .. MaxSize
  <2>1. Len(s.disk) \in Nat /\ Len(d) \in Nat
    BY FlushIs, DataType DEF Streams
  <2> QED BY <1>1, <2>1, FileAssumption
<1> QED BY <1>1, <1>2, <1>3, WriteStep, FileAssumption DEF StdAppend, Quiet

\* A read answers, or breaks the handle.
LEMMA StdReadStep ==
  ASSUME Inv, NEW off \in 0 .. MaxSize, NEW n \in 0 .. MaxSize, StdRead(off, n)
  PROVE  Abstract!Next
<1>1. PICK s \in Seek(Stream) :
        /\ Become(s)
        /\ result' = IF s.good /\ off + n <= Len(s.disk)
                     THEN SubSeq(s.disk, off + 1, off + n) ELSE None
  BY DEF StdRead
<1>2. std /\ UNCHANGED <<kind, named>>
  BY DEF StdRead
<1>3. CASE ~good
  <2>1. s = Stream /\ ~s.good
    BY <1>3, FlushIs
  <2>2. UNCHANGED <<disk, buf, good>> /\ result' = None
    BY <1>1, <2>1, StreamIs DEF Become, Inv
  <2>3. Content' = Content
    BY <2>2 DEF Content
  <2> QED BY <1>2, <1>3, <2>2, <2>3, ARefuse
<1>4. CASE good /\ ~s.good
  BY <1>1, <1>2, <1>4, FlushBreaks
<1>5. CASE s.good
  <2>1. good /\ s.buf = None /\ s.disk = Content /\ s \in Streams
    BY <1>5, FlushIs
  <2>2. good' /\ buf' = None /\ Content' = Content
    BY <1>1, <1>5, <2>1, BecomeIs DEF Sees
  <2>3. CASE off + n <= Len(Content)
    BY <1>1, <1>2, <1>5, <2>1, <2>2, <2>3, ARead
  <2>4. CASE ~(off + n <= Len(Content))
    BY <1>1, <1>2, <1>5, <2>1, <2>2, <2>4, ASettle
  <2> QED BY <2>3, <2>4
<1> QED BY <1>3, <1>4, <1>5

\* sync settles the buffer, or breaks the handle.
LEMMA StdSyncStep ==
  ASSUME Inv, StdSync
  PROVE  Abstract!Next
<1>1. PICK s \in Seek(Stream) : Become(s)
  BY DEF StdSync
<1>2. std /\ result' = None /\ UNCHANGED <<kind, named>>
  BY DEF StdSync
<1>3. CASE ~good
  <2>1. s = Stream /\ ~s.good
    BY <1>3, FlushIs
  <2>2. UNCHANGED <<disk, buf, good>>
    BY <1>1, <2>1, StreamIs DEF Become, Inv
  <2>3. Content' = Content
    BY <2>2 DEF Content
  <2> QED BY <1>2, <1>3, <2>2, <2>3, ARefuse
<1>4. CASE good /\ ~s.good
  BY <1>1, <1>2, <1>4, FlushBreaks
<1>5. CASE s.good
  <2>1. good /\ s.buf = None /\ s.disk = Content /\ s \in Streams
    BY <1>5, FlushIs
  <2>2. good' /\ buf' = None /\ Content' = Content
    BY <1>1, <1>5, <2>1, BecomeIs DEF Sees
  <2> QED BY <1>2, <2>1, <2>2, ASettle
<1> QED BY <1>3, <1>4, <1>5

\* Whoever leaves takes the buffer along, or had it written in part.
LEMMA GoneStep ==
  ASSUME Inv, NEW d, Gone(d), Survives(d)
  PROVE  Abstract!Next
<1>1. /\ disk' = (IF named THEN d ELSE <<>>) /\ buf' = None /\ good' = TRUE
      /\ result' = None /\ UNCHANGED <<kind, named>>
  BY DEF Gone, Quiet
<1>2. Content' = disk'
  BY <1>1 DEF Content
<1> QED BY <1>1, <1>2, ALeave

\* The file as it is may be all that is left.
LEMMA DiskSurvives == ASSUME Inv PROVE Survives(disk)
<1>1. CASE buf = None
  BY <1>1 DEF Survives, Risk, Content
<1>2. CASE buf # None /\ ~good
  BY <1>2 DEF Survives, Risk, Content
<1>3. CASE buf # None /\ good
  <2>1. buf \in Buffered /\ disk \in Seq(Byte)
    BY <1>3 DEF Inv, TypeInv
  <2>2. buf.at \in Nat /\ buf.data \in Seq(Byte) /\ buf.at \in 0 .. buf.at
    BY <2>1, BufferType
  <2>3. Content = Patch(disk, buf.at, buf.data)
    BY <1>3 DEF Content
  <2>4. Resized(disk, buf.at) = Resized(Content, buf.at)
    BY <2>1, <2>2, <2>3, PatchBefore
  <2>5. Risk = buf.at /\ Risk # None
    BY <1>3, <2>1, RiskIs
  <2> QED BY <2>4, <2>5 DEF Survives
<1> QED BY <1>1, <1>2, <1>3

\* close leaves the file with the buffer in it, or with part of it.
LEMMA StdCloseStep ==
  ASSUME Inv, StdClose
  PROVE  Abstract!Next
<1>1. PICK s \in Seek(Stream) : \E t \in Closed(s) : Gone(t.disk)
  BY DEF StdClose
<1>2. PICK t \in Closed(s) : Gone(t.disk)
  BY <1>1
<1>3. s \in Streams /\ buf \in Buffered \cup {None}
  BY FlushIs DEF Inv, TypeInv
<1>4. Survives(t.disk)
  <2>1. CASE s.good
    <3>1. t.disk = Content
      BY <1>3, <2>1, FlushIs, ClosedIs
    <3> QED BY <3>1 DEF Survives
  <2>2. CASE ~good
    <3>1. s = Stream /\ s.disk = disk /\ s.buf = buf /\ Content = disk
      BY <2>2, FlushIs, StreamIs DEF Inv, Content
    <3>2. CASE buf = None
      BY <1>3, <3>1, <3>2, ClosedIs DEF Survives, Risk
    <3>3. CASE buf # None
      <4>1. buf.at \in 0 .. buf.at /\ Risk = buf.at /\ Risk # None
        BY <1>3, <3>3, RiskIs
      <4> QED BY <1>3, <3>1, <3>3, <4>1, ClosedIs DEF Survives
    <3> QED BY <3>2, <3>3
  <2>3. CASE good /\ ~s.good
    <3>1. /\ buf \in Buffered /\ s.buf \in Buffered /\ buf.at <= s.buf.at
          /\ Survives(s.disk)
      BY <2>3, FlushIs
    <3>2. s.buf # None /\ buf # None /\ buf.at \in 0 .. s.buf.at
      BY <3>1, BufferType
    <3>3. Resized(t.disk, buf.at) = Resized(s.disk, buf.at)
      BY <1>3, <3>2, ClosedIs
    <3>4. Risk = buf.at /\ Risk # None
      BY <1>3, <3>2, RiskIs
    <3> QED BY <3>1, <3>3, <3>4 DEF Survives
  <2> QED BY <2>1, <2>2, <2>3
<1> QED BY <1>2, <1>4, GoneStep

\* A mapped file has no buffer and no error: what is seen is the file.
LEMMA MappedIs ==
  ASSUME Inv, mmap
  PROVE  buf = None /\ good /\ kind = "mmap" /\ Content = disk
BY DEF Inv, TypeInv, Handles, std, mmap, Content

\* Opening a mapping opens the file.
LEMMA MmapOpenStep ==
  ASSUME Inv, NEW create \in BOOLEAN, MmapOpen(create)
  PROVE  Abstract!Next
<1>1. mmap /\ named' = TRUE /\ result' = None /\ UNCHANGED <<kind, disk, buf, good>>
  BY DEF MmapOpen, Quiet
<1>2. Content' = Content
  BY <1>1 DEF Content
<1> QED BY <1>1, <1>2, MappedIs, AOpen

\* Creating one creates the file.
LEMMA MmapCreateStep ==
  ASSUME Inv, NEW d \in Data, MmapCreate(d)
  PROVE  Abstract!Next
<1>1. /\ mmap /\ named' = TRUE /\ result' = None /\ UNCHANGED <<kind, buf, good>>
      /\ disk' \in IF mapped' THEN {d} ELSE {<<>>, Resized(<<>>, Len(d))}
  BY DEF MmapCreate, Quiet
<1>2. buf' = None /\ Content' = disk' /\ kind = "mmap"
  BY <1>1, MappedIs DEF Content
<1>3. CASE mapped'
  <2>1. d \in Prefixes(d)
    <3>1. d = SubSeq(d, 1, Len(d)) /\ Len(d) \in 0 .. Len(d)
      BY DataType
    <3> QED BY <3>1 DEF Prefixes
  <2>2. Content' = d /\ Risk' = None
    BY <1>1, <1>2, <1>3 DEF Risk
  <2> QED BY <1>1, <2>1, <2>2, ACreate
<1>4. CASE ~mapped'
  BY <1>1, <1>2, <1>4, ACreateMapped
<1> QED BY <1>3, <1>4

\* A mapped write cuts the file behind itself.
LEMMA MmapWriteStep ==
  ASSUME Inv, NEW off \in 0 .. MaxSize, NEW d \in Data, MmapWrite(off, d)
  PROVE  Abstract!Next
<1>1. /\ mmap /\ result' = None /\ UNCHANGED <<kind, named, buf, good>>
      /\ disk' = Resized(IF mapped' THEN Patch(disk, off, d) ELSE disk, off + Len(d))
  BY DEF MmapWrite, Quiet
<1>2. Content' = disk' /\ Content = disk /\ kind = "mmap"
  BY <1>1, MappedIs DEF Content
<1> QED BY <1>1, <1>2, AWriteMapped

\* The other calls on a mapping change nothing.
LEMMA MmapOthersStep ==
  ASSUME Inv,
         \/ MmapWriteFull \/ MmapSync
         \/ \E off, n \in 0 .. MaxSize : MmapRead(off, n)
  PROVE  Abstract!Next
<1>1. mmap /\ UNCHANGED <<kind, named, disk, buf, good>>
  BY DEF MmapWriteFull, MmapSync, MmapRead
<1>2. buf' = None /\ good /\ Content' = Content /\ Content = disk
  BY <1>1, MappedIs DEF Content
<1>3. CASE MmapWriteFull \/ MmapSync
  BY <1>1, <1>2, <1>3, ASettle DEF MmapWriteFull, MmapSync, Quiet
<1>4. ASSUME NEW off \in 0 .. MaxSize, NEW n \in 0 .. MaxSize, MmapRead(off, n)
      PROVE  Abstract!Next
  BY <1>1, <1>2, <1>4, ARead DEF MmapRead
<1> QED BY <1>3, <1>4

\* Removing removes.
LEMMA DelFileStep ==
  ASSUME Inv, del_file
  PROVE  Abstract!Next
<1>1. ~named' /\ result' = None /\ UNCHANGED <<kind, disk, buf, good>>
  BY DEF del_file, Quiet
<1>2. Content' = Content
  BY <1>1 DEF Content
<1> QED BY <1>1, <1>2, ARemove

\* Closing a mapping and a crash leave what survives.
LEMMA LeaveStep ==
  ASSUME Inv, MmapClose \/ Crash
  PROVE  Abstract!Next
<1>1. Gone(disk)
  BY DEF MmapClose, Crash
<1> QED BY <1>1, DiskSurvives, GoneStep

\* A file object is a sequence of bytes behind a path, and every call on either
\* class, failed ones, crashes and full disks included, does to it what ByteFile
\* says (std_file.cpp, mmap_file.cpp).
THEOREM Refinement == Spec => ImplementsByteFile
<1>1. Init => Abstract!Init
  <2> SUFFICES ASSUME Init PROVE Abstract!Init
    OBVIOUS
  <2>1. /\ kind \in {"std", "mmap"} /\ named = FALSE /\ disk = <<>> /\ buf = None
        /\ good = TRUE /\ result = None
    BY DEF Init
  <2>2. Content = <<>>
    BY <2>1 DEF Content
  <2> QED BY <2>1, <2>2 DEF Abstract!Init
<1>2. ASSUME Inv, Inv', [Next]_vars PROVE [Abstract!Next]_(Abstract!vars)
  <2>1. ASSUME NEW create \in BOOLEAN, StdOpen(create) \/ MmapOpen(create)
        PROVE  Abstract!Next
    BY <1>2, <2>1, StdOpenStep, MmapOpenStep
  <2>2. ASSUME NEW d \in Data, CreateAndWrite(d) \/ StdAppend(d) \/ MmapCreate(d)
        PROVE  Abstract!Next
    BY <1>2, <2>2, CreateAndWriteStep, StdAppendStep, MmapCreateStep
  <2>3. ASSUME NEW off \in 0 .. MaxSize, NEW d \in Data, off + Len(d) <= MaxSize,
               StdWrite(off, d) \/ MmapWrite(off, d)
        PROVE  Abstract!Next
    BY <1>2, <2>3, StdWriteStep, MmapWriteStep
  <2>4. ASSUME NEW off \in 0 .. MaxSize, NEW n \in 0 .. MaxSize,
               StdRead(off, n) \/ MmapRead(off, n)
        PROVE  Abstract!Next
    BY <1>2, <2>4, StdReadStep, MmapOthersStep
  <2>5. CASE StdSync \/ StdClose \/ del_file \/ MmapWriteFull \/ MmapSync \/ MmapClose \/ Crash
    BY <1>2, <2>5, StdSyncStep, StdCloseStep, DelFileStep, MmapOthersStep, LeaveStep
  <2>6. CASE UNCHANGED vars
    BY <2>6 DEF vars, Abstract!vars, Content
  <2> QED BY <1>2, <2>1, <2>2, <2>3, <2>4, <2>5, <2>6 DEF Next
<1> QED BY <1>1, <1>2, Invariant, PTL DEF Spec, Abstract!Spec, ImplementsByteFile
===============================================================================
