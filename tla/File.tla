--------------------------------- MODULE File ---------------------------------
(***************************************************************************)
(* The files of src/src/utils: FileObj over StdFile (a std::fstream), and  *)
(* MmapFile, which offers the same calls over a mapping.  One program has  *)
(* one handle at a time on the file of one path; it may crash at any step, *)
(* and any write may fail because the disk is full.                        *)
(*                                                                         *)
(* disk is the file as the operating system has it, which a crash of the   *)
(* program leaves alone.  An fstream keeps a write of fewer than Direct    *)
(* bytes in its buffer until the next seek, flush or close; after an error *)
(* it does nothing, until close tries the buffer a last time.              *)
(***************************************************************************)
EXTENDS Bytes

CONSTANTS
  Data,     \* what a caller writes: sequences of bytes
  MaxSize,  \* bounds the offset behind a write
  Direct,   \* a write of so many bytes does not use the buffer
  None

Byte == 0 .. 255

ASSUME FileAssumption ==
  /\ MaxSize \in Nat /\ Direct \in Nat /\ Direct > 0
  /\ Data \subseteq Seq(Byte) /\ \A d \in Data : Len(d) <= MaxSize
  /\ None \notin Nat \cup Seq(Byte) \cup [at : Nat, data : Seq(Byte)]

VARIABLES
  kind,      \* the class in use
  open,
  named,     \* the path leads to the file
  disk,
  buf,       \* StdFile: the buffered bytes and where they go, or None
  good,      \* StdFile: no error bit is set
  mapped,    \* MmapFile: mapped_data_ is there, and maps all of the file
  result,    \* what a read has just returned, None otherwise
  synced,    \* the last call was sync and returned true
  accepted   \* the file, if every write that returned true since it was opened
             \* is in it; None if MmapFile has cut it (history variable)

vars == <<kind, open, named, disk, buf, good, mapped, result, synced, accepted>>
std  == kind = "std"
mmap == kind = "mmap"

Init ==
  /\ kind \in {"std", "mmap"}
  /\ open = FALSE /\ named = FALSE /\ disk = <<>>
  /\ buf = None /\ good = TRUE /\ mapped = FALSE
  /\ result = None /\ synced = FALSE /\ accepted = <<>>

-----------------------------------------------------------------------------
(* std::fstream.  Each operator is the set of outcomes of a call, as what  *)
(* becomes of disk, buf and good.                                          *)

Stream == [disk |-> disk, buf |-> buf, good |-> good]

\* Bytes given to the operating system; if not all are taken, those that were
\* in the buffer stay there.
Pushed(s, off, d, buffered) ==
  {[disk |-> Patch(s.disk, off, d), buf |-> None, good |-> TRUE]} \cup
  {[disk |-> Patch(s.disk, off, SubSeq(d, 1, p)),
    buf  |-> IF buffered THEN [at |-> off + p, data |-> d] ELSE None,
    good |-> FALSE] : p \in 0 .. Len(d) - 1}

\* Fault: the error bits are cleared before the seek.
SeekClears(s) ==
  IF s.buf # None THEN {[t EXCEPT !.buf = None, !.good = TRUE] :
                          t \in Pushed(s, s.buf.at, s.buf.data, TRUE)} ELSE {s}

\* flush, and seekg: the buffer goes out first.
Seek(s) == IF s.good /\ s.buf # None THEN Pushed(s, s.buf.at, s.buf.data, TRUE) ELSE {s}

\* filebuf::close tries the buffer whatever the error bits say.
Closed(s) == IF s.buf # None THEN Pushed(s, s.buf.at, s.buf.data, TRUE) ELSE {s}

\* file_.write, at a place sought before.
Put(s, off, d) ==
  IF ~s.good \/ d = <<>> THEN {s}
  ELSE IF Len(d) < Direct THEN {[s EXCEPT !.buf = [at |-> off, data |-> d]]}
  ELSE Pushed(s, off, d, FALSE)

Become(s) == disk' = s.disk /\ buf' = s.buf /\ good' = s.good

-----------------------------------------------------------------------------
(* FileObj over StdFile.                                                   *)

\* The call is over; it was not a read that returned bytes, nor a sync.
Quiet == result' = None /\ synced' = FALSE

\* open(path, create): a file that is created is cut to nothing.
StdOpen(create) ==
  /\ std /\ ~open /\ (create \/ named)
  /\ open' = TRUE /\ named' = TRUE
  /\ disk' = IF create THEN <<>> ELSE disk
  /\ accepted' = disk'
  /\ Quiet /\ UNCHANGED <<kind, buf, good, mapped>>

\* create_and_write: what sync returns is not looked at.
CreateAndWrite(d) ==
  /\ std /\ ~open
  /\ \E s \in Put([Stream EXCEPT !.disk = <<>>], 0, d) : \E t \in Seek(s) : Become(t)
  /\ open' = TRUE /\ named' = TRUE /\ accepted' = d
  /\ Quiet /\ UNCHANGED <<kind, mapped>>

\* write: true, whatever the stream did.
StdWrite(off, d) ==
  /\ std /\ open
  /\ \E s \in Seek(Stream) : \E t \in Put(s, off, d) : Become(t)
  /\ accepted' = Patch(accepted, off, d)
  /\ Quiet /\ UNCHANGED <<kind, open, named, mapped>>

\* Fault: the size is that of the file on disk, which lacks the buffer.
StdAppendAtDisk(d) ==
  /\ std /\ open
  /\ Len(disk) + Len(d) <= MaxSize /\ Len(accepted) + Len(d) <= MaxSize
  /\ \E s \in Seek(Stream) : \E t \in Put(s, Len(disk), d) : Become(t)
  /\ accepted' = accepted \o d
  /\ Quiet /\ UNCHANGED <<kind, open, named, mapped>>

\* append: the size is asked first, and is that of the file unless there was an
\* error; write goes there.
StdAppend(d) ==
  /\ std /\ open
  /\ \E s \in Seek(Stream) :
       /\ Len(s.disk) + Len(d) <= MaxSize /\ Len(accepted) + Len(d) <= MaxSize
       /\ \E t \in Put(s, Len(s.disk), d) : Become(t)
  /\ accepted' = accepted \o d
  /\ Quiet /\ UNCHANGED <<kind, open, named, mapped>>

\* Fault: the bytes are taken from the file as it is on disk.
StdReadDisk(off, n) ==
  /\ std /\ open
  /\ result' = IF off + n <= Len(disk) THEN SubSeq(disk, off + 1, off + n) ELSE None
  /\ synced' = FALSE
  /\ UNCHANGED <<kind, open, named, disk, buf, good, mapped, accepted>>

\* read_to_slice and the read_uints: they throw beyond the size, and also after
\* an error, when the size is -1 and nothing is beyond it.
StdRead(off, n) ==
  /\ std /\ open
  /\ \E s \in Seek(Stream) :
       /\ Become(s)
       /\ result' = IF s.good /\ off + n <= Len(s.disk)
                    THEN SubSeq(s.disk, off + 1, off + n) ELSE None
  /\ synced' = FALSE
  /\ UNCHANGED <<kind, open, named, mapped, accepted>>

StdSync ==
  /\ std /\ open
  /\ \E s \in Seek(Stream) : Become(s) /\ synced' = s.good
  /\ result' = None
  /\ UNCHANGED <<kind, open, named, mapped, accepted>>

\* Fault: mapped_data_ is not forgotten.
GoneStillMapped(d) ==
  /\ open' = FALSE /\ disk' = IF named THEN d ELSE <<>>
  /\ buf' = None /\ good' = TRUE
  /\ accepted' = <<>>
  /\ Quiet /\ UNCHANGED <<kind, named, mapped>>

\* The handle is gone: what is left is the file, if it still has its name.
Gone(d) ==
  /\ open' = FALSE /\ disk' = IF named THEN d ELSE <<>>
  /\ buf' = None /\ good' = TRUE /\ mapped' = FALSE
  /\ accepted' = <<>>
  /\ Quiet /\ UNCHANGED <<kind, named>>

\* The destructor: close syncs and then closes the stream.
StdClose == std /\ open /\ \E s \in Seek(Stream) : \E t \in Closed(s) : Gone(t.disk)

\* del_file, which leaves the handle as it is.
del_file ==
  /\ std /\ open /\ named' = FALSE
  /\ Quiet /\ UNCHANGED <<kind, open, disk, buf, good, mapped, accepted>>

-----------------------------------------------------------------------------
(* MmapFile.  A mapping of no bytes is refused; others may be.             *)

Mappable(n) == IF n = 0 THEN {FALSE} ELSE BOOLEAN

\* open: an existing file is never cut.
MmapOpen(create) ==
  /\ mmap /\ ~open /\ (create \/ named)
  /\ named' = TRUE
  /\ open' \in IF disk = <<>> THEN {TRUE} ELSE BOOLEAN
  /\ mapped' = (open' /\ disk # <<>>)
  /\ accepted' = IF open' THEN disk ELSE accepted
  /\ Quiet /\ UNCHANGED <<kind, disk, buf, good>>

\* create: sized, mapped, filled and synced, or false.
MmapCreate(d) ==
  /\ mmap /\ ~open
  /\ named' = TRUE
  /\ mapped' \in Mappable(Len(d)) /\ open' = mapped'
  /\ disk' \in IF mapped' THEN {d} ELSE {<<>>, Resized(<<>>, Len(d))}
  /\ accepted' = IF mapped' THEN d ELSE accepted
  /\ Quiet /\ UNCHANGED <<kind, buf, good>>

\* write: the file is made to end where the bytes end and is mapped anew.
MmapWrite(off, d) ==
  LET size == off + Len(d) IN
  /\ mmap /\ open
  /\ mapped' \in Mappable(size)
  /\ disk' = Resized(IF mapped' THEN Patch(disk, off, d) ELSE disk, size)
  /\ accepted' = IF mapped' /\ d # <<>> /\ accepted # None /\ size >= Len(disk)
                 THEN Patch(accepted, off, d) ELSE None
  /\ Quiet /\ UNCHANGED <<kind, open, named, buf, good>>

\* write, if the file cannot be resized: false.
MmapWriteFull == mmap /\ open /\ Quiet
                 /\ UNCHANGED <<kind, open, named, disk, buf, good, mapped, accepted>>

\* read, of bytes the caller knows to be in the file; nothing is checked.
MmapRead(off, n) ==
  /\ mmap /\ open /\ off + n <= Len(disk) /\ (mapped \/ n = 0)
  /\ result' = SubSeq(disk, off + 1, off + n) /\ synced' = FALSE
  /\ UNCHANGED <<kind, open, named, disk, buf, good, mapped, accepted>>

\* msync, or true if there is no mapping.
MmapSync ==
  /\ mmap /\ open /\ synced' = TRUE /\ result' = None
  /\ UNCHANGED <<kind, open, named, disk, buf, good, mapped, accepted>>

MmapClose == mmap /\ open /\ Gone(disk)

-----------------------------------------------------------------------------
\* The program dies, for any reason or because it read through the mapping that
\* a failed write left behind as a null pointer: the buffer is lost.
Crash == open /\ Gone(disk)

Next ==
  \/ \E create \in BOOLEAN : StdOpen(create) \/ MmapOpen(create)
  \/ \E d \in Data : CreateAndWrite(d) \/ StdAppend(d) \/ MmapCreate(d)
  \/ \E off \in 0 .. MaxSize, d \in Data :
       off + Len(d) <= MaxSize /\ (StdWrite(off, d) \/ MmapWrite(off, d))
  \/ \E off, n \in 0 .. MaxSize : StdRead(off, n) \/ MmapRead(off, n)
  \/ StdSync \/ StdClose \/ del_file
  \/ MmapWriteFull \/ MmapSync \/ MmapClose \/ Crash

Spec == Init /\ [][Next]_vars

-----------------------------------------------------------------------------
\* What readers see: the buffer is part of the file until it fails to get there.
Content == IF good /\ buf # None THEN Patch(disk, buf.at, buf.data) ELSE disk

\* Types.  Only an open MmapFile with something in it has a mapping (close
\* forgets it, mmap_file.cpp:58-70), and only an open StdFile has a buffer or an
\* error.
TypeOK ==
  /\ kind \in {"std", "mmap"} /\ {open, named, good, mapped, synced} \subseteq BOOLEAN
  /\ \A f \in {disk, result, accepted} \ {None} : f \in Seq(Byte)
  /\ disk # None
  /\ mapped => mmap /\ open /\ disk # <<>>
  /\ ~good \/ buf # None => std /\ open
  /\ buf # None => /\ buf.at \in 0 .. MaxSize
                   /\ buf.data \in Data /\ Len(buf.data) \in 1 .. Direct - 1

\* As long as a StdFile had no error, and as long as every write to a MmapFile
\* ended at the end of the file or behind it (mmap_file.cpp:74-75 cuts the file
\* otherwise), the file is what the accepted writes make it, in their order.
AcceptedIsThere == open /\ good /\ accepted # None => Content = accepted

\* write answers true even if nothing is written, now or ever (std_file.cpp:54);
\* sync is what tells: when it returns true (std_file.cpp:62), every write
\* accepted since the file was opened has reached the operating system.
SyncTells == synced /\ accepted # None => disk = accepted

Abstract == INSTANCE ByteFile WITH
  content <- Content,
  risk    <- IF buf = None THEN None ELSE buf.at,
  intact  <- good

\* The file is a sequence of bytes: reads return what was written whether or not
\* it is still in the buffer, and a full disk, a crash or a close that fails
\* costs bytes of the last write only, or of those that overlap or follow it.
ImplementsByteFile == Abstract!Spec
===============================================================================
