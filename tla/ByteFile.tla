------------------------------- MODULE ByteFile -------------------------------
(***************************************************************************)
(* The abstract specification of a file object (src/src/utils): a sequence *)
(* of bytes behind a path.  What was written last may be at risk until it  *)
(* is handed to the operating system, and a handle that had an error       *)
(* promises only what lies before it until the file is opened again.       *)
(***************************************************************************)
EXTENDS Bytes

CONSTANTS
  Data,     \* what a caller writes: sequences of bytes
  MaxSize,  \* bounds the offset behind a write
  None

VARIABLES
  kind,     \* "std" (StdFile) or "mmap" (MmapFile)
  named,    \* the path leads to the file
  content,  \* the bytes readers see
  risk,     \* the offset from which bytes may still be lost, None if there is none
  intact,   \* the handle had no error
  result    \* what a read has just returned, None otherwise

vars == <<kind, named, content, risk, intact, result>>

\* f may be what is left of content: nothing before risk is different.
Survives(f) ==
  IF risk = None THEN f = content ELSE Resized(f, risk) = Resized(content, risk)

Init ==
  /\ kind \in {"std", "mmap"} /\ named = FALSE
  /\ content = <<>> /\ risk = None /\ intact = TRUE /\ result = None

\* A write; only the last one is ever at risk.
Write(off, d) ==
  /\ intact
  /\ content' = Patch(content, off, d) /\ risk' \in {None, off}
  /\ result' = None /\ UNCHANGED <<kind, named, intact>>

\* A mapped file ends where the last write ended, even one that failed.
WriteMapped(off, d) ==
  /\ kind = "mmap"
  /\ content' \in {Resized(Patch(content, off, d), off + Len(d)),
                   Resized(content, off + Len(d))}
  /\ result' = None /\ UNCHANGED <<kind, named, risk, intact>>

\* The bytes asked for, unless they are not there.
Read(off, n) ==
  /\ intact /\ off + n <= Len(content)
  /\ result' = SubSeq(content, off + 1, off + n) /\ risk' = None
  /\ UNCHANGED <<kind, named, content, intact>>

\* size, sync, and reads that throw: nothing is at risk any more.
Settle ==
  /\ intact /\ risk' = None
  /\ result' = None /\ UNCHANGED <<kind, named, content, intact>>

\* An error: what was at risk, or is being written, is there in part.
Break(off, d) ==
  /\ kind = "std" /\ intact /\ ~intact'
  /\ Survives(content') \/ \E p \in Prefixes(d) : content' = Patch(content, off, p)
  /\ risk' = None \/ risk' \in Nat
  /\ result' = None /\ UNCHANGED <<kind, named>>

\* Calls on a handle that had an error change nothing.
Refuse == ~intact /\ result' = None /\ UNCHANGED <<kind, named, content, risk, intact>>

\* A new file, which may be there in part if the handle has had an error.
Create(d) ==
  /\ named' /\ content' \in Prefixes(d)
  /\ intact' => content' = d /\ risk' = None
  /\ risk' = None \/ risk' = Len(content')
  /\ result' = None /\ UNCHANGED kind

\* A mapped file that could not be created is left empty or blank.
CreateMapped(d) ==
  /\ kind = "mmap" /\ named'
  /\ content' \in {<<>>, Resized(<<>>, Len(d))}
  /\ result' = None /\ UNCHANGED <<kind, risk, intact>>

Open ==
  /\ named' /\ intact' /\ risk' = None /\ result' = None
  /\ UNCHANGED <<kind, content>>

Remove ==
  /\ ~named' /\ result' = None /\ UNCHANGED <<kind, content, risk, intact>>

\* The handle is gone, in order or with its process.
Leave ==
  /\ IF named THEN Survives(content') ELSE content' = <<>>
  /\ risk' = None /\ intact' /\ result' = None /\ UNCHANGED <<kind, named>>

Next ==
  \/ \E off \in 0 .. MaxSize, d \in Data :
       Write(off, d) \/ WriteMapped(off, d) \/ Break(off, d)
  \/ \E off, n \in 0 .. MaxSize : Read(off, n)
  \/ \E d \in Data \cup {<<>>} : Create(d) \/ CreateMapped(d)
  \/ Settle \/ Refuse \/ Open \/ Remove \/ Leave

Spec == Init /\ [][Next]_vars
===============================================================================
