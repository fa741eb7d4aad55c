-------------------------------- MODULE Bytes --------------------------------
(***************************************************************************)
(* Byte sequences as the contents of a file.                               *)
(***************************************************************************)
EXTENDS Naturals, Sequences

\* The bytes f with d written at off; a gap is filled with zeros.
Patch(f, off, d) ==
  IF d = <<>> THEN f
  ELSE [i \in 1 .. (IF off + Len(d) > Len(f) THEN off + Len(d) ELSE Len(f)) |->
          IF i \in off + 1 .. off + Len(d) THEN d[i - off]
          ELSE IF i <= Len(f) THEN f[i] ELSE 0]

\* The bytes f made n long.
Resized(f, n) == [i \in 1 .. n |-> IF i <= Len(f) THEN f[i] ELSE 0]

Prefixes(d) == {SubSeq(d, 1, p) : p \in 0 .. Len(d)}
==============================================================================
