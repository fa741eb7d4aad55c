\* A client's iterator held while keys come and go: three keys, two levels, one
\* value.  The fourth address is for a node that only the iterator keeps alive.
SPECIFICATION Spec
CONSTANTS
  Key = {0, 1, 2}
  KeyLen <- MCKeyLen
  Value = {0}
  ValLen <- MCValLen
  TrancId = {0}
  SizeMod = 65536
  None = None
  NodeId = {1, 2, 3, 4}
  Sentinel = Sentinel
  Nil = Nil
  MaxLevel = 2
  SeekKey = {0, 1, 2}
INVARIANTS
  IteratorMissesNothing
