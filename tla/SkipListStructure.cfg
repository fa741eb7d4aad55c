\* Three keys (0 is the empty key), a value and the tombstone, two transaction
\* ids and towers of up to three levels; no client holds an iterator, so three
\* addresses are enough.
SPECIFICATION Spec
CONSTANTS
  Key = {0, 1, 2}
  KeyLen <- MCKeyLen
  Value = {0, 1}
  ValLen <- MCValLen
  TrancId = {0, 1}
  SizeMod = 65536
  None = None
  NodeId = {1, 2, 3}
  Sentinel = Sentinel
  Nil = Nil
  MaxLevel = 3
  SeekKey = {}
INVARIANTS
  TypeOK
  Lanes
  BackwardMirrors
  SizeExact
  SearchesAgree
PROPERTY
  ImplementsMap
