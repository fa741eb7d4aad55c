\* Three keys, two values and the deletion; four writes, flushed and compacted at
\* any point, spread versions of a key over the memory, two SSTs of level 0 and
\* two of level 1.  Scans with a transaction and without.
SPECIFICATION Spec
CONSTANTS
  Key = {1, 2, 3}
  Value = {0, 1, 2}
  None = None
  ScanIds = {0, 7}
  SstKeys = 1
  MaxWrites = 4
INVARIANTS
  TypeOK
  AscendingOnce
  LiveKeysShown
