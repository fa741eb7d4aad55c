\* Three keys spread over up to three tables by up to four writes with any of two
\* ids: enough for a heap of three levels, for three versions of one key or two of
\* each of two keys, one of them with ids out of step, and for a tombstone at the
\* front, in the middle and at the end, in scans without a transaction id and with
\* one, and in merges of SSTs.
SPECIFICATION Spec
CONSTANTS
  Key = {0, 1, 2}
  KeyLen <- MCKeyLen
  Value = {0, 1, 2, 3, 4}
  ValLen <- MCValLen
  TrancId = {0, 1}
  SizeMod = 65536
  None = None
  ScanIds = {0, 1}
  MaxTables = 3
  MaxWrites = 4
INVARIANTS
  TypeOK
  ScanMatchesGet
  MergeMatchesGet
