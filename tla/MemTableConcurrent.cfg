\* Two writers, a reader and a cleaner over two keys.  Two entries outgrow the
\* limit of 10 bytes, so the four writes can freeze two tables that hold the
\* same key; the reader makes one call of each kind at every moment of that.
SPECIFICATION Spec
CONSTANTS
  Key = {1, 2}
  KeyLen <- MCKeyLen
  Value = {0, 1}
  ValLen <- MCValLen
  TrancId = {0}
  SizeMod = 65536
  None = None
  Writers = {w1, w2}
  Readers = {r1}
  Sizers = {}
  Freezers = {}
  Flushers = {}
  Cleaners = {c1}
  NoThread = NoThread
  PerMemSizeLimit = 10
  Batches <- NoBatches
  KeySets = {{1, 2}}
  MaxCalls <- MCMaxCalls
  WriteCalls = 2
INVARIANTS
  TypeOK
  NoLostWrite
  WriterOnActiveTable
  ReadsAreRecent
  ScansAreSnapshots
