\* One thread writes and flushes, in any order and with batches, beside a reader
\* and a thread that freezes.  Three calls are enough to have two frozen tables
\* with the same keys and flush the older one.
SPECIFICATION Spec
CONSTANTS
  Key = {1, 2}
  KeyLen <- MCKeyLen
  Value = {0, 1}
  ValLen <- MCValLen
  TrancId = {0}
  SizeMod = 65536
  None = None
  Writers = {m}
  Readers = {r1}
  Sizers = {}
  Freezers = {z1}
  Flushers = {m}
  Cleaners = {}
  NoThread = NoThread
  PerMemSizeLimit = 10
  Batches <- MCBatches
  KeySets = {{1, 2}}
  MaxCalls <- MCMaxCalls
  WriteCalls = 3
INVARIANTS
  InHand
  FrozenBytesExact
  NoLostWrite
  ReadsAreRecent
  ScansAreSnapshots
