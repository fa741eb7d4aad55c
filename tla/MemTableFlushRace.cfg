\* flush_last beside a writer, neither of which the other waits for.
SPECIFICATION Spec
CONSTANTS
  Key = {1}
  KeyLen <- MCKeyLen
  Value = {0, 1}
  ValLen <- MCValLen
  TrancId = {0}
  SizeMod = 65536
  None = None
  Writers = {w1}
  Readers = {}
  Sizers = {}
  Freezers = {}
  Flushers = {f1}
  Cleaners = {}
  NoThread = NoThread
  PerMemSizeLimit = 20
  Batches <- NoBatches
  KeySets = {{1}}
  MaxCalls <- MCMaxCalls
  WriteCalls = 2
INVARIANT
  NoLostWrite
