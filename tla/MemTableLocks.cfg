\* One thread of every kind that takes both mutexes, under the fairness of the
\* scheduler.  One key; its first put outgrows the limit, so the writer takes
\* the second mutex as well.
SPECIFICATION FairSpec
CONSTANTS
  Key = {1}
  KeyLen <- MCKeyLen
  Value = {0, 1}
  ValLen <- MCValLen
  TrancId = {0}
  SizeMod = 65536
  None = None
  Writers = {w1}
  Readers = {r1}
  Sizers = {s1}
  Freezers = {}
  Flushers = {f1}
  Cleaners = {c1}
  NoThread = NoThread
  PerMemSizeLimit = 9
  Batches <- NoBatches
  KeySets = {{1}}
  MaxCalls <- MCMaxCalls
  WriteCalls = 2
INVARIANTS
  LockDiscipline
  TotalSizeIsAtomic
PROPERTY
  CallsReturn
