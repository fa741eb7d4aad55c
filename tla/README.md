# tiny-lsm-tree in TLA+

TLA+ models of the parts of tiny-lsm-tree whose code is complete at this commit,
TLC runs that check them on small instances, and TLAPS proofs that carry the
central results to every instance. tiny-lsm-tree is an LSM-tree key-value store
with a Redis front end. The repository is a course skeleton in which several
components are declared but have empty bodies (`// TODO: Lab x.y`); those are
listed below and not modelled.

## 1. The system

A write goes through `LSM::put` to `LSMEngine::put` to `MemTable::put`, which
inserts into the active `SkipList` and freezes it when it is too large.
`LSM::flush_all` and the destructor call `MemTable::flush_last`, which hands the
oldest frozen table to an `SSTBuilder`. A read looks into the active table, the
frozen ones (newest first) and then the SSTs. A range scan copies the entries of
all tables into a `HeapIterator`, and `Level_Iterator` merges that with the
iterators of the SST levels. The Redis server parses requests in
`RedisSession`, dispatches them in `handler.cpp`, and `RedisWrapper` maps them
to calls of `LSM`.

| component | state | operations | interacts with | hard behaviour | correct when |
|---|---|---|---|---|---|
| `SkipList` | nodes with forward (owning) and backward (weak) pointers, `current_level`, `size_bytes` | put, remove, get, clear, flush, prefix and predicate searches, iterators | called by `MemTable` under its locks; iterators outlive the call | relinking towers, an iterator on an unlinked node, unsigned size arithmetic | lanes are ordered sublists, pointers mirror, byte count exact, it behaves as a sorted map |
| `MemTable` | `current_table`, `frozen_tables`, `frozen_bytes`, `cur_mtx`, `frozen_mtx` | put, put_batch, remove, remove_batch, get, get_batch, clear, flush_last, frozen_cur_table, sizes, begin, prefix and predicate scans | many threads; `SkipList` below, `LSMEngine` above, `SSTBuilder` at the end | two mutexes, lock handover in the middle of a lookup, an iterator read after unlock, tables changing place | no write lost, reads linearizable per key, scans are snapshots, no deadlock, sizes right |
| `HeapIterator` | a `std::priority_queue` of `SearchItem`, `max_tranc_id_` | construct, `++`, `*` | fed by `MemTable` scans | several versions and tombstones of a key; a comparison that is not an order | a scan shows ascending keys, each once, with what get would answer |
| `Level_Iterator` | one iterator per level, the index of the current one, a cached pair | construct, `++`, `*` | `HeapIterator`, SST iterators | equal keys in several levels, deletions | newest level wins, no key twice |
| `LSM`, `LSMEngine` | tables, SSTs by level, next ids | put, get, remove, flush_all, clear, transactions; put, get, flush and compaction without bodies | everything below | the flush loop, ids taken before the write | flush_all terminates, ids are unique |
| `TranManager`, `TranContext` | id counter, active transactions | new_tranc, commit, abort (no bodies), ids | `LSM`, WAL | persistence across restarts (no bodies) | ids unique and increasing |
| SST, Block, BlockCache, WAL, BloomFilter, TwoMergeIterator | - | no bodies at this commit, `merge_sst_iterator` excepted | - | - | - |
| `FileObj`, `StdFile`, `MmapFile` | a file, a stream with its buffer and error bits, a mapping | create, open, read, write, append, sync, close, remove | SST, WAL and transaction code | buffered bytes, errors found late, a full disk, a crash, offsets at the edge of the file | both are a byte array; a crash costs the last write at most; sync does not lie |
| `TomlConfig` | 16 settings of a process, the path they came from | load over defaults, save at exit | every component; other processes and the user through the file | a file with missing keys, two processes ending at once, a crash during the save | nothing uninitialised, what was saved is loaded again, files are not written over |
| Redis server (`RedisSession`) | `buffer_` of a connection | accept, read, split, reply | client sockets, handlers | pipelining, requests cut by the network, slow and lost clients | requests taken apart where they were put together, one reply each in order, nothing left unread |
| handlers, `RedisWrapper` | one `shared_mutex`, the `LSM` | check the arguments, dispatch, reply | `RedisSession`, `LSM` | checks here, indices there | no index past the arguments, every reply framed |

`PROJECT.json` lists every component with its status, and under `hazards` the
places in this code where a test would hardly reach a failure. The properties
below are aimed at those.

## 2. Modules

    Table ---- OrderedMap        abstract specification of one table
      |            ^
      |            | ImplementsMap (refinement)
      +------- SkipList          linked structure
      |            SkipListProofs                                       (proofs)
      |
      +------- MemTable          threads, mutexes, list of tables
      |            MemTableProofs                                       (proofs)
      |
      +------- HeapIterator      merge behind a scan of the memory, or of SSTs
      |            HeapIteratorProofs                                   (proofs)
    Ascending                    the order in which a sorted container is walked
      |
      +------- LevelIterator     merge over memory and levels
                   LevelIteratorProofs                                  (proofs)

    RedisCommands -- RedisServer sessions, clients and the network
      |            RedisServerProofs                                    (proofs)
    TomlConfig                   processes and a user around the settings files
      |            TomlConfigProofs                                     (proofs)

    Bytes ---- ByteFile          abstract specification of a file object
      |            ^
      |            | ImplementsByteFile (refinement)
      +------- File              StdFile over its stream, MmapFile over its mapping
                   FileProofs                                           (proofs)

    CommonTheorems               numbers, sums, sequences, loops (lemmas)

`MCSkipList`, `MCMemTable`, `MCHeapIterator`, `MCRedisServer` and `MCFile` add what
TLC needs beyond a `.cfg`: the lengths of keys and values, the argument lists and
the number of calls, what clients send, what is written to a file.

**Table** is what one table promises: a map from keys to (value, transaction
id), and a byte count modulo `SizeMod` (the width of `size_t`). A key is its
rank in the order of `std::string` and rank 0 is the empty string, which `put`
accepts and `get` never finds (`SkipListIterator::is_valid`). Value 0 is the
empty value, the tombstone. `TablePut` keeps the transaction id of an entry that
is overwritten, as `SkipList::put` does.

**OrderedMap** is the state machine over one such table, as callers without a
transaction rely on it: the latest value of every key, and the byte count. Which
transaction id a key carries after an overwrite, and whether a reader with an id
still finds the older version, is left open, because the code and its comments
disagree (see below).

**SkipList** has the nodes themselves. `heap` maps an address to a node; a node
that no `shared_ptr` reaches any more is released with the step that dropped it
(`Release`), and weak pointers to it turn into `Nil`; what is reached (`Alive`) is
the least set that has the roots and the successors of its nodes. `put` (the random tower
height is a choice), `remove` and `clear` are the three operations that change
the list. `Update`, `LowerBound`, `begin_preffix`, `end_preffix` and
`iters_monotony_predicate` are the searches, each walking the lanes as the code
does. `NewIterator` and `IteratorNext` are a client that holds an iterator
across them; `stable` remembers the keys that were in front of it all along.
A prefix is an interval of ranks, which is what all strings with a given prefix
are in the order of `std::string`.

**MemTable** runs one call per thread at a time; `pc` says where the thread is.
Steps are cut at every lock operation and wherever the code reads or writes
shared data without the lock that guards it: `put_` reads `current_table` in
`WriteLock`/`WriteNext` and inserts in `WriteInsert`; `flush_last`, which holds
`frozen_mtx` only, pushes the active table (`FlushPush`), replaces it
(`FlushSwap`), pops the oldest (`FlushPop`) and copies it out (`FlushBuild`).
`get` reads the value through the returned iterator after the lock is gone
(`GetDeref`). A `shared_ptr<SkipList>` is an index into `tables`, the list of
all tables ever made, so a thread can hold a pointer to a table that has left
the MemTable. `sst` is what has been handed to the builder (external code
without a body), `latest` and `seen` are history variables. Calls that only take
and release a shared lock (`end`, `get_cur_size`, `get_frozen_size` on their
own) change nothing and are part of `get_total_size` only. The key list of
`get_batch` is a set.

**HeapIterator** has the binary heap of `std::priority_queue` item by item, with
libstdc++'s way of popping, because `operator>` of `SearchItem` is not an order
on every pair and the outcome then depends on the shape of the heap.
A scan (`begin`) carries a transaction id or none; the constructor drops leading
deletions, and `++` drops the later ones only without an id. A write stores any
transaction id: `LSM::put` takes it before the engine call, a batch has one id for
all, and without a transaction it is 0, so a newer table may well hold the lower id.
`ScanMatchesGet` says what a scan of either kind shows in spite of that; `InStep` are
the keys whose ids do follow the tables. `merge_sst_iterator` fills the heap from the
tables taken as SSTs of one level, without that constructor and with one
transaction id for all, so that only the negated SST id orders versions. The loops
of the code (`SiftUp`, `SiftDown`, `PushAll`, `DropKey`, `SkipDeleted`) are recursive
functions over the state of the loop.

**LevelIterator** is the constructor and `++` of `Level_Iterator`, over the
entries each merged iterator has still to yield: one sequence for the memory, one
for level 0 and one for every SST of level 1 (each over that SST and those before
it, as the loop in the constructor pushes them). `Settle` is the loop that the
constructor and `++` end with. The memory is one map here,
since `HeapIterator` shows that its scan reads it as one as far as the transaction ids of
a key follow its tables (where they do not, the memory may already show an older version),
with the deletions dropped the way `HeapIterator` drops them. Flush, compaction and the iterators of
an SST have no bodies in the repository; they are taken from how they are called:
a flush puts the memory in front of level 0, a compaction merges levels 0 and 1
with deletions kept, an SST iterator yields the entries of the table. An iterator
holds `ssts_mtx` shared from construction to destruction, so neither happens
during a scan, while writes to the memory do. `latest` and `promised` record what
was written, for the properties only.

**RedisCommands** has, for every command, what `string2Ops` makes of its name, the
lengths of the argument vector its handler lets through, the arguments its
dispatcher in `RedisWrapper` then reads, and the form of its reply. The `redis_`
functions behind the dispatchers return constants at this commit.

**RedisServer** runs the sessions of `server.cpp`. One thread runs all completion
handlers, so each handler is one step: `Accept`, `ReadHandler` (with everything
`do_read`'s lambda does up to the call of `async_write`), `WriteDone`, and their
error branches. A client's requests are one stream of tokens that
`async_read_until` takes in pieces of any size (`ReadSome`); `taken` and `consumed`
are two places in it and `buffer_` is what lies between. `Getlines` is
`std::getline` on that buffer, which takes what is left as a line when no line feed
follows; the line end that the code appends to each line again (`server.cpp:46`, `82`)
is left out. A reply that finds no room in the socket waits as a reference to a string
that is destroyed (`do_write`), so `WriteLater` may send something else.
`remote_endpoint()` throws on a reset connection, which leaves `io_context.run`
(`LogEndpoint`). `handleRequest` has no body: `wired` chooses between the empty
reply it gives and the completion its comments describe, `Execute`.

**TomlConfig** has the 16 settings in the order in which `loadFromFile` reads them,
since the first one that is missing or of another type ends the reading
(`Readable`). `getInstance` looks for the file and the constructor opens it again;
the destructor looks whether it is there, opens it for writing and writes it. Other
processes and the user act between any two of these steps, and a process may crash
at each. `linked` is false when the user has put another file at the path that a
process still writes to. What a write leaves behind on a full disk, or when two
processes write to one file, is the set `Written`: a text that lacks some settings
(`Torn`), and may end inside a number, still parses. `author` remembers which save made
a file, `source` which save a process was loaded from. That what `toml::format` prints
is read back as it was is taken for granted; a separator of one byte cut out of a longer
UTF-8 character would not be.

**File** has the two backends behind one set of calls. `disk` is the file as the
operating system has it. An `std::fstream` keeps a short write in its buffer and
hands it over at the next seek, flush or close; if that fails the error bits stay
set and every further call does nothing, until `close` tries the buffer once more
(`Seek`, `Put`, `Closed`: each the set of outcomes of the library call).
`MmapFile::write` makes the file end where the write ends and maps it anew, which
may fail after the file was resized; the copy into the mapping is one step with it, so a
`SIGBUS` in the middle of it on a full disk, and an `msync` that fails
(`mmap_file.cpp:75` to `95`), are not in the model. `Crash` loses the buffer.

**ByteFile** is the abstract file: its contents, the offset from which bytes are at
risk, and whether the handle had an error. `ImplementsByteFile` is the refinement
with the buffer laid over the file (`Content`), and says in one property that reads
see buffered bytes, that a mapped write cuts the file and nothing else, and that an
error, a crash or a close that fails costs bytes of the last write only.

Operators whose comment begins with `Fault:` stand before the definition they
vary. Each is a plausible slip in the same code (a lock not waited for, a table
put at the wrong end of the list, a byte count not updated) and is not part of
any specification; put in place of the original, it violates the property that
`PROJECT.json` pairs it with under `mutants`. They show that the properties can
fail.

## 3. What the runs check

| run | instance | result |
|---|---|---|
| SkipListStructure | 3 keys, 2 values, 2 ids, 3 levels | `Lanes`, `BackwardMirrors`, `SizeExact`, `SearchesAgree`; `ImplementsMap`: the list implements `OrderedMap` |
| SkipListIterator | 3 keys, 2 levels, one iterator, 4 addresses | `IteratorMissesNothing` |
| MemTableConcurrent | 2 writers (2 calls each), a reader, a cleaner, 2 keys | `NoLostWrite`, `WriterOnActiveTable`, `ReadsAreRecent`, `ScansAreSnapshots` |
| MemTableFlush | a thread that writes (batches too) and flushes, a freezer, a reader | the same with flushing, `InHand`, `FrozenBytesExact` |
| MemTableLocks | a writer, reader, sizer, flusher and cleaner, fair scheduling | `LockDiscipline`, `TotalSizeIsAtomic`, `CallsReturn` (no deadlock, every call ends) |
| HeapIteratorScan | 4 writes with any ids, 3 tables, 3 keys, scans with and without an id | `ScanMatchesGet`, `MergeMatchesGet` |
| LevelIteratorScan | 4 writes, 3 keys, flush and compaction anywhere | `AscendingOnce`, `LiveKeysShown` |
| RedisServer | one client pipelining up to three requests cut anywhere, or two clients, or any command with one to five arguments; disconnects | `InStep`, `RepliesDelivered`, `ArgumentsMatch`, `Drains` |
| TomlConfig | 2 processes, 2 paths, 2 changes by the user | `RestartKeepsSettings`, `FilesAreKept` |
| File | either backend, writes of 0 to 3 bytes within 4, a full disk and crashes | `AcceptedIsThere`, `SyncTells`; `ImplementsByteFile`: both implement `ByteFile` |

One run of each module also checks its `TypeOK`. Two more runs are expected to
end in a counterexample. Each checks one statement taken from a comment or from the
role the code gives to a lock:

* **MemTableFlushRace** - `flush_last` pushes and replaces `current_table` with
  `frozen_mtx` alone. A `put` that has taken `cur_mtx` and read the pointer then
  writes into a table whose entries were already copied out, and the write is
  gone. `MemTableFlush` shows that nothing is lost when the flusher is the thread
  that writes.
* **LevelIteratorDeleted** - an empty value makes `Level_Iterator` skip the key in
  every level (`level_iterator.cpp:64`), but the `HeapIterator` of the memory has
  already dropped it: after put, flush, remove the scan shows the removed pair.
  `LiveKeysShown` is therefore about keys that were not deleted last.

### Where the code differs from its comments

Visible in the text of the code and modelled as the code has it, without a run of
their own:

* `MemTable::clear` drops the frozen tables and keeps `frozen_bytes`
  (`memtable.cpp:249`); `get_total_size` then stays above 0, the value that
  `LSM::flush_all` waits for. `FrozenBytesExact` is checked without `clear`.
* The iterator of `get` is said to hold a read lock while it is valid
  (`skiplist.h:92`); the lock has gone when the caller reads the value.
* `skiplist.h:126` to `129` and the test `TransactionId` (`test_skiplist.cpp:334`) have
  a reader with an id find the newest version not newer than that id; a comment of the
  test lets it be ignored until transactions are there. `put` writes over the only version
  a key has and keeps its first id (`skipList.cpp:114`), and `get` does not look at the
  id (`skipList.cpp:170`). `ImplementsMap` takes neither side.
* `iterator.cpp:128` calls a deleted value not legal; a scan with a transaction id
  stops on deletions after its first live key. `ScanMatchesGet` leaves open whether it
  does.
* `operator>` of two versions of a key (`iterator.cpp:24` to `38`) is an order only if
  the newer table has the higher id, which nothing sees to; otherwise a scan may show
  either version. `ScanMatchesGet` leaves open which one, for such keys only.
* `config.cpp:62` announces `value_or` for a setting that is missing and
  `config.cpp:119` says that the defaults remain; it throws, which leaves those before it
  in force and the defaults behind it, and keeps others in the file from being read.
  No property says which of these is right. A file that a full disk cut inside a number is
  read with what is left of the number.
  `config.cpp:180` speaks of an empty path and returns `config.toml`.
* `files.cpp:37` says "synced to disk"; `StdFile::sync` hands the bytes to the
  operating system only, and its result is not looked at.
* `MmapFile::open(create)` keeps an existing file, `StdFile::open(create)` empties
  it; `MmapFile::create` of no bytes fails.
* `server.cpp:45`, `48` and `52` have `PING` answered with `+PONG` before anything else
  is looked at. Followed by CR LF, as the protocol has it, it is answered with an error:
  `getline` leaves the CR in the line that is compared. Only LF alone works. `InStep`
  leaves the answer open, and says that such a `PING` takes up its own line and gets one
  answer.
* `llen_handler` wants one operand more than `LLEN` has (`handler.cpp:212`).
* `SAVE` calls `RedisWrapper::flushall`, which is `LSM::flush`: one table, not all.

### Bounds, and why they are enough

`MaxCalls` bounds the calls of a thread, `MaxTables` and `MaxWrites` the writes of
the heap's client, `NodeId` the addresses alive at a time, `MaxLevel` the height
of towers. The skip list needs a node before, at and behind the one that changes,
and a tower that is lower, equal and higher than its neighbours': three keys and
three levels. In the MemTable the cases that matter are two tables with the same
key and a third one being made while a lookup is between its two locks; two keys,
ten bytes per entry and a limit of ten give a freeze every two entries, so four
writes (or three calls with a batch and a freezer) reach it. For the merge, four
writes with two ids give three versions of one key, or two versions of two keys of which
one has its ids out of step, neighbours with tombstones, and a heap of three levels. For the merge over levels, four writes give one version each in the
memory, in two SSTs of level 0 and in level 1, and with one key per SST level 1
has three overlapping iterators.

`SizeMod` is 2^16 instead of 2^64: the sizes that occur are far
below both, and subtraction wraps in the same way. The MemTable runs use
non-empty keys only; the empty one is covered by the SkipList runs. In
`LevelIterator` an empty key would be shown late or with an old value
(`get_min_key_idx` takes an empty minimum for none yet), so its runs have none.

`ReadsAreRecent` takes the read of a value through an iterator as one atomic
read. In the code it is an unsynchronized read of a `std::string`, and what one
yields that meets an assignment is undefined. `NoLostWrite` and the read properties are checked with writer and
flusher in one thread because `MemTableFlushRace` refutes them otherwise; the
lock properties are checked, and proved, with both apart.

A session's behaviour depends on where its buffer ends when a line is looked for:
one cut at every place of two or three requests, the last string of each in two
parts and once with a line end inside, gives every such place in every form of
request. With room for one reply in the socket the second one waits. The second
client is there for what sessions share, the event loop that a reset ends. Every
command is sent with one to five elements; the longest argument list that is
checked against a fixed number has four.

Two settings the user edits and a cut file lacks, one kept as an int and one as a char,
of the 16 give values that are cut, values of the wrong type, a number in which the file
ends, and a load that stops early, in the middle and late; two processes and two edits give a process that ends while another
one saves and a user who replaces the file in between.

In the file runs writes are shorter than, as long as, and longer than what the
stream keeps back (`Direct` is 3 instead of 8192 bytes), overlap, leave gaps and
end before the end of the file. `MaxSize` bounds the offsets and nothing else.

### Fairness

`CallsReturn` assumes weak fairness of each thread's next step: the operating
system runs every thread that can run. Nothing is assumed about who gets a
mutex first; the bound on the calls is what keeps a reader from being passed by
for ever. `get_total_size` takes both mutexes shared while it already holds them
shared. The standard leaves that undefined for `std::shared_mutex`; the model
follows glibc's default rwlock, which admits a reader whenever no writer is
inside, and the result about deadlock holds for that implementation.

`Drains` assumes weak fairness of the server, the network and the clients' reads
together: the event loop runs some handler as long as one is ready, and a client
reads the replies to what it has sent. No client has to hang up, and no session is
preferred; the streams are finite, which is what keeps one of them from taking all
the steps. The property excepts a server that has left its event loop and clients
that are gone.

Deadlock is checked in every run but RedisServer, where the system stops when all
requests are answered.

## 4. What is proved

All for arbitrary sets of threads in arbitrary roles, arbitrary keys, values,
batches, limits and numbers of calls; arbitrary fields, settings and processes;
arbitrary contents of files and writes of any length; skip lists of any size and
height; clients that send any requests, in reads cut anywhere; scans over any number of
tables and SSTs of any size. The assumptions are the named
ones of the modules:

* `TableAssumption`, `MemTableAssumption`: types of the constants, `NoThread` is no
  thread, `None` is no entry, a key or a value is empty exactly if its length is zero.
* `SkipListAssumption`: there is a level at least, addresses are numbers, and the head
  and `nullptr` are not among them.
* `HeapIteratorAssumption`: the ids of scans are numbers, and the numbers of the writes
  are values, since each write stores its own; 0 is the deletion. The ids of entries are
  numbers (`TableAssumption`) in no particular order.
* `LevelIteratorAssumption`: keys, values and ids are numbers, no value is `None`, an
  SST holds a key at least.
* `TomlConfigAssumption`: the default path is a path, the fields a user edits are
  fields, the bound on edits is a number.
* `FileAssumption`: what is written is a sequence of bytes no longer than `MaxSize`,
  the buffer of a stream has room for a byte at least, `None` is no offset, no
  bytes and no buffer.
* `RedisServerAssumption`: a client sends requests of the forms in `Requests`, an array
  having one element at least, since its first one is the name of the command; a socket
  has room for one reply.

### SkipList

* `LanesHold`, `MirrorsHold`, `SearchesHold` (SkipListProofs): `Lanes`,
  `BackwardMirrors`, `SearchesAgree`. The invariant `Inv` says that there is a set `L`
  of linked nodes with `Shape`: on every lane each node of `L`, and the head, leads to
  the next larger one that is tall enough (`Leads`), and is led to by the one its
  backward pointer names. Nodes outside of `L` are removed ones an iterator still owns;
  of them `Ascends` says that their pointers lead to living nodes with larger keys
  only, so every walk ends, also one that starts on a removed node. That ranking is
  what gives the recursive functions of the model (`Advance`, `Chain`, the walk of
  `end_preffix`) their value: `FollowExists` proves that the function exists, and
  `AdvanceIs`, `ChainIs`, `SkipIs` unfold it. A descent through the lanes stops at the
  last node below the key (`UpdateIs`), so the lanes pass over nothing. `LinkShape` and
  `UnlinkShape` are the two changes of the structure, `ReleaseIs` the giving back of
  nodes, by the closure that `Alive` is.
* `Types`: `TypeOK`. No pointer dangles because every successor of a living node is
  alive, and the lanes never lead to a node that was given back.
* `SizeHolds`: `SizeExact`. The byte count is a sum over the keys of the map (`Counted`);
  a step changes what one key adds (`BytesChange`), and the subtraction of `put` and
  `remove`, which may pass below zero, is undone by the modulus (`CountChange`).
* `IteratorHolds`: `IteratorMissesNothing`. `Ahead` says that the keys the client still
  expects are linked, not below its iterator, and that a removed node below one of them
  leads to a key that does not pass it: `remove` leaves the node its pointers, and what
  is linked in later goes between living nodes.
* `Refinement`: `Spec => ImplementsMap`. `Contents`, read off the bottom lane, is the
  map the nodes of `L` store (`ContentsIs`), and each operation does to it what
  `OrderedMap` allows: `put` makes one of the maps with the new value, whatever its id
  (`StepReaches`, `PutUnder`).

### MemTable

* `Locks` (MemTableProofs): `Spec => []LockDiscipline`. The invariant `LockInv`
  adds the types of `pc` and the mutexes. One lemma per lock operation says what
  it does to the four claims a thread can have; every action is an instance of
  one of them.
* `Types` and `Hands` (MemTableProofs): `Spec => []TypeOK` and `Spec => []InHand`.
  Types alone are not inductive. `FlushPop` takes the last element of `frozen`,
  which must not be empty; that it is not is known since `FlushLock` looked, and
  stays true because `clear` and other flushers wait for `frozen_mtx`. So the
  inductive invariant is `TypeInv`, the conjunction of `LockInv`, the data types
  and `InHand`, which says what each thread has in hand where its code relies on
  it. `FirstHitType` rests on the least element of a set of naturals
  (`CommonTheorems`).
* `TotalSizes` (MemTableProofs): `Spec => []TotalSizeIsAtomic`. Between the two
  reads of `get_total_size` both mutexes are held shared; by `LockDiscipline`
  nobody who could change a size is inside.
* `NoWriteLost` and `WritersOnActiveTable` (MemTableProofs): `NoLostWrite` and
  `WriterOnActiveTable` are invariants **if** `NoRacingFlush`, that is, no thread
  runs `flush_last` while another one writes. The run MemTableFlushRace shows
  that the condition is needed. The inductive invariant `SafeInv` adds to
  `TypeInv` who may be at which step (`Roles`), what `flush_last` holds while the
  active table is on the list and still current (`Swapping`), and `Kept`: for
  every key, what a search of the tables in their order and then of the SSTs
  answers is the last value written. Most steps leave that search alone
  (`QuietOrBusy`); the seven that do not are an insertion, a freeze, a clear and
  the four steps of `flush_last`, one lemma each. An insertion is where
  `WriterOnActiveTable` is needed: the entry goes to the table that is searched
  first, so it is what the search finds.
* `FrozenBytes` (MemTableProofs): `FrozenBytesExact` is an invariant if
  `NoRacingFlush` and nobody calls `clear`, which resets the list and keeps the
  counter. The counter is kept by additions and unsigned subtractions, one table at a
  time; the invariant `FrozenInv` says it is the sum over the list, modulo
  `SizeMod`, and that the active table is not on the list except between the two
  halves of a flush (`Apart`), since a write changes the size of the active table
  and the counter does not follow. The sums are folds over sequences; that the sum
  of a list with one more element, or one less, is the sum plus or minus that
  element is proved in `CommonTheorems` from the definition of the fold, and so is
  what a counter does that wraps (`ModAdd`).
* `ReadsRecent` and `ScansSnapshot` (MemTableProofs): `ReadsAreRecent` and
  `ScansAreSnapshots` are invariants if `NoRacingFlush`. A lookup lets go of one
  mutex before it takes the other, so a table may move from the active place
  to the list, and from the list to the SSTs, behind its back. The invariant
  `ReadInv` says of each thread inside a lookup, and of each key it asks for, what is
  known at its step (`Reliable`): after a miss in the active table
  (`HalfMissed`), the list and the SSTs, searched now, find one of the values the
  key had since the call began, or the key was written since; after a miss in
  both (`Missed`) the same of the SSTs alone. What is in hand already is one of
  those values. `ValueWritten` is the argument under it: where one entry of one
  table changes, a search finds what it found before or the new entry.

### HeapIterator

* `HeapScanMatchesGet`, `HeapMergeMatchesGet` (HeapIteratorProofs): `ScanMatchesGet` and
  `MergeMatchesGet`. Three things have to meet.
  - `operator>` is not an order of all items: of two with the same key each is greater,
    when the newer table has the lower id, and ids come in any order. `Stepped` are the
    keys for which it is one: in a scan those whose ids are in step with the tables, in a
    merge all, since all ids are the same there and the negated SST ids decide. `Le` is
    the order by key, and by table for those keys; of two versions of any other key
    each may stand before the other. An item that `Greater` does not put behind another
    is before it in that sense (`Coherent`, `GreaterIs`, `AllCoherent`), which is all that
    the heap needs.
  - The binary heap keeps that order. `SiftUp` and `SiftDown` move a hole; `Upward` and
    `Downward` say of a heap with a hole that all is in order around it, one turn
    of each loop keeps that, and the loop ends where the item fits (`SiftUpHeaps`,
    `SiftDownHeaps`). So `Push` adds and `Pop` takes out the root, which goes before every
    other item (`PushIs`, `PopIs`, `RootLeast`).
  - What is left to be read. `Ahead`, the last part of the inductive invariant `HeapInv`,
    says that there is a set of keys whose items, all of them, are what the heap holds
    (`Holds`). For a scan (`Scanned`) these come behind the keys read; each pair read is
    one some table holds, and what `get` finds if its key is in step; and a key in step
    that is not deleted is read or in the set. For a merge (`Ready`) what was read are the
    live keys, and the least one, that are not in the set. `DropKey` takes one key out of
    the set with all its items, whichever of them came first, so that a key out of step
    costs no other one anything; `SkipDeleted` takes the keys whose first item is a
    deletion, which for a key in step means that it is deleted (`DropHolds`, `SkipHolds`,
    `FirstIsNewest`).
* `HeapTypeOK`: `TypeOK`. What is in the heap is an item of some table (`ItemOf`), so its
  index is that of a table (`ReadyType`).

That a loop ends, and ends in a state that its steps lead to, is proved once
(`LoopExists`, `LoopEnds` in CommonTheorems): a function that goes from each state to
one of lower rank exists, and its value is that of a state where the loop stops. Each
recursive function of both iterators is an instance (`SiftUpIs`, `DropKeyIs`,
`SettleIs`).

### LevelIterator

* `LevelTypeOK` (LevelIteratorProofs): `TypeOK`. The loop of `Settle` ends because
  `skip_key` moves on at least the iterator on which the merge stands (`SkipFewer`), and
  it ends at an entry that is no deletion, or at the end of all iterators. That the
  iterators of the constructor are sequences at all needs tables of finitely many keys,
  which is part of `Stored`, and its preservation by `Flush` and `Compact` is the longest
  part of the proof (`FlushTables`, `CompactTables`): the chunks that a compaction cuts
  follow each other and lose no key (`ChunksAre`).
* `LevelAscendingOnce`, `LevelLiveKeysShown`: `AscendingOnce` and `LiveKeysShown`, **if**
  no key is empty. The inductive invariant adds to `TypeOK` that the tables, newest
  first, hold what was last written (`Stored`), and `Underway`, what a scan has still to
  do: in every iterator keys rise and are above those already shown; of a key that
  several iterators have, the first one stands for it (`Stands`), its value being the
  latest or a key deleted since; every key that is not deleted was shown or is in some
  iterator (`Merges`). The constructor establishes it (`SourcesMerge`): the first
  iterator is over the memory, the second over level 0, and the many iterators over
  level 1 that hold the same SSTs agree. `get_min_key_idx` finds the first iterator with
  the least key (`MinIs`), so the entry shown stands for its key (`TopStands`), and
  `skip_key` keeps the rest (`MergesSkip`).

  The condition is needed: `get_min_key_idx` takes an empty minimum for none yet
  (`level_iterator.cpp:82`), so that with the empty key in an iterator a later iterator
  takes its place. With `Key = {0, 1}` TLC finds both properties violated. `LevelTypeOK`
  does without it.

### TomlConfig

* `Types`, `Restarts`, `FilesKept` (TomlConfigProofs): `TypeOK`, `RestartKeepsSettings`
  and the action property `FilesAreKept`. The inductive invariant `Inv` adds that a file a
  process writes is there (`LinkedIsThere`), that a file which was saved last by a process
  is one of those such a save can leave (`Authored`), that an instance made from such a
  file holds what that file gives (`Loaded`), and that a destructor which is about to save
  saw no file, so one that is there now appeared behind its back (`News`).
  Loading stops at the first missing or wrong key, the least element of a set of
  fields (`Stops`); what a process saves has every key, so a whole save is loaded whole
  (`SavedLoads`), and one that was cut differs in one setting at most from a mixture with
  the defaults (`TornIs`, `WrittenLoads`).

### File

* `Types`, `AcceptedWritesAreThere`, `SyncTellsTheTruth` (FileProofs): `TypeOK`,
  `AcceptedIsThere`, `SyncTells`. What was accepted is in the file with the buffer
  laid over it, as long as the stream has had no error; so the invariant `Inv` says
  which handle can have a buffer, an error or a mapping at all (`Handles`), and the
  lemmas say what each call of the stream does to the bytes seen, a disk that takes
  only a part included (`SeekIs`, `PutIs`, `ClosedIs`).
* `Refinement` (FileProofs): `Spec => ImplementsByteFile`, for both classes. Each
  action of `File` is a step of `ByteFile` or a stutter, one lemma per action
  (`CreateAndWriteStep`, `WriteStep`, ...). The bytes of the abstract file are those
  with the buffer laid over the disk, what is at risk begins where the buffer
  does, and a stream with an error has broken its handle. A crash keeps the disk
  alone, which is what the abstract file allows: everything before the offset at risk.

### RedisServer

* `RedisInStep` (RedisServerProofs): `InStep`. The part `Sync` of the inductive
  invariant `RedisInv` says of a session that no request was cut short for that what
  it has consumed are the first requests of its client, as many as the log has
  entries (`Start`), so that its buffer begins with the next request or a part of it.
  `NextRequest` is the step: if the read handler finds the request whole, it consumes
  it and nothing else, and hands on its lines. Under it are lemmas about texts: where
  the line feeds of two joined texts are (`FeedsConcat`), that a request with `n`
  elements has `1 + 2n` lines unless its last string has a line end in it (`WireIs`),
  and that `getline` takes exactly those from a buffer that has more behind them
  (`WholeText`). The texts are joined by a fold, which `FlatAppend` and `FlatConcat`
  unfold; they are proved from the definition by the least length that fails.
* `RedisRepliesDelivered`: `RepliesDelivered`. `Delivery` says that what the client has
  read and what is in the socket are the replies of the log as long as no write
  waited, and `RepliesFramed` that each of them is one value of the protocol, for every
  command and any number of arguments.
* `RedisArgumentsMatch`: `ArgumentsMatch`, for argument vectors of any length. What the
  `OPS` table and the handlers let through is compared with what the wrapper reads
  (`ReadsMatch`); for `hset` that is a union over pairs, which is everything behind the
  name because the number of operands was checked to be even (`HsetReadsAll`).
* `RedisTypeOK`: `TypeOK`. That `consumed` never passes `taken` is what `ParsedType` and
  `ExtentIn` give: a run consumes something, and only what is in the buffer.

Only model-checked: liveness (`CallsReturn`, `Drains`), which is out of TLAPS's reach.
Every invariant and every other property of the passing runs is proved, those of `MemTable`
and `LevelIterator` under the conditions named above.

## 5. Not modelled, and the plan

Not modelled because there is no code yet:

* SST, Block, BlockCache, WAL, Record, BloomFilter, TwoMergeIterator and
  TranContext, apart from accessors and `merge_sst_iterator`: the functions that
  would give their objects a state (`encode`, `add_entry`, `build`, `open`, `put`)
  return an empty value, so the accessors have nothing to work on.
* LSMEngine: `put`, `get`, `remove`, `flush` and `full_compact` return 0, nothing or
  at once. `clear`, the paths and the sizes of SSTs are what is left.
* LSM: each call takes an id from `TranManager` and forwards to the engine. Put
  together with the engine as it is, `flush_all` would be a loop around a call that
  does nothing and every `get` would find nothing; put together with the MemTable
  directly, it would be a program that is not in the repository. The MemTable model
  has the part that exists: `flush_last` and `get_total_size`, which the loop reads.
* TranManager: what has a body is one `fetch_add`.
* The `redis_` functions of RedisWrapper.

Not modelled because they hold no logic: Logger, the Python bindings,
`print_skiplist`.

Next, as the engine gets its bodies: the WAL and recovery under crashes, flush and
compaction in place of the external actions of `LevelIterator`, and transactions, for
which `top_value_legal` and the ids of the iterators are prepared. With them the empty
key of `get_min_key_idx` should be decided.
