# Verification of the wormhole filter repository

TLA+ models of the persistent-memory wormhole filter and of the LevelDB that
carries a wormhole filter policy, model-checked with TLC on small instances; the
filter, the filter policy, the memtable read while it grows, the file locks with the
background queue, the files of the POSIX environment and the repair are also proved
correct for every size with TLAPS. `PROJECT.json` lists components, runs, mutants, the
source lines of every definition, findings, hazards and theorems.

## 1. The system

### The persistent-memory filter (`src/pm_wf/pmwormholefilter.hpp`)

`num_buckets_` buckets of four 16-bit tags in a persistent pool. A tag is a 12-bit
fingerprint and the 4-bit distance of its bucket from the key's home bucket; 0 is an
empty slot. Insert scans from the home bucket for the first empty slot. While that
slot is 16 or more buckets away, it copies the farthest tag that may move there into
it and goes on with the slot so freed. It fails when nothing may move or nothing is
empty; moves already made stay. Correct means: no key inserted and not deleted is
ever missed, at any point of another key's insertion, and what has reached the
medium stays. Hard are the order of the stores in a chain of moves, with power
failures and early write-backs between any two; the wrap of the ring; failure after
some moves; two keys of one signature; and which stores are persisted (moves) and
which are not (the new tag, deletions).

### The filter policy (`leveldb/util/wormhole.cc`)

The same table built in memory for one list of keys (`CreateFilter`) and probed
(`KeyMayMatch`). LevelDB skips blocks, and so denies keys, on its word.

### LevelDB

- **The write path** (`db/db_impl.cc`): a queue of writers, group commit,
  `MakeRoomForWrite`, log, sync, memtable. Everything shares `mutex_`, which is
  released during log writes, table building, MANIFEST writes, file removal and
  every wait.
- **Background work**: memtable flushes, compactions with a flush nested in them,
  trivial moves, removal of obsolete files, `LogAndApply`; manual and seek
  compactions; recovery at Open.
- **Versions** (`db/version_set.cc`): which files a lookup reads, which files a
  compaction takes, which files are still referenced.
- **Reads**: the skip list read without a lock while it grows, block, two-level and
  merging iterators, `DBIter`, snapshots.
- **Tables** (`table/`): data blocks, index, one filter per 2KB of file offsets.
- **Environment**: LRU caches of tables and blocks, limiters, file locks, the
  background thread and its queue, buffered and direct I/O files, the log format.
- **Repair** (`db/repair.cc`).

## 2. Modules

| Module | Models |
| --- | --- |
| `WormholeTable` | buckets, hashing, tags, the scan for an empty slot, the choice of the tag to move; shared by both filters |
| `PMWormholeFilter` | the persistent filter over a cache and a medium |
| `CountingFilter` | abstract: a multiset of signatures, part of it safe from power failures |
| `PMWormholeFilterCalls` | the filter plus the last call's result; the mapping to `CountingFilter` |
| `WormholePolicy` | `CreateFilter`, `InsertItem`, `KeyMayMatch` |
| `FilterBlock`, `Table` | filter block; table builder and point lookups |
| `DBImpl` | write path, background work, crashes, recovery |
| `VersionSet` | computations on the files of a version |
| `Compactions` | readers, snapshots, flushes, automatic, manual and seek compactions over `VersionSet` |
| `SkipList`, `MemTable` | the list of a memtable; a thread that inserts in it and one that looks a key up |
| `BlockIterator`, `TwoLevelIterator`, `InternalIterators`, `DBIter` | the cursors, as operators |
| `Scan` | `MemTable` and a `DBIter` over it, the full memtable and two levels of tables |
| `LRUCache`, `TableCache` | the sharded cache as operators; open tables, blocks and limiters over two of them |
| `PosixEnv` | `LockFile`, `UnlockFile`, `Schedule`, the background thread, closing, exits |
| `RandomAccessFile`, `PosixWritableFile` | the four ways of reading a file; buffered writing, syncing and crashes |
| `LogFile` | log writer and reader |
| `Repair` | `RepairDB` with failing calls and restarts |
| `Environment` | the parts of the environment side by side, one exercised per behaviour |
| `*Proofs` | the TLAPS proofs |
| `MC*` | the instances TLC checks |

**PMWormholeFilter.** `cache` is `buckets_` as the program reads it, `pm` as the
medium holds it. `pmwormholefilter_insert` is the scan; each turn of the while loop
is a step (`insert_displace`, `insert_fail`), then `insert_place`. `Evict` writes a
bucket back at any time; `Crash` leaves only `pm`. A scan that finds no slot and a
delete that finds no tag change nothing and are stuttering steps. A key is its hash,
since `hasher_` returns its argument. `live` is a ghost: the successful inserts less
the successful deletes per signature, lowered by a crash to what the medium holds.

**WormholePolicy.** Init is any list of keys up to the bound; the steps insert them
one by one. `InsertItem_fail` goes on with the next key, as `CreateFilter` does.

**FilterBlock, Table.** The builder's `Rep` is a record and each call maps it to a
set of outcomes (separator chosen, stored size, failing file operation). A filter is
the set of hashes of its keys, so false positives occur. A block is the sequence of
its keys; bytes, checksums and the footer are left out.

**DBImpl.** A stretch between two releases of `mutex_` is one action, and so is each
stretch without it. `pc` says where a writer is (`waiting` in the queue, `room`
inside `MakeRoomForWrite`, `bgwait`, `log`, `sync`, `apply` and the error ends), `bg`
the same of the background thread. A file is a sequence of records of which the
first `synced` survive a machine crash; a process crash keeps everything written. A
crash inside `LogAndApply` may or may not have written the edit (`WrittenEdits`).
Simplifications: a batch has one entry with its own key; levels above 1 are not told
apart from 1; a compaction takes any files of levels 0 and 1 and makes one output;
obsolete files go in one step; Open meets no I/O error; MANIFEST records are not torn
and CURRENT switches atomically; logs fit in one 32KB block, so that everything
behind a torn record is lost.

**VersionSet, Compactions.** Here keys have an order and files have bounds. The
background thread gives up the mutex between two keys of a merge, so writes,
snapshots, reads, manual requests and the flush of a full memtable happen in
between. The value of a write is its sequence number, so `history` tells what every
reader has to see. Nothing fails here but the background work as a whole
(`CompactionFails`); crashes and logs are `DBImpl`'s subject.

**MemTable, Scan.** Inserting first searches, then links the node one level per step;
the lookup reads one pointer per step and may see an old `max_height_`. `Contents`
are databases with entries in two levels, `imm_` and a growing `mem_`, in blocks of
several shapes, some unreadable. The iterator makes any sequence of moves. Each
positioning operation of a cursor is an operator from cursor to cursor; the cursors
over lists, blocks and levels are one family (`TwoLevelIterator`) that dispatches by
kind, as the virtual calls do, and the merging cursor holds several of them.

**LRUCache, TableCache.** A call of the cache holds its shard's mutex and is one
step; opening a file, taking a limiter, reading and inserting are separate steps of
separate threads. Handles are addresses that `malloc` reuses, so that a handle kept
too long would name another entry. Deleters run are recorded and acted on.

**PosixEnv.** Processes with several databases each. `LockFile` and `UnlockFile` are
taken apart at every access to the shared table and every system call; the record
lock of the system belongs to a process and is dropped by any `close()` of the file
in it. Work is queued, run, and may schedule itself again; `~DBImpl` waits for it.

**PosixWritableFile, RandomAccessFile.** Bytes are numbered as they are appended.
`contents` is what the system was given, of which `on_disk` bytes are certain; a
crash keeps any longer prefix. Writes fail part way. The functions of
`RandomAccessFile` compute what each `Read` returns from any file contents, the
aligned windows of direct I/O included.

**LogFile.** A byte is a fragment and a place in it; the writer goes on after failed
appends with the `block_offset_` it believes in; the reader resynchronises. It is the
reader that checks checksums, as recovery uses it. `ConvertLogToTable` turns the
checks off (`repair.cc:173`, under a comment at 169-172 that says the opposite); that
reader is not modelled, and `Repair` takes what it gets from a log as given.

**Repair.** Each file operation is a step that may fail, archiving (logs, tables,
descriptors) and the removal of a failed copy included, where the code only logs the
failure; the process may die after any, and the next repair starts from what is
there. `scanned` is the `TableInfo` that `ScanTable` fills, `saved` what
`RepairTable` copies: the two read the table separately, and a read that fails in one
may succeed in the other. `misread`, `careless` and `replaced` are ghosts: tables
whose scan a failing read cut short, tables that a failure left in their place, and
files that a rename replaced.

**Environment.** Its five parts share no variable in the code; a behaviour exercises
one, chosen at the beginning. This makes one instance of five modules without
multiplying their states.

## 3. Runs

| Run | Instance | Checks |
| --- | --- | --- |
| `pm_filter` | 5 buckets of 1 slot, reach 2 | `LookupNeverMisses`, `NoFalseNegative`, `WindowFull`, `DurableSurvives`, `InsertReturns`, `ImplementsCountingFilter` |
| `wormhole_policy` | lists of up to 6 of 4 keys, 2 slots, reach 2 | `ScanFindsSlot`, `AcceptedKeysMatch` |
| `wormhole_policy_contract` | the same | `ListedKeysMatch`: violated |
| `table` | up to 4 entries, 4 user keys, 2 versions | `LookupsMatchEntries` |
| `db_impl` | 2 threads, 3 writes, 1 crash, reuse_logs on or off | `SyncedWritesSurvive`, `AckedWritesStay`, `SequenceOrder` |
| `db_impl_faults` | 2 threads, 2 writes, 1 I/O error, 2 crashes | `SyncedWritesSurvive`, `AckedWritesStay`, `RecoveryFindsItsTables` |
| `db_impl_returns` | 2 threads, 2 writes, 1 flush, 1 error, 1 crash | `CallsReturn`, `CloseReturns`, `FlushedWhenReturned` |
| `db_impl_torn_record` | 1 thread, a failing log write, 1 crash | `SyncedWritesSurvive`: violated |
| `compactions` | 3 keys, 4 levels, 3 writes over 3 loaded entries, 1 reader, 1 manual caller, 2 events | `ReadsMatchHistory`, `LevelsDisjoint`, `NewerDataAbove`, `ManualPointsToCaller`, `BackgroundSettles`, `ManualReturns` |
| `compactions_gap` | 3 keys, 5 writes, 1 manual compaction | `LevelsDisjoint`: violated |
| `iterators` | 3 keys, a growing memtable over the layouts of `MCContents` | `GetFindsPublished`, `IteratorFollowsHistory` |
| `environment` | see `MCEnvironment.cfg` | caches: `HandlesStayValid`, `CachesConsistent`, `FilesAccountedFor`, `BlocksStayValid`; locks: `OneOpenPerProcess`, `OpenTwiceOnlyWhenDropped`, `WorkOnlyWhileLocked`, `CloseFinishes`; files: `ContentsFollowAppends`, `SyncedBytesStay`, `ReadsReturnTheFile`; log: `RecordsReadBack`; repair: `RepairDestroysNothing`, `RepairedDatabaseIsSound` |

**Why the bounds suffice for the interesting cases.** With five buckets, a
reach of two and keys with homes 4, 0 and 1, the whole ring fills: the scan and the
window of candidates wrap, an insertion moves two tags in turn, others fail after one
move, and two signatures share a fingerprint; no two share a home bucket, a case left
to the theorems, which have no bounds. Lists of six keys with four copies of one
exhaust a reach; a list in which a failing insertion has left a copy behind, and the
table still has to have room, takes seven, and is covered by
`ScanAlwaysFindsSlot`. In `table`, blocks
of one or two entries take 2 to 5 units against 3 per filter, so blocks share filters
and skip some. In `db_impl` the write buffer holds no more than one batch, so each
write may switch the memtable, flush, compact and remove files, with triggers at one
file; three writes put one in each of a table, `imm_` and `mem_`. In `compactions`
versions of one key end up in three levels with other keys around them, level 0
reaches its trigger, level 1 its size, and the two events are two of snapshots,
reads, manual requests, seek charges and the failure. In `environment` both caches
hold one entry, the handle table starts with one bucket and grows, both limiters have
one permit, two threads use two tables of one shard; one of two processes has two
databases that may share a directory; a buffer of two bytes gets appends of one and
four; log blocks of five bytes get records of none to three fragments; a repair meets
a sound table, a damaged one and a log. `Max...` constants are the bounds; when they
are used up the system rests, which is why deadlock is not checked there (nor for a
builder, a filter or a repair that is finished). Threads are symmetric in the
`db_impl` runs without liveness.

**Fairness.** `pm_filter`: the calling thread runs (weak fairness of the insertion's
steps); nothing is assumed of evictions and power failures. `db_impl_returns`: weak
fairness of each writer thread, of the background thread and of the end of the
destructor. `compactions`: of the background thread and of the threads waiting for a
manual compaction. `environment`: of a database's call in progress and of the
background threads of `PosixEnv`. The operating system schedules all of these;
callers, crashes, faults and Open get none. A signalled thread is enabled until it
runs and a waiting one is not enabled, so a lost wakeup shows as a violation. Where
TLC's `ENABLED` is costly the same fairness is written out as "its condition is false
again and again, or it takes a step again and again".

## 4. Findings

With a run each:

- **`CreateFilter` drops keys silently** (`util/wormhole.cc:152`, run
  `wormhole_policy_contract`). The result of `InsertItem` is ignored; with many
  copies of one key (64 at full scale) another key of the same home bucket is not
  stored and `KeyMayMatch` denies it, against `filter_policy.h:47-48`. Keys whose
  insertion succeeded always match.
- **Writing goes on behind a torn log record** (`db_impl.cc:1230` against
  `options.h:184-186`, run `db_impl_torn_record`): a failed `AddRecord`, unlike a
  failed sync, sets no background error. The same loss arises with `reuse_logs` when
  a machine crash tears the tail of the log that is then appended to
  (`db_impl.cc:478`).
- **A flush during a manual compaction can land in the gap the compaction closes**
  (`db_impl.cc:925` against `version_set.cc:700` and `:723`, run `compactions_gap`):
  the level of a flushed memtable is chosen without regard to the outputs of the
  compaction that is running, and two files of one level overlap. The run
  `compactions` keeps flushes out of manual compactions (`QuietManual`) and shows
  that the levels stay disjoint otherwise.

Met while modelling, without a run of their own:

- A synchronous write does not cover earlier ones (`db_impl.cc:1374` against
  `doc/index.md:121-124`): the old log is not synced when the memtable is switched.
  `SyncedWriteCoversEarlierOnes` in `DBImpl` states the sentence of the manual.
- A flush may be swallowed (`db_impl.cc:1302` against `db_impl.h:57`): a null batch
  behind other writers completes with their group. `FlushedWhenReturned` speaks of
  flushes that got to the front.
- `reuse_logs` trusts an unsynced MANIFEST edit (`db_impl.cc:1527`): Open removes a
  log on its account, and a second machine crash takes the edit back. For this
  reason `db_impl_faults`, with two crashes, has `reuse_logs` off.
- A background error lets the caller of a manual compaction go, and the caller sets
  `manual_compaction_` to null; `BackgroundCompaction`, still at work on it,
  dereferences the null pointer (`db_impl.cc:768-779`). The model has this as
  `crashed`; `ManualPointsToCaller` says that it takes a background error, and that
  the pointer never leads to a caller that returned.
- `LockFile` does not exclude other processes after a refused second `LockFile` of
  the same process: its `close()` drops the record lock the first one holds.
  `LockExcludesOthers` in `PosixEnv` is what `env.h` promises;
  `OpenTwiceOnlyWhenDropped` is what holds.
- A direct I/O `Read` beyond the end of the file returns `n` bytes
  (`env_posix.cc:328`) where `env.h` says it may return fewer; `ReadsReturnTheFile`
  therefore asks of it only blocks inside the file.
- One I/O error during a repair can leave a damaged table neither archived nor
  listed (`repair.cc:290` says it is archived), and a repair that dies between
  archiving a table and renaming its copy leaves its entries only in `lost/`; the
  properties of `Repair` say what remains true: without a failing call no entry
  leaves the directory and its `lost/`, and a finished repair lists sound tables only.
- A copy is listed with what the scan saw, not with what was copied (`repair.cc:261`,
  `:276`, `:340`). When a read fails in `ScanTable` and succeeds in `RepairTable`,
  the MANIFEST records too small a last sequence number (and too narrow bounds) for a
  table that is otherwise whole, and the repair returns OK; a further repair
  mends it. `RepairedDatabaseIsSound` excepts these tables (`misread`) from its
  statement on sequence numbers, and no others.
- A file in `lost/` is not safe from a later repair after one failing call:
  `FindFiles` does not look there, so the number of an archived table can be given
  out again, and `ArchiveFile` renames over what has that name. One failing call and
  three deaths of the process in four repairs are enough to lose a sound table
  (`repair.cc:110-118` and `:414-423`); `replaced` records such files.

## 5. Proofs

Every theorem holds for every value of the constants; the eight proof modules hold no
step without a proof.

| Theorem | States |
| --- | --- |
| `PMWormholeFilterProofs!TypeCorrect` | `Spec => []TypeOK` |
| `PMWormholeFilterProofs!NoSignatureLost` | `Spec => []NoFalseNegative` |
| `PMWormholeFilterProofs!LookupCorrect` | `Spec => []LookupNeverMisses` |
| `PMWormholeFilterProofs!WindowStaysFull` | `Spec => []WindowFull` |
| `PMWormholeFilterProofs!DurableNeverLost` | `Spec => DurableSurvives` |
| `PMWormholeFilterProofs!LoopDescends` | `Spec => [][Descent]_vars` |
| `PMWormholeFilterCallsProofs!Refinement` | `CSpec => ImplementsCountingFilter` |
| `WormholePolicyProofs!ScanAlwaysFindsSlot` | `Spec => []ScanFindsSlot` |
| `WormholePolicyProofs!AcceptedKeysAlwaysMatch` | `Spec => []AcceptedKeysMatch` |
| `MemTableProofs!LookupsFindPublished` | `MemSpec => []GetFindsPublished` |
| `MemTableProofs!SearchesReadInitialized` | `MemSpec => []ReadsInitialized` |
| `PosixEnvProofs!OneOpen` | `PESpec => []OneOpenPerProcess` |
| `PosixEnvProofs!OpenTwice` | `PESpec => []OpenTwiceOnlyWhenDropped` |
| `PosixEnvProofs!WorkWhileLocked` | `PESpec => []WorkOnlyWhileLocked` |
| `PosixFileProofs!BytesInOrder` | `WFSpec => []ContentsFollowAppends` |
| `PosixFileProofs!SyncedBytesKept` | `WFSpec => []SyncedBytesStay` |
| `PosixFileProofs!BlocksReadBack` | `BlockReadsRight` of every file, offset and length |
| `RepairProofs!RepairNeverDestroys` | `RPSpec => []RepairDestroysNothing` |
| `RepairProofs!RepairedIsAlwaysSound` | `RPSpec => []RepairedDatabaseIsSound` |

**The filter.** Assumptions: at least one bucket, one slot, one position of reach and
two fingerprint values; keys are naturals; `num_buckets_` is what init computes. One
bucket requires `max_num_keys >= 4`. `IInv` is `TypeOK`, `NoFalseNegative`,
`NoTagWithoutFingerprint` and `WindowFull`. No part is inductive alone: that a move
loses nothing needs the moved tag to be a stored tag in another slot than the one it
is copied to. The first follows because the candidate window lies in the stretch the
scan found full (`WindowFull`), the second because that stretch is shorter than the
ring (`ModDistinct`). A tag in a slot belongs to one signature only (`OneSignature`,
by cancelling the distance modulo the ring), so a move keeps each signature's count
of slots outside the scratch slot (`MoveKeepsCount`). Lookup is membership of
`SlotsOf` (`LookupIsSlotsOf`). `DurableNeverLost` follows action by action: a moved
tag's copy is persisted before its slot becomes scratch. `LoopDescends` is the safety
half of `InsertReturns`: a turn of the loop that does not end the call leaves the
signature alone and brings the empty slot nearer the home bucket, which it never
reaches. The step from there to termination needs fairness and is TLC's.

**The refinement.** `stored` is the number of slots of a signature outside the
scratch slot, `safe` the signatures with a durable copy among them. `IInv` has to be
strengthened by `StaleIsCopied`: a tag left in the scratch slot has another copy, the
one just made of it. Then each action maps to one abstract step or to none: a move
swaps one slot for another (`SwapCount`, `MovedTagOfSignature`); an insertion that
gives up leaves the stale tag as a second copy, of a signature that is present and is
not the inserted one, because the scratch slot is out of the inserted one's reach
(`OutOfReachIsForeign`); placing adds one slot and overwrites none that counts; a
deletion removes one.

**The policy.** Assumptions: at least one slot, one position of reach and two
fingerprint values; keys are naturals; lists of any length up to `MaxKeys`.
`PolicyInv` carries, beside the types, that an accepted key is found, and while tags
are moved found in a slot that is not about to be overwritten (`Found`); that the
buckets up to the slot to be filled are full (`RunningInsert`); and that at most one
slot is used per key whose insertion began, copies left by failures included. The
last conjunct gives every scan its empty slot, because the table that the rounding
makes always has more slots than the list has keys (`UpperPower`, `TableHasRoom`).

**The memtable.** Assumptions: at least one level; user keys are naturals; one
thread inserts, one looks a key up, any heights, keys and interleavings. `ListInv`
says that each pointer of a level leads to the next node of that level and that the
nodes of a level are on all levels below; `SearchInv` and `LinkInv` say what the
inserter has found and linked so far; `GetInv` that the lookup has passed no entry it
may see. Linking bottom up keeps `ListInv` at every step (`LinkKeepsList`), raising
the height before the node is linked does too (`RaiseKeepsList`), and an entry that
appears behind the lookup's position is newer than its snapshot.

**The locks and the queue.** Assumptions: each database belongs to a process, and the
bounds are naturals; any number of processes, databases and directories.
`LockInv`: a database between entering the lock table and leaving it has its
directory there and is the only one of its process that has (`TableInv`); one that
holds the lock and was not deprived of it has the system's record lock
(`RecordInv`). `WorkInv`: every item of a queue is right in its place (`ItemOK`),
what a background thread runs is right (`RunningOK`), and work that
`background_compaction_scheduled_` announces is queued or running for a database
that has its lock (`ScheduledOK`).

**The files.** Assumptions: the buffer holds at least a byte, appends at least one.
`FileInv` says that byte k of the file with the buffer behind it is
ascending in k, at most the number of bytes appended, and k itself as long as none
was lost (`OrderInv`), and has `SyncedBytesStay` as a conjunct. Every write is
described by `Moved(n)`: the file and the buffer hold a first part of what they held
with the n new bytes behind it, and all of it unless a byte was lost. `AppendMoved`
shows this for the four outcomes of `Append`, `BufferMoved` for `FlushBuffer`.
`BlocksReadBack` needs only that the aligned window covers the block
(`AlignedBefore`).

**The repair.** Assumptions: finitely many initial tables and logs, each with
finitely many entries, no number used for both; any number of repairs, failures and
deaths. `RepairInv` (`RepairInvProofs`) holds the numbers in use below the next one to be given out
(`Numbers`), what each phase has completed (`Phases`, `Copies`), that a table to be
listed is sound and within `max_sequence` (`ListedTables`), which for a copy needs
that the scan saw all that is copied unless a read failed (`Scanned`), and that every
entry is somewhere (`AllKept`, `AllAccounted`). That no rename in `lost/` replaces
anything before the first failure takes a conjunct of its own, `WithoutFailures`: the
directory always keeps a table with a number at least as large as any in `lost/`, so
none is given out twice.

**Only model-checked**: liveness (`InsertReturns`, `CallsReturn`, `CloseReturns`,
`CloseFinishes`, `BackgroundSettles`, `ManualReturns`), which needs fairness and is
out of the prover's reach, as are `ENABLED` and induction over recursive data, hence
also reading a file in pieces (`ReadAll`) and what a table builder makes of a sequence
of entries. Modules with recursive operators are out of its reach too: the cursors,
the log format, the caches, `VersionSet` and with it `Compactions`. `DBImpl` is
model-checked only: its invariants relate most of the state to most of the rest, and
no inductive form of them has been worked out.

## 6. Mutants

Every property of a passing run has a mutant in `PROJECT.json`: a definition of the
code changed as a bug would change it (a distance not updated, a move not persisted,
a group that ignores sync, a file number not marked as used, a filter told the wrong
offset, a handle freed while shared, a lock table not consulted ...), under which TLC
finds the property violated. The mutated forms stand before the definitions they
replace, marked "Mutant".

## 7. Not modelled

- **PM filter**: `pmwormholefilter_bytes` and `_info` only read. `init` for fewer than
  four keys makes no bucket, and a second `init` without `destroy` abandons the first
  array (`hpp:94`); both are outside the assumptions. The packing of tags in a word
  and `hasvalue16` are abstracted to records.
- **Bytes**: prefix compression, varints, checksums, compression, the footer, the
  encoding of edits and batches. They are pure functions that the models use as
  given; corruption is modelled by its result (a block or record that cannot be
  read).
- **DBImpl**: torn MANIFEST records, CURRENT and its rename, `paranoid_checks`, I/O
  errors inside Open, `GetProperty`, `GetApproximateSizes`.
- **Leaks**: the buffer of `Table::ReadFilter` is never freed (`table.cc:128-131`), and
  a failing `EnableDirectIO` loses its descriptor; no property counts memory.
- **Environments** other than POSIX, test environments, the logger, C bindings,
  arena, dump tools, benchmarks, Bloom filter, hashing, the portability layer: no
  state shared with the rest beyond what the models of their users have; `components`
  gives each reason.
