----------------------------- MODULE TableCache ----------------------------
(***************************************************************************)
(* Open tables and cached blocks: TableCache (leveldb/db/table_cache.cc),  *)
(* Table::Open and Table::BlockReader (leveldb/table/table.cc), ReadBlock  *)
(* (leveldb/table/format.cc) and the read-only files of PosixEnv with      *)
(* their limiters (leveldb/util/env_posix.cc).                             *)
(*                                                                         *)
(* Threads look a table up, open it when it is not in the cache, read      *)
(* blocks of it and let go of them.  The caches are locked per call and    *)
(* the limiters are atomic counters: everything in between interleaves.    *)
(* A version keeps the files its readers use, so a table is evicted and    *)
(* its file removed only when no thread is at it.                          *)
(***************************************************************************)
EXTENDS LRUCache

CONSTANTS
  Readers,        \* threads
  Tables,         \* file numbers, naturals
  OldNames,       \* the tables whose file has the old suffix .sst
  Compressed,     \* the tables whose blocks are compressed
  Offsets,        \* offsets of blocks, naturals
  DirectIO,       \* the values options.using_direct_io may have
  TableCapacity,  \* entries of the table cache
  BlockCapacity,  \* charge the block cache may hold
  MaxMmaps,       \* MaxMmaps()
  MaxOpenFiles,   \* MaxOpenFiles()
  MaxFinds,       \* bound: calls of FindTable
  MaxReads,       \* bound: calls of BlockReader
  MaxReadFaults   \* bound: system calls that fail

ASSUME TableCacheAssumption ==
  /\ Tables \cup Offsets \subseteq Nat
  /\ OldNames \cup Compressed \subseteq Tables
  /\ {TableCapacity, BlockCapacity, MaxMmaps, MaxOpenFiles,
      MaxFinds, MaxReads, MaxReadFaults} \subseteq Nat

VARIABLES
  using_direct_io,   \* options
  cache_,            \* TableCache::cache_
  block_cache,       \* options.block_cache
  last_id_,          \* the last id it gave out
  live,              \* the tables that belong to a live version
  mmap_limiter_,     \* acquires_allowed_ of the limiters
  fd_limiter_,
  open,              \* the RandomAccessFile objects, by address
  reader,            \* what each thread is doing
  closed,            \* the database has been deleted
  finds, reads, read_faults

tcvars == <<using_direct_io, cache_, block_cache, last_id_, live, mmap_limiter_,
            fd_limiter_, open, reader, closed, finds, reads, read_faults>>

limiters == <<mmap_limiter_, fd_limiter_>>
counters == <<finds, reads, read_faults>>

-----------------------------------------------------------------------------
Resting == [pc |-> "resting"]

\* A thread in FindTable, and one with a handle of the cache.
Finding(pc, n, name)    == [pc |-> pc, number |-> n, name |-> name]
Opening(n, table)       == [pc |-> "opening", number |-> n, table |-> table]
Holding(n, h, table)    == [pc |-> "holding", number |-> n, handle |-> h, table |-> table]
AtBlock(r, pc, offset)  == [pc |-> pc, number |-> r.number, handle |-> r.handle,
                            table |-> r.table, offset |-> offset]
WithBlock(r, bh, block) == [pc |-> "reading", number |-> r.number, handle |-> r.handle,
                            table |-> r.table, offset |-> r.offset, bh |-> bh,
                            block |-> block]

NameOf(n) == IF n \in OldNames THEN "sst" ELSE "ldb"

\* The hash of a key of either cache.
TableHash(n) == n
BlockHash(cache_id, offset) == cache_id + offset

Fault == read_faults < MaxReadFaults /\ read_faults' = read_faults + 1
Fine  == UNCHANGED read_faults

NewAddress == CHOOSE a \in 1 .. Cardinality(DOMAIN open) + 1 : a \notin DOMAIN open

Opened(kind) ==
  [a \in DOMAIN open \cup {NewAddress} |-> IF a = NewAddress THEN kind ELSE open[a]]

CountKind(tables, kind) == Len(SelectSeq(tables, LAMBDA v : v.kind = kind))

\* Mutant: the destructor of a mapped file forgets the limiter.
MmapReleasesNone(tables) == 0

\* What the destructors give back to the limiters; a file without a descriptor
\* of its own ("temporary") gives nothing back.
MmapReleases(tables) == CountKind(tables, "mmap")
FdReleases(tables)   == CountKind(tables, "fd")

\* DeleteEntry for each of these tables.
CloseFiles(tables) ==
  /\ open' = [a \in DOMAIN open \ {tables[i].file : i \in DOMAIN tables} |-> open[a]]
  /\ mmap_limiter_' = mmap_limiter_ + MmapReleases(tables)
  /\ fd_limiter_' = fd_limiter_ + FdReleases(tables)

\* The table cache becomes cache, and what a call deleted is closed.
SetCache(cache) == cache_' = Settled(cache) /\ CloseFiles(Deleted(cache))

-----------------------------------------------------------------------------
TCInit ==
  /\ using_direct_io \in DirectIO
  /\ cache_ = ShardedLRUCache(TableCapacity)
  /\ block_cache = ShardedLRUCache(BlockCapacity)
  /\ last_id_ = 0
  /\ live = Tables
  /\ mmap_limiter_ = MaxMmaps
  /\ fd_limiter_ = MaxOpenFiles
  /\ open = <<>>
  /\ reader = [t \in Readers |-> Resting]
  /\ closed = FALSE
  /\ finds = 0 /\ reads = 0 /\ read_faults = 0

(* FindTable. *)

FindTable(t, n) ==
  /\ ~closed /\ reader[t] = Resting /\ n \in live
  /\ finds < MaxFinds /\ finds' = finds + 1
  /\ cache_' = AfterLookup(cache_, n, TableHash(n))
  /\ LET h == Lookup(cache_, n, TableHash(n))
     IN  reader' = [reader EXCEPT ![t] =
                      IF h = none THEN Finding("open", n, "ldb")
                      ELSE Holding(n, h, Value(cache_, h, TableHash(n)))]
  /\ UNCHANGED <<using_direct_io, block_cache, last_id_, live, limiters, open,
                 closed, reads, read_faults>>

At(t, pc) == reader[t].pc = pc

Continue(t, pc) == reader' = [reader EXCEPT ![t].pc = pc]

\* NewRandomAccessFileForTable failed: the old name is tried next, and after
\* it FindTable returns the error, which is not cached.
AttemptFailed(t) ==
  reader' = [reader EXCEPT ![t] =
               IF @.name = "ldb" THEN Finding("open", @.number, "sst") ELSE Resting]

\* Direct I/O files are never mapped.
NewRandomAccessFileForTable == IF using_direct_io THEN "fd" ELSE "mmap"

\* open(2), by either of the environment's functions.
OpenFile(t) ==
  /\ At(t, "open")
  /\ \/ /\ reader[t].name = NameOf(reader[t].number) /\ Fine
        /\ Continue(t, NewRandomAccessFileForTable)
     \/ reader[t].name # NameOf(reader[t].number) /\ Fine /\ AttemptFailed(t)
     \/ reader[t].name = NameOf(reader[t].number) /\ Fault /\ AttemptFailed(t)
  /\ UNCHANGED <<using_direct_io, cache_, block_cache, last_id_, live, limiters,
                 open, closed, finds, reads>>

\* Limiter::Acquire takes one in any case, and gives it back in a second step
\* when there was none.
AcquireMmap(t) ==
  /\ At(t, "mmap")
  /\ mmap_limiter_' = mmap_limiter_ - 1
  /\ Continue(t, IF mmap_limiter_ > 0 THEN "map" ELSE "undo_mmap")
  /\ UNCHANGED <<using_direct_io, cache_, block_cache, last_id_, live, fd_limiter_,
                 open, closed, counters>>

UndoMmap(t) ==
  /\ At(t, "undo_mmap")
  /\ mmap_limiter_' = mmap_limiter_ + 1
  /\ Continue(t, "fd")
  /\ UNCHANGED <<using_direct_io, cache_, block_cache, last_id_, live, fd_limiter_,
                 open, closed, counters>>

\* The file object exists; Table::Open is next.
MakeFile(t, kind) ==
  /\ open' = Opened(kind)
  /\ reader' = [reader EXCEPT ![t] =
                  Opening(@.number, [number |-> @.number, file |-> NewAddress,
                                     kind |-> kind, cache_id |-> 0])]

\* The rest of NewRandomAccessFile: the size of the file is asked for and the
\* file is mapped, or the region goes back to the limiter.
Map(t) ==
  /\ At(t, "map")
  /\ \/ MakeFile(t, "mmap") /\ Fine /\ UNCHANGED mmap_limiter_
     \/ /\ Fault /\ AttemptFailed(t)
        /\ mmap_limiter_' = mmap_limiter_ + 1
        /\ UNCHANGED open
  /\ UNCHANGED <<using_direct_io, cache_, block_cache, last_id_, live, fd_limiter_,
                 closed, finds, reads>>

\* The constructors of PosixRandomAccessFile and of its direct I/O twin.
AcquireFd(t) ==
  /\ At(t, "fd")
  /\ fd_limiter_' = fd_limiter_ - 1
  /\ IF fd_limiter_ > 0 THEN MakeFile(t, "fd")
     ELSE Continue(t, "undo_fd") /\ UNCHANGED open
  /\ UNCHANGED <<using_direct_io, cache_, block_cache, last_id_, live, mmap_limiter_,
                 closed, counters>>

UndoFd(t) ==
  /\ At(t, "undo_fd")
  /\ fd_limiter_' = fd_limiter_ + 1
  /\ MakeFile(t, "temporary")
  /\ UNCHANGED <<using_direct_io, cache_, block_cache, last_id_, live, mmap_limiter_,
                 closed, counters>>

\* Mutant: a table that shares the ids of another.
NewIdStays == last_id_

NewId == last_id_ + 1

\* Mutant: the file of a table that cannot be opened is forgotten.
AfterFailedOpenKeepsFile(t) ==
  /\ reader' = [reader EXCEPT ![t] = Resting]
  /\ UNCHANGED <<limiters, open>>

\* FindTable deletes the file and caches nothing.
AfterFailedOpen(t) ==
  /\ CloseFiles(<<reader[t].table>>)
  /\ reader' = [reader EXCEPT ![t] = Resting]

\* Table::Open reads the footer and the index block, either of which may fail.
TableOpen(t) ==
  /\ At(t, "opening")
  /\ \/ /\ last_id_' = NewId /\ Fine
        /\ reader' = [reader EXCEPT ![t].pc = "insert", ![t].table.cache_id = NewId]
        /\ UNCHANGED <<limiters, open>>
     \/ Fault /\ AfterFailedOpen(t) /\ UNCHANGED last_id_
  /\ UNCHANGED <<using_direct_io, cache_, block_cache, live, closed, finds, reads>>

\* Another thread may have inserted its own copy of the table meanwhile.
InsertTable(t) ==
  /\ At(t, "insert")
  /\ LET n == reader[t].number
         table == reader[t].table
     IN  /\ SetCache(Insert(cache_, n, TableHash(n), table, 1))
         /\ reader' = [reader EXCEPT ![t] =
                         Holding(n, NewHandle(cache_[Shard(TableHash(n))]), table)]
  /\ UNCHANGED <<using_direct_io, block_cache, last_id_, live, closed, counters>>

-----------------------------------------------------------------------------
(* BlockReader. *)

BlockKey(table, offset) == <<table.cache_id, offset>>

BlockReader(t, offset) ==
  /\ At(t, "holding") /\ reads < MaxReads /\ reads' = reads + 1
  /\ LET r    == reader[t]
         hash == BlockHash(r.table.cache_id, offset)
         h    == Lookup(block_cache, BlockKey(r.table, offset), hash)
     IN  /\ block_cache' = AfterLookup(block_cache, BlockKey(r.table, offset), hash)
         /\ reader' = [reader EXCEPT ![t] =
              IF h = none THEN AtBlock(r, "read", offset)
              ELSE WithBlock(AtBlock(r, "read", offset), h,
                             Value(block_cache, h, hash))]
  /\ UNCHANGED <<using_direct_io, cache_, last_id_, live, limiters, open, closed,
                 finds, read_faults>>

\* ReadBlock: an uncompressed block of a mapped file stays in the mapping; any
\* other is in memory of its own.
BlockOf(table, offset) ==
  [number |-> table.number, offset |-> offset,
   mapping |-> IF table.kind = "mmap" /\ table.number \notin Compressed
               THEN table.file ELSE none]

\* Mutant: every block may be cached.
AnyCachable(table) == TRUE

\* cachable: the block was read into a buffer and is the buffer's contents.
Cachable(table) == table.kind # "mmap" /\ table.number \notin Compressed

\* A block that is not cached is the reader's own.
ReadBlock(t) ==
  /\ At(t, "read")
  /\ LET r     == reader[t]
         hash  == BlockHash(r.table.cache_id, r.offset)
         block == BlockOf(r.table, r.offset)
     IN  \/ /\ Cachable(r.table) /\ Fine      \* and fill_cache
            /\ block_cache' = Settled(Insert(block_cache, BlockKey(r.table, r.offset),
                                             hash, block, 1))
            /\ reader' = [reader EXCEPT ![t] =
                            WithBlock(@, NewHandle(block_cache[Shard(hash)]), block)]
         \/ /\ Fine                            \* not cachable, or not fill_cache
            /\ reader' = [reader EXCEPT ![t] = WithBlock(@, none, block)]
            /\ UNCHANGED block_cache
         \/ /\ Fault
            /\ reader' = [reader EXCEPT ![t] = Holding(r.number, r.handle, r.table)]
            /\ UNCHANGED block_cache
  /\ UNCHANGED <<using_direct_io, cache_, last_id_, live, limiters, open, closed,
                 finds, reads>>

\* The iterator over the block is deleted: DeleteBlock or ReleaseBlock.
ReleaseBlock(t) ==
  /\ At(t, "reading")
  /\ LET r == reader[t]
     IN  /\ block_cache' =
              IF r.bh = none THEN block_cache
              ELSE Settled(Release(block_cache, r.bh,
                                   BlockHash(r.table.cache_id, r.offset)))
         /\ reader' = [reader EXCEPT ![t] = Holding(r.number, r.handle, r.table)]
  /\ UNCHANGED <<using_direct_io, cache_, last_id_, live, limiters, open, closed,
                 counters>>

\* The end of Get, or UnrefEntry when the iterator over the table is deleted.
ReleaseTable(t) ==
  /\ At(t, "holding")
  /\ SetCache(Release(cache_, reader[t].handle, TableHash(reader[t].number)))
  /\ reader' = [reader EXCEPT ![t] = Resting]
  /\ UNCHANGED <<using_direct_io, block_cache, last_id_, live, closed, counters>>

-----------------------------------------------------------------------------
\* RemoveObsoleteFiles evicts a table no version needs and removes its file.
Evict(n) ==
  /\ ~closed /\ n \in live
  /\ \A t \in Readers : reader[t] # Resting => reader[t].number # n
  /\ SetCache(Erase(cache_, n, TableHash(n)))
  /\ live' = live \ {n}
  /\ UNCHANGED <<using_direct_io, block_cache, last_id_, reader, closed, counters>>

\* Cache::Prune, called by the application.
PruneBlocks ==
  /\ ~closed
  /\ block_cache' = Settled(Prune(block_cache))
  /\ UNCHANGED <<using_direct_io, cache_, last_id_, live, limiters, open, reader,
                 closed, counters>>

\* ~DBImpl, when its readers are gone: both caches are deleted.
DeleteCaches ==
  /\ ~closed /\ \A t \in Readers : reader[t] = Resting
  /\ closed' = TRUE
  /\ SetCache(DeleteCache(cache_))
  /\ block_cache' = Settled(DeleteCache(block_cache))
  /\ UNCHANGED <<using_direct_io, last_id_, live, reader, counters>>

TCNext ==
  \/ \E t \in Readers :
       \/ \E n \in Tables : FindTable(t, n)
       \/ OpenFile(t)
       \/ AcquireMmap(t)
       \/ UndoMmap(t)
       \/ Map(t)
       \/ AcquireFd(t)
       \/ UndoFd(t)
       \/ TableOpen(t)
       \/ InsertTable(t)
       \/ \E offset \in Offsets : BlockReader(t, offset)
       \/ ReadBlock(t)
       \/ ReleaseBlock(t)
       \/ ReleaseTable(t)
  \/ \E n \in Tables : Evict(n)
  \/ PruneBlocks
  \/ DeleteCaches

TCSpec == TCInit /\ [][TCNext]_tcvars

-----------------------------------------------------------------------------
HasTable(t) == reader[t].pc \in {"holding", "read", "reading"}
HasBlock(t) == reader[t].pc = "reading" /\ reader[t].bh # none

TableEntries == UNION {{cache_[s].e[h] : h \in DOMAIN cache_[s].e} : s \in DOMAIN cache_}

BlockEntries == UNION {{block_cache[s].e[h] : h \in DOMAIN block_cache[s].e} :
                         s \in DOMAIN block_cache}

OpenOfKind(kind) == {a \in DOMAIN open : open[a] = kind}

ReadersAt(pcs) == {t \in Readers : reader[t].pc \in pcs}

\* A thread that FindTable gave a handle to finds the table it asked for behind
\* it, with its file open, until it releases the handle, and likewise the block
\* behind a handle of the block cache, although another thread may insert a
\* second copy of either in its place, the caches may evict to make room and
\* handles are allocated again (LRUCache::Insert, Unref).
HandlesStayValid ==
  \A t \in Readers :
    /\ HasTable(t) =>
         LET r == reader[t]
             c == cache_[Shard(TableHash(r.number))]
         IN  /\ r.handle \in DOMAIN c.e /\ c.e[r.handle].value = r.table
             /\ r.table.number = r.number
             /\ r.table.file \in DOMAIN open /\ open[r.table.file] = r.table.kind
    /\ HasBlock(t) =>
         LET r == reader[t]
             c == block_cache[Shard(BlockHash(r.table.cache_id, r.offset))]
         IN  r.bh \in DOMAIN c.e /\ c.e[r.bh].value = r.block

\* Reference counts are exact, the two lists and the hash table agree with them
\* and usage_ is the charge of the entries in the cache, for both caches, after
\* any interleaving of lookups, insertions of the same key by several threads,
\* evictions, erasures and growth of the table ("Invariant of lru_ list",
\* leveldb/util/cache.cc).
CachesConsistent ==
  ~closed =>
    /\ \A s \in DOMAIN cache_ :
         LET Held(h) == Cardinality({t \in Readers : HasTable(t)
                          /\ Shard(TableHash(reader[t].number)) = s
                          /\ reader[t].handle = h})
         IN  Consistent(cache_[s], Held)
    /\ \A s \in DOMAIN block_cache :
         LET Held(h) == Cardinality({t \in Readers : HasBlock(t)
                          /\ Shard(BlockHash(reader[t].table.cache_id,
                                             reader[t].offset)) = s
                          /\ reader[t].bh = h})
         IN  Consistent(block_cache[s], Held)

\* Nothing leaks and nothing is given back twice.  What a limiter still allows,
\* the files that hold one of it and the threads in the middle of acquiring add
\* up to its maximum, whatever failed on the way, and no more files than allowed
\* are ever mapped or kept open (Limiter::Acquire, Release); and every file
\* object has an owner who will delete it, the thread that is opening the table
\* or an entry of the table cache, so that none is left when the database is
\* closed (TableCache::FindTable, DeleteEntry).
FilesAccountedFor ==
  /\ mmap_limiter_ + Cardinality(OpenOfKind("mmap"))
       + Cardinality(ReadersAt({"map", "undo_mmap"})) = MaxMmaps
  /\ fd_limiter_ + Cardinality(OpenOfKind("fd"))
       + Cardinality(ReadersAt({"undo_fd"})) = MaxOpenFiles
  /\ Cardinality(OpenOfKind("mmap")) + Cardinality(ReadersAt({"map"})) <= MaxMmaps
  /\ Cardinality(OpenOfKind("fd")) <= MaxOpenFiles
  /\ DOMAIN open = {reader[t].table.file : t \in ReadersAt({"opening", "insert"})}
                     \cup {en.value.file : en \in TableEntries}

\* BlockReader hands out the block of the table and offset it was asked for,
\* although tables share one block cache and are closed and opened again while
\* their blocks stay in it; and a block that a reader or the block cache holds is
\* in memory of its own, or in the mapping of a file that is still mapped
\* ("mmap's ptr is null, no need for cache", leveldb/table/format.cc).
BlocksStayValid ==
  LET held == {reader[t].block : t \in ReadersAt({"reading"})}
              \cup {en.value : en \in BlockEntries}
  IN  /\ \A t \in ReadersAt({"reading"}) :
           /\ reader[t].block.number = reader[t].number
           /\ reader[t].block.offset = reader[t].offset
      /\ \A b \in held : b.mapping # none =>
           /\ b.mapping \in DOMAIN open /\ open[b.mapping] = "mmap"
           /\ \/ \E t \in ReadersAt({"reading"}) : reader[t].table.file = b.mapping
              \/ \E en \in TableEntries :
                   en.value.file = b.mapping /\ en.value.number = b.number

=============================================================================
