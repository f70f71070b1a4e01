------------------------------ MODULE LRUCache -----------------------------
(***************************************************************************)
(* The sharded LRU cache (leveldb/util/cache.cc) as operators: what a call *)
(* makes of the cache.  A call holds the mutex of its shard from beginning *)
(* to end, so it is one step of whoever makes it.                          *)
(*                                                                         *)
(* An LRUHandle is known by the address malloc gave it, the least one not  *)
(* in use, so that a handle kept too long may come to mean another entry.  *)
(* The values of the entries whose deleter a call has run are left in      *)
(* "deleted", one occurrence per run, for the caller to act on.            *)
(***************************************************************************)
EXTENDS Integers, Sequences, FiniteSets, SequencesExt

CONSTANTS
  InitialLength,  \* buckets of an empty HandleTable (4 in the code)
  NumShards,      \* kNumShards
  HashesPerShard  \* 2^(32 - kNumShardBits)

ASSUME CacheConstantsAssumption ==
  {InitialLength, NumShards, HashesPerShard} \subseteq Nat \ {0}

none == 0   \* nullptr

-----------------------------------------------------------------------------
(* HandleTable: chains of handles, hashed by the low bits of the hash. *)

Buckets(c) == DOMAIN c.list

BucketOf(c, hash) == hash % Cardinality(Buckets(c))

\* The position in its chain of the entry for key, or the one after the last.
FindPointer(c, key, hash) ==
  LET chain == c.list[BucketOf(c, hash)]
      found == {i \in 1 .. Len(chain) :
                  c.e[chain[i]].hash = hash /\ c.e[chain[i]].key = key}
  IN  IF found = {} THEN Len(chain) + 1
      ELSE CHOOSE i \in found : \A j \in found : i <= j

HandleTableLookup(c, key, hash) ==
  LET chain == c.list[BucketOf(c, hash)]
      i     == FindPointer(c, key, hash)
  IN  IF i > Len(chain) THEN none ELSE chain[i]

\* The least power of two times InitialLength with room for n.
RECURSIVE LengthFrom(_, _)
LengthFrom(n, length) == IF length >= n THEN length ELSE LengthFrom(n, 2 * length)

\* Mutant: entries are moved to the bucket of the old, smaller table.
ResizeOldBuckets(c) ==
  LET length == LengthFrom(c.elems, InitialLength)
      Push(list, h) == [list EXCEPT ![BucketOf(c, c.e[h].hash)] = <<h>> \o @]
      all == FoldLeft(LAMBDA s, b : s \o c.list[b - 1], <<>>,
                      [b \in 1 .. Cardinality(Buckets(c)) |-> b])
  IN  [c EXCEPT !.list = FoldLeft(Push, [b \in 0 .. length - 1 |-> <<>>], all)]

Resize(c) ==
  LET length == LengthFrom(c.elems, InitialLength)
      Push(list, h) == [list EXCEPT ![c.e[h].hash % length] = <<h>> \o @]
      all == FoldLeft(LAMBDA s, b : s \o c.list[b - 1], <<>>,
                      [b \in 1 .. Cardinality(Buckets(c)) |-> b])
  IN  [c EXCEPT !.list = FoldLeft(Push, [b \in 0 .. length - 1 |-> <<>>], all)]

\* h takes the place of the entry with its key, if there is one.
HandleTableInsert(c, h) ==
  LET b   == BucketOf(c, c.e[h].hash)
      i   == FindPointer(c, c.e[h].key, c.e[h].hash)
      new == i > Len(c.list[b])
      c1  == [c EXCEPT !.list[b] = IF new THEN Append(@, h)
                                   ELSE [@ EXCEPT ![i] = h],
                       !.elems   = IF new THEN @ + 1 ELSE @]
  IN  IF new /\ c1.elems > Cardinality(Buckets(c)) THEN Resize(c1) ELSE c1

HandleTableRemove(c, key, hash) ==
  LET b == BucketOf(c, hash)
      i == FindPointer(c, key, hash)
  IN  IF i > Len(c.list[b]) THEN c
      ELSE [c EXCEPT !.list[b] = RemoveAt(@, i), !.elems = @ - 1]

-----------------------------------------------------------------------------
(* LRUCache: lru_ from the oldest entry to the newest; in_use_ in no order *)
(* that matters.                                                           *)

EmptyCache(capacity) ==
  [capacity |-> capacity, usage |-> 0, elems |-> 0,
   list |-> [b \in 0 .. InitialLength - 1 |-> <<>>],
   e |-> <<>>, lru |-> <<>>, in_use |-> {}, deleted |-> <<>>]

LRU_Remove(c, h) ==
  [c EXCEPT !.lru = SelectSeq(@, LAMBDA x : x # h), !.in_use = @ \ {h}]

\* Mutant: the entry stays on lru_ while a client holds it.
RefInPlace(c, h) == [c EXCEPT !.e[h].refs = @ + 1]

Ref(c, h) ==
  LET c1 == IF c.e[h].refs = 1 /\ c.e[h].in_cache
            THEN [LRU_Remove(c, h) EXCEPT !.in_use = @ \cup {h}] ELSE c
  IN  [c1 EXCEPT !.e[h].refs = @ + 1]

\* Deallocate, or move to lru_ when only the cache's reference is left.
Unref(c, h) ==
  LET c1   == [c EXCEPT !.e[h].refs = @ - 1]
      refs == c1.e[h].refs
  IN  CASE refs = 0 ->
             [c1 EXCEPT !.e = [x \in DOMAIN @ \ {h} |-> @[x]],
                        !.deleted = Append(@, c.e[h].value)]
        [] refs = 1 /\ c.e[h].in_cache ->
             [LRU_Remove(c1, h) EXCEPT !.lru = Append(@, h)]
        [] OTHER -> c1

\* Mutant: the usage of the entry is not given back.
FinishEraseKeepsUsage(c, h) ==
  IF h = none THEN c
  ELSE Unref([LRU_Remove(c, h) EXCEPT !.e[h].in_cache = FALSE], h)

FinishErase(c, h) ==
  IF h = none THEN c
  ELSE Unref([LRU_Remove(c, h) EXCEPT !.e[h].in_cache = FALSE,
                                      !.usage = @ - c.e[h].charge], h)

\* Remove from the hash table and finish.
EraseKey(c, key, hash) ==
  FinishErase(HandleTableRemove(c, key, hash), HandleTableLookup(c, key, hash))

\* Entries nobody uses are evicted, the oldest first.
RECURSIVE EvictWhile(_, _)
EvictWhile(c, all) ==
  IF c.lru # <<>> /\ (all \/ c.usage > c.capacity)
  THEN EvictWhile(EraseKey(c, c.e[c.lru[1]].key, c.e[c.lru[1]].hash), all)
  ELSE c

Addresses(c) == 1 .. Cardinality(DOMAIN c.e) + 1

\* The handle malloc returns next.
NewHandle(c) == CHOOSE h \in Addresses(c) :
                  h \notin DOMAIN c.e /\ \A g \in Addresses(c) : g < h => g \in DOMAIN c.e

\* Mutant: the entry an insertion replaces stays where it is.
LRUCacheInsertForgetsOld(c, key, hash, value, charge) ==
  LET h  == NewHandle(c)
      en == [key |-> key, hash |-> hash, value |-> value, charge |-> charge,
             refs |-> 2, in_cache |-> TRUE]
      c1 == [c EXCEPT !.e = [x \in DOMAIN @ \cup {h} |-> IF x = h THEN en ELSE @[x]],
                      !.in_use = @ \cup {h}, !.usage = @ + charge]
  IN  EvictWhile(IF c.capacity > 0 THEN HandleTableInsert(c1, h) ELSE c1, FALSE)

\* Mutant: the entry an insertion replaces is deallocated at once.
LRUCacheInsertFreesOld(c, key, hash, value, charge) ==
  LET h   == NewHandle(c)
      old == HandleTableLookup(c, key, hash)
      en  == [key |-> key, hash |-> hash, value |-> value, charge |-> charge,
              refs |-> 2, in_cache |-> TRUE]
      c1 == [c EXCEPT !.e = [x \in DOMAIN @ \cup {h} |-> IF x = h THEN en ELSE @[x]],
                      !.in_use = @ \cup {h}, !.usage = @ + charge]
      c2 == HandleTableInsert(c1, h)
  IN  IF old = none THEN EvictWhile(c2, FALSE)
      ELSE [LRU_Remove(c2, old) EXCEPT !.usage = @ - c.e[old].charge,
              !.e = [x \in DOMAIN @ \ {old} |-> @[x]],
              !.deleted = Append(@, c.e[old].value)]

\* With no capacity the entry belongs to the caller alone.
LRUCacheInsert(c, key, hash, value, charge) ==
  LET h      == NewHandle(c)
      caches == c.capacity > 0
      old    == HandleTableLookup(c, key, hash)
      en     == [key |-> key, hash |-> hash, value |-> value, charge |-> charge,
                 refs |-> IF caches THEN 2 ELSE 1, in_cache |-> caches]
      c1 == [c EXCEPT !.e = [x \in DOMAIN @ \cup {h} |-> IF x = h THEN en ELSE @[x]]]
      c2 == [c1 EXCEPT !.in_use = @ \cup {h}, !.usage = @ + charge]
  IN  EvictWhile(IF caches THEN FinishErase(HandleTableInsert(c2, h), old) ELSE c1,
                 FALSE)

-----------------------------------------------------------------------------
(* ShardedLRUCache: each call goes to the shard of its key's hash. *)

Shard(hash) == (hash \div HashesPerShard) % NumShards

ShardedLRUCache(capacity) ==
  [s \in 0 .. NumShards - 1 |-> EmptyCache((capacity + NumShards - 1) \div NumShards)]

Lookup(cache, key, hash) == HandleTableLookup(cache[Shard(hash)], key, hash)

\* The cache after a Lookup, which takes a reference when it finds the key.
AfterLookup(cache, key, hash) ==
  LET h == Lookup(cache, key, hash)
  IN  IF h = none THEN cache ELSE [cache EXCEPT ![Shard(hash)] = Ref(@, h)]

Insert(cache, key, hash, value, charge) ==
  [cache EXCEPT ![Shard(hash)] = LRUCacheInsert(@, key, hash, value, charge)]

\* A handle carries its hash.
Release(cache, h, hash) == [cache EXCEPT ![Shard(hash)] = Unref(@, h)]

Erase(cache, key, hash) == [cache EXCEPT ![Shard(hash)] = EraseKey(@, key, hash)]

Prune(cache) == [s \in DOMAIN cache |-> EvictWhile(cache[s], TRUE)]

\* The destructor lets go of what lru_ holds; nothing may be in use.
DeleteCache(cache) ==
  [s \in DOMAIN cache |->
     FoldLeft(LAMBDA c, h : Unref([c EXCEPT !.e[h].in_cache = FALSE], h),
              cache[s], cache[s].lru)]

Value(cache, h, hash) == cache[Shard(hash)].e[h].value

\* The values deleted by the last call, and the cache without that record.
Deleted(cache) ==
  FoldLeft(LAMBDA acc, s : acc \o cache[s - 1].deleted, <<>>,
           [s \in 1 .. NumShards |-> s])

Settled(cache) == [s \in DOMAIN cache |-> [cache[s] EXCEPT !.deleted = <<>>]]

-----------------------------------------------------------------------------
\* What LRUCache keeps true of a shard between calls: an entry is on lru_ when
\* the cache alone refers to it and on in_use_ when a client does too, the hash
\* table finds exactly the entries in the cache, and usage_ is their charge.
\* "held" tells how many clients hold a handle.
Consistent(c, held(_)) ==
  LET cached == {h \in DOMAIN c.e : c.e[h].in_cache}
      Charge(S) == FoldLeft(LAMBDA n, h : n + c.e[h].charge, 0, SetToSeq(S))
  IN  /\ \A h \in DOMAIN c.e :
           /\ c.e[h].refs = held(h) + (IF c.e[h].in_cache THEN 1 ELSE 0)
           /\ c.e[h].refs > 0
           /\ (c.e[h].in_cache <=> HandleTableLookup(c, c.e[h].key, c.e[h].hash) = h)
      /\ Range(c.lru) = {h \in cached : held(h) = 0}
      /\ c.in_use = cached \ Range(c.lru)
      /\ IsInjective(c.lru)
      /\ c.elems = Cardinality(cached)
      /\ c.usage = Charge(cached)

=============================================================================
