------------------------- MODULE PMWormholeFilter --------------------------
(***************************************************************************)
(* The persistent-memory wormhole filter (src/pm_wf/pmwormholefilter.hpp). *)
(*                                                                         *)
(* The program reads and writes the filter through the CPU cache.  A write *)
(* reaches the persistent medium when pmemobj_persist is called on its     *)
(* bucket (PMWriteTag) or whenever the hardware evicts the cache line.     *)
(* Moving a tag persists it; placing the new tag (WriteTag) and deleting   *)
(* one do not.  A power failure may strike between any two stores.         *)
(***************************************************************************)
EXTENDS WormholeTable

CONSTANTS
  Keys,         \* the uint64_t keys the program uses
  MaxNumKeys    \* max_num_keys: the argument of pmwormholefilter_init

ASSUME KeysAssumption == Keys \subseteq Nat

VARIABLES
  allocated,    \* the root object holds a filter (is not TOID_NULL)
  cache,        \* buckets_ as the program reads it
  pm,           \* buckets_ as the medium holds it
  op,           \* the insertion in progress
  live          \* ghost: successful inserts less successful deletes of a signature

vars == <<allocated, cache, pm, op, live>>

\* int((max_num_keys / SLOT_PER_BUK) / 0.8)
NumBucketsFor(max_num_keys) == ((max_num_keys \div SlotPerBuk) * 5) \div 4

ASSUME MaxNumKeysAssumption ==
  MaxNumKeys \in Nat /\ NumBuckets = NumBucketsFor(MaxNumKeys)

Idle == [busy |-> FALSE]

Inserting == [busy : {TRUE}, sig : Sig, cur : Nat, idx : TagIdx]

\* The slot the insertion in progress is about to fill.
Scratch == IF op.busy THEN {SlotAt(op.cur, op.idx)} ELSE {}

\* hasher_ returns the key itself.
hasher_(key) == key

SigOf(key) == SigOfHash(hasher_(key))

NoneLive == [s \in Sig |-> 0]

Init ==
  /\ allocated = FALSE
  /\ cache = EmptyTable
  /\ pm = EmptyTable
  /\ op = Idle
  /\ live = NoneLive

-----------------------------------------------------------------------------
(* One libpmemobj transaction each: all of it happens or none. *)

pmwormholefilter_init ==
  /\ ~op.busy
  /\ allocated' = TRUE
  /\ cache' = EmptyTable
  /\ pm' = EmptyTable
  /\ live' = NoneLive
  /\ UNCHANGED op

pmwormholefilter_destroy ==
  /\ ~op.busy
  /\ allocated' = FALSE
  /\ cache' = EmptyTable
  /\ pm' = EmptyTable
  /\ live' = NoneLive
  /\ UNCHANGED op

-----------------------------------------------------------------------------
(* Insertion. *)

\* Scan for the first empty slot; without one the call returns false and
\* nothing has changed.
pmwormholefilter_insert(key) ==
  /\ allocated /\ ~op.busy
  /\ LET s == SigOf(key)
     IN  \E i \in s.home .. s.home + NumBuckets - 1 : \E j \in TagIdx :
           /\ FirstEmpty(cache, s.home, i, j)
           /\ op' = [busy |-> TRUE, sig |-> s, cur |-> i, idx |-> j]
  /\ UNCHANGED <<allocated, cache, pm, live>>

OutOfReach == op.cur - op.sig.home >= MaxProb

\* pmemobj_persist of bucket b, or its write-back: every slot of it.
persist(p, c, b) == [x \in Slot |-> IF x[1] = b THEN c[x] ELSE p[x]]

\* Mutant: the moved tag is written but not persisted.
PMWriteTagVolatile(i, j, tag) ==
  /\ cache' = WriteTag(cache, i, j, tag)
  /\ pm' = pm

PMWriteTag(i, j, tag) ==
  /\ cache' = WriteTag(cache, i, j, tag)
  /\ pm' = persist(pm, cache', MOD(i))

\* Mutant: the loop forgets to take the candidate's slot as the empty one.
insert_displace_in_place ==
  /\ op.busy /\ OutOfReach
  /\ \E prob \in 1 .. MaxProb - 1 : \E j \in TagIdx :
       /\ Candidate(cache, op.cur, prob, j)
       /\ PMWriteTag(op.cur, op.idx, MovedTag(cache, op.cur, prob, j))
  /\ UNCHANGED <<allocated, op, live>>

\* One turn of the while loop that finds a candidate: copy its tag to the
\* empty slot, persist the copy, take the candidate's slot as the empty one.
insert_displace ==
  /\ op.busy /\ OutOfReach
  /\ \E prob \in 1 .. MaxProb - 1 : \E j \in TagIdx :
       /\ Candidate(cache, op.cur, prob, j)
       /\ PMWriteTag(op.cur, op.idx, MovedTag(cache, op.cur, prob, j))
       /\ op' = [op EXCEPT !.cur = @ - prob, !.idx = j]
  /\ UNCHANGED <<allocated, live>>

\* The turn that finds none: return false, the moves made stay made.
insert_fail ==
  /\ op.busy /\ OutOfReach
  /\ ~HasCandidate(cache, op.cur)
  /\ op' = Idle
  /\ UNCHANGED <<allocated, cache, pm, live>>

\* The slot is in reach: store the new tag, without persisting it, return true.
insert_place ==
  /\ op.busy /\ ~OutOfReach
  /\ cache' = WriteTag(cache, op.cur, op.idx,
                       [fpt |-> op.sig.fpt, dis |-> op.cur - op.sig.home])
  /\ op' = Idle
  /\ live' = [live EXCEPT ![op.sig] = @ + 1]
  /\ UNCHANGED <<allocated, pm>>

-----------------------------------------------------------------------------
(* Deletion. *)

\* Mutant: the distance is not compared.
FirstMatchOfFingerprint(t, s, prob, j) ==
  /\ ReadTag(t, s.home + prob, j).fpt = s.fpt
  /\ \A q \in 0 .. prob : \A l \in TagIdx :
       (q < prob \/ l < j) => ReadTag(t, s.home + q, l).fpt # s.fpt

\* The first slot in probing order that holds the tag of signature s.
FirstMatch(t, s, prob, j) ==
  /\ ReadTag(t, s.home + prob, j) = [fpt |-> s.fpt, dis |-> prob]
  /\ \A q \in 0 .. prob : \A l \in TagIdx :
       (q < prob \/ l < j) =>
         ReadTag(t, s.home + q, l) # [fpt |-> s.fpt, dis |-> q]

\* Clear it and return true; without one return false and change nothing.
pmwormholefilter_delete(key) ==
  /\ allocated /\ ~op.busy
  /\ LET s == SigOf(key)
     IN  \E prob \in 0 .. MaxProb - 1 : \E j \in TagIdx :
           /\ FirstMatch(cache, s, prob, j)
           /\ cache' = WriteTag(cache, s.home + prob, j, Empty)
           /\ live' = [live EXCEPT ![s] = IF @ = 0 THEN 0 ELSE @ - 1]
  /\ UNCHANGED <<allocated, pm, op>>

-----------------------------------------------------------------------------
(* The hardware. *)

\* A dirty bucket is written back of the cache's own accord.
Evict(b) ==
  /\ \E j \in TagIdx : pm[<<b, j>>] # cache[<<b, j>>]
  /\ pm' = persist(pm, cache, b)
  /\ UNCHANGED <<allocated, cache, op, live>>

\* Power failure and reopening of the pool: only the medium survives, and of
\* what was live only what it holds.
Crash ==
  /\ cache' = pm
  /\ op' = Idle
  /\ live' = [s \in Sig |-> LET n == Cardinality(SlotsOf(pm, s))
                            IN  IF live[s] <= n THEN live[s] ELSE n]
  /\ UNCHANGED <<allocated, pm>>

-----------------------------------------------------------------------------
InsertStep == insert_displace \/ insert_fail \/ insert_place

Next ==
  \/ pmwormholefilter_init
  \/ pmwormholefilter_destroy
  \/ \E key \in Keys : pmwormholefilter_insert(key)
  \/ InsertStep
  \/ \E key \in Keys : pmwormholefilter_delete(key)
  \/ \E b \in Bucket : Evict(b)
  \/ Crash

Spec == Init /\ [][Next]_vars

\* The calling thread runs: an insertion begun takes its next step.
FairSpec == Spec /\ WF_vars(InsertStep)

-----------------------------------------------------------------------------
TypeOK ==
  /\ allocated \in BOOLEAN
  /\ cache \in [Slot -> Tag]
  /\ pm \in [Slot -> Tag]
  /\ op \in {Idle} \cup Inserting
  /\ live \in [Sig -> Nat]

\* Every signature inserted and not deleted since is stored in as many slots
\* as it was inserted times, at every point of an insertion of another key: a
\* tag is copied to its new bucket before its old slot is overwritten
\* (pmwormholefilter_insert, the while loop).  Deleting one of two keys of one
\* signature therefore leaves the other.
NoFalseNegative ==
  \A s \in Sig : Cardinality(SlotsOf(cache, s) \ Scratch) >= live[s]

\* pmwormholefilter_lookup returns true for every key inserted and not deleted
\* since, however its tag has been moved, wherever the ring wraps, and after a
\* power failure for every key the medium kept.
LookupNeverMisses ==
  \A s \in Sig : live[s] > 0 => Lookup(cache, s)

\* The tag moved by the displacement loop is never an empty slot, whose
\* distance field of zero passes the loop's test: no slot ever holds a
\* distance without a fingerprint, neither as the program reads it nor on the
\* medium.
NoTagWithoutFingerprint ==
  \A x \in Slot : /\ cache[x] # Empty => cache[x].fpt # 0
                  /\ pm[x] # Empty => pm[x].fpt # 0

\* While an insertion runs, every bucket from the key's home up to the bucket
\* of the slot it is about to fill is full, and that slot is less than once
\* around the ring away: the loop's candidate is always a stored tag, and
\* never the slot it is copied to (pmwormholefilter_insert, the scan and the
\* while loop).
WindowFull ==
  op.busy =>
    /\ op.cur \in op.sig.home .. op.sig.home + NumBuckets - 1
    /\ \A k \in op.sig.home .. op.cur - 1 : \A l \in TagIdx :
         ReadTag(cache, k, l) # Empty

\* The signature has a copy, not about to be overwritten, that cache and
\* medium agree on.
Durable(s) == \E x \in SlotsOf(cache, s) \ Scratch : pm[x] = cache[x]

DurableStep ==
  \A s \in Sig :
    Durable(s) =>
      \/ Durable(s)'
      \/ \E key \in Keys : SigOf(key) = s /\ pmwormholefilter_delete(key)
      \/ pmwormholefilter_init
      \/ pmwormholefilter_destroy

\* A signature that has reached the medium is lost by no insertion of another
\* key, eviction or power failure: PMWriteTag persists the copy of a moved tag
\* before the loop overwrites the original.
DurableSurvives == [][DurableStep]_vars

\* The displacement loop ends: each turn brings the empty slot nearer the home
\* bucket or returns.
InsertReturns == op.busy ~> ~op.busy

=============================================================================
