--------------------------- MODULE WormholePolicy --------------------------
(***************************************************************************)
(* LevelDB's wormhole filter policy (leveldb/util/wormhole.cc): the filter *)
(* of one list of keys, built in memory by CreateFilter and probed by      *)
(* KeyMayMatch.  The table is the one of module WormholeTable; its size is *)
(* computed from the number of keys, and reducing a bucket number by       *)
(* masking is taking it modulo a power of two.                             *)
(*                                                                         *)
(* A key is its 64-bit WormholeHash.                                       *)
(***************************************************************************)
EXTENDS Integers, Sequences, FiniteSets

CONSTANTS
  SlotPerBuk,   \* TAG_PER_BUK
  MaxProb,      \* MAX_PROB
  FptRange,     \* 2^BIT_PER_FPT
  HalfWord,     \* 2^32
  Keys,         \* the hashes of the keys in use
  MaxKeys       \* bound: the longest list given to CreateFilter

ASSUME PolicyAssumption ==
  /\ {SlotPerBuk, MaxProb, HalfWord} \subseteq Nat \ {0}
  /\ FptRange \in Nat /\ FptRange > 1
  /\ Keys \subseteq Nat /\ MaxKeys \in Nat

T(num_buckets) == INSTANCE WormholeTable WITH NumBuckets <- num_buckets

VARIABLES
  keys,         \* CreateFilter's argument
  num_buckets_, \* the size computed for it
  array,        \* the filter's buckets
  i,            \* the key being inserted: keys[i]
  op,           \* InsertItem's loop, when it runs
  accepted      \* ghost: the keys for which InsertItem returned true

vars == <<keys, num_buckets_, array, i, op, accepted>>

KeyLists == UNION {[1 .. n -> Keys] : n \in 1 .. MaxKeys}

Idle == [busy |-> FALSE]

Building == i <= Len(keys)

-----------------------------------------------------------------------------
(* The size of the table. *)

\* The powers of two.
pow2[k \in Nat] == IF k = 0 THEN 1 ELSE 2 * pow2[k - 1]

\* The least power of two that is at least x.
upperpower2(x) ==
  pow2[CHOOSE k \in 0 .. x : pow2[k] >= x /\ \A l \in 0 .. x : pow2[l] >= x => k <= l]

\* Mutant: the table is not doubled when it would be too full.
NumBucketsNotDoubled(n) ==
  upperpower2(IF n \div SlotPerBuk >= 1 THEN n \div SlotPerBuk ELSE 1)

\* One doubling when n / num_buckets_ / TAG_PER_BUK > 0.8.
NumBucketsFor(n) ==
  LET nb == upperpower2(IF n \div SlotPerBuk >= 1 THEN n \div SlotPerBuk ELSE 1)
  IN  IF 5 * n > 4 * nb * SlotPerBuk THEN 2 * nb ELSE nb

\* A call of CreateFilter: the table is sized for the list and zeroed.
CreateFilter(ks) ==
  /\ keys = ks
  /\ num_buckets_ = NumBucketsFor(Len(ks))
  /\ array = T(NumBucketsFor(Len(ks)))!EmptyTable
  /\ i = 1
  /\ op = Idle
  /\ accepted = {}

Init == \E ks \in KeyLists : CreateFilter(ks)

-----------------------------------------------------------------------------
(* InsertItem of keys[i]. *)

SigOf(key) == T(num_buckets_)!SigOfHash(key)

HasEmpty == \E x \in T(num_buckets_)!Slot : array[x] = T(num_buckets_)!Empty

InsertItem ==
  /\ Building /\ ~op.busy
  /\ LET s == SigOf(keys[i])
     IN  \E b \in s.home .. s.home + num_buckets_ - 1 :
         \E j \in 0 .. SlotPerBuk - 1 :
           /\ T(num_buckets_)!FirstEmpty(array, s.home, b, j)
           /\ op' = [busy |-> TRUE, sig |-> s, cur |-> b, idx |-> j]
  /\ UNCHANGED <<keys, num_buckets_, array, i, accepted>>

OutOfReach == op.cur - op.sig.home >= MaxProb

InsertItem_displace ==
  /\ op.busy /\ OutOfReach
  /\ \E prob \in 1 .. MaxProb - 1 : \E j \in 0 .. SlotPerBuk - 1 :
       /\ T(num_buckets_)!Candidate(array, op.cur, prob, j)
       /\ array' = T(num_buckets_)!WriteTag(array, op.cur, op.idx,
                     T(num_buckets_)!MovedTag(array, op.cur, prob, j))
       /\ op' = [op EXCEPT !.cur = @ - prob, !.idx = j]
  /\ UNCHANGED <<keys, num_buckets_, i, accepted>>

\* InsertItem returns false, which CreateFilter does not look at.
InsertItem_fail ==
  /\ op.busy /\ OutOfReach
  /\ ~T(num_buckets_)!HasCandidate(array, op.cur)
  /\ op' = Idle
  /\ i' = i + 1
  /\ UNCHANGED <<keys, num_buckets_, array, accepted>>

InsertItem_place ==
  /\ op.busy /\ ~OutOfReach
  /\ array' = T(num_buckets_)!WriteTag(array, op.cur, op.idx,
                [fpt |-> op.sig.fpt, dis |-> op.cur - op.sig.home])
  /\ op' = Idle
  /\ i' = i + 1
  /\ accepted' = accepted \cup {keys[i]}
  /\ UNCHANGED <<keys, num_buckets_>>

Next ==
  \/ InsertItem
  \/ InsertItem_displace
  \/ InsertItem_fail
  \/ InsertItem_place

Spec == Init /\ [][Next]_vars

\* The bucket count is read back from the end of the filter.
KeyMayMatch(key) == T(num_buckets_)!Lookup(array, SigOf(key))

-----------------------------------------------------------------------------
TypeOK ==
  /\ keys \in KeyLists
  /\ num_buckets_ \in Nat \ {0}
  /\ array \in [T(num_buckets_)!Slot -> T(num_buckets_)!Tag]
  /\ i \in 1 .. Len(keys) + 1
  /\ op.busy => op.sig \in T(num_buckets_)!Sig
  /\ accepted \subseteq Keys

\* CreateFilter sizes the table so that InsertItem's scan always finds an
\* empty slot, although an insertion that fails after moving tags leaves a
\* second copy of one of them: the return after InsertItem's outer loop is
\* never taken.
ScanFindsSlot == Building /\ ~op.busy => HasEmpty

\* KeyMayMatch returns true for every key whose InsertItem returned true,
\* whatever was inserted, or failed to be, after it.
AcceptedKeysMatch == ~Building => \A key \in accepted : KeyMayMatch(key)

\* The contract of FilterPolicy (leveldb/include/leveldb/filter_policy.h):
\* KeyMayMatch "must return true if the key was in the list of keys passed to
\* CreateFilter()".
ListedKeysMatch ==
  ~Building => \A n \in 1 .. Len(keys) : KeyMayMatch(keys[n])

=============================================================================
