--------------------------- MODULE WormholeTable ---------------------------
(***************************************************************************)
(* The bucket array of a wormhole filter and the operations both of its    *)
(* implementations perform on it: the persistent-memory filter             *)
(* (src/pm_wf/pmwormholefilter.hpp) and LevelDB's filter policy            *)
(* (leveldb/util/wormhole.cc).                                             *)
(*                                                                         *)
(* A bucket is a 64-bit word of SlotPerBuk 16-bit tags.  A tag packs a     *)
(* fingerprint (high 12 bits) and the distance of its bucket from the      *)
(* key's home bucket (low 4 bits); the word 0 is an empty slot.  Here a    *)
(* tag is the record of its two fields, the empty slot being the record of *)
(* two zeros.                                                              *)
(***************************************************************************)
EXTENDS Integers, FiniteSets

CONSTANTS
  SlotPerBuk,   \* tags in a bucket (4 in the code)
  MaxProb,      \* MAX_PROB: buckets a key may be stored in (16 in the code)
  FptRange,     \* 2^BITS_PER_FPT: fingerprints, 0 included (2^12 in the code)
  HalfWord,     \* 2^32: the two halves of a hash give the index and the tag
  NumBuckets    \* num_buckets_

ASSUME SlotPerBukAssumption == SlotPerBuk \in Nat \ {0}
ASSUME MaxProbAssumption    == MaxProb \in Nat \ {0}
ASSUME FptRangeAssumption   == FptRange \in Nat /\ FptRange > 1
ASSUME HalfWordAssumption   == HalfWord \in Nat \ {0}
ASSUME NumBucketsAssumption == NumBuckets \in Nat \ {0}

Bucket == 0 .. NumBuckets - 1
TagIdx == 0 .. SlotPerBuk - 1
Slot   == Bucket \X TagIdx
Tag    == [fpt : 0 .. FptRange - 1, dis : 0 .. MaxProb - 1]
Empty  == [fpt |-> 0, dis |-> 0]

\* What the filter knows of a key: two keys of one signature cannot be told
\* apart by any operation.
Sig == [home : Bucket, fpt : 1 .. FptRange - 1]

EmptyTable == [x \in Slot |-> Empty]

-----------------------------------------------------------------------------
(* Hashing. *)

MOD(i) == i % NumBuckets

\* index_hash takes its argument as a uint32_t, which keeps the low half.
index_hash(hash) == MOD(hash % HalfWord)

tag_hash(hv) ==
  LET tag == hv % FptRange
  IN  IF tag = 0 THEN 1 ELSE tag

SigOfHash(hash) == [home |-> index_hash(hash), fpt |-> tag_hash(hash \div HalfWord)]

-----------------------------------------------------------------------------
(* Slots.  Bucket numbers run on past the end of the array and are reduced *)
(* at each access.                                                         *)

SlotAt(i, j) == <<MOD(i), j>>

ReadTag(t, i, j) == t[SlotAt(i, j)]

WriteTag(t, i, j, tag) == [t EXCEPT ![SlotAt(i, j)] = tag]

\* The slots in which a lookup of signature s finds it.
SlotsOf(t, s) ==
  {x \in Slot : \E d \in 0 .. MaxProb - 1 :
                  /\ x[1] = MOD(s.home + d)
                  /\ t[x] = [fpt |-> s.fpt, dis |-> d]}

\* Mutant: the probe stops one bucket short.
LookupOneShort(t, s) ==
  \E prob \in 0 .. MaxProb - 2 : \E j \in TagIdx :
    ReadTag(t, s.home + prob, j) = [fpt |-> s.fpt, dis |-> prob]

\* lookup compares the four tags of a bucket at once (hasvalue16).
Lookup(t, s) ==
  \E prob \in 0 .. MaxProb - 1 : \E j \in TagIdx :
    ReadTag(t, s.home + prob, j) = [fpt |-> s.fpt, dis |-> prob]

-----------------------------------------------------------------------------
(* Insertion: the first empty slot at or after the home bucket...          *)

\* Mutant: the scan stops at an empty slot that need not be the first.
SomeEmpty(t, home, i, j) == ReadTag(t, i, j) = Empty

FirstEmpty(t, home, i, j) ==
  /\ ReadTag(t, i, j) = Empty
  /\ \A k \in home .. i : \A l \in TagIdx :
       (k < i \/ l < j) => ReadTag(t, k, l) # Empty

(* ... and, while that slot is out of reach of the home bucket, the        *)
(* farthest tag before it that may move into it.                           *)

\* Mutant: the reach test admits one bucket too many.
MovableOneTooFar(t, cur, prob, j) == ReadTag(t, cur - prob, j).dis + prob <= MaxProb

Movable(t, cur, prob, j) == ReadTag(t, cur - prob, j).dis + prob < MaxProb

Candidate(t, cur, prob, j) ==
  /\ Movable(t, cur, prob, j)
  /\ \A q \in 1 .. MaxProb - 1 : \A l \in TagIdx :
       (q > prob \/ (q = prob /\ l < j)) => ~Movable(t, cur, q, l)

HasCandidate(t, cur) ==
  \E prob \in 1 .. MaxProb - 1 : \E j \in TagIdx : Movable(t, cur, prob, j)

\* Mutant: the tag is copied with the distance of its old bucket.
MovedTagOldDistance(t, cur, prob, j) == ReadTag(t, cur - prob, j)

\* The candidate's tag as it is stored in its new bucket.
MovedTag(t, cur, prob, j) ==
  LET cadi_tag == ReadTag(t, cur - prob, j)
  IN  [cadi_tag EXCEPT !.dis = @ + prob]

=============================================================================
