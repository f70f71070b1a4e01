---------------------- MODULE PMWormholeFilterProofs -----------------------
(***************************************************************************)
(* Proofs, for every size of the filter, about the persistent-memory       *)
(* wormhole filter of module PMWormholeFilter.                             *)
(***************************************************************************)
EXTENDS PMWormholeFilter, FiniteSetTheorems, TLAPS

-----------------------------------------------------------------------------
(* Arithmetic of the bucket ring. *)

\* The remainder the index macros compute is a bucket number.
LEMMA ModRange ==
  ASSUME NEW n \in Nat \ {0}, NEW a \in Int
  PROVE  a % n \in 0 .. n - 1
  OBVIOUS

\* Division with remainder.
LEMMA DivMod ==
  ASSUME NEW n \in Nat \ {0}, NEW a \in Int
  PROVE  a \div n \in Int /\ a = (n * (a \div n)) + (a % n)
  OBVIOUS

\* The remainder is determined by any representation as quotient and rest.
LEMMA ModUnique ==
  ASSUME NEW n \in Nat \ {0}, NEW q \in Int, NEW r \in 0 .. n - 1
  PROVE  ((n * q) + r) % n = r
  OBVIOUS

\* Walking the same way from two names of one bucket ends in one bucket.
LEMMA ModShift ==
  ASSUME NEW n \in Nat \ {0}, NEW a \in Int, NEW b \in Int, NEW c \in Int,
         a % n = b % n
  PROVE  (a + c) % n = (b + c) % n
<1> DEFINE r  == (b + c) % n
           qa == a \div n
           qb == b \div n
           q  == (b + c) \div n
<1>1. qa \in Int /\ qb \in Int /\ q \in Int /\ r \in 0 .. n - 1
  BY DivMod, ModRange
<1>2. /\ a = (n * qa) + (a % n)
      /\ b = (n * qb) + (b % n)
      /\ b + c = (n * q) + r
  BY DivMod
<1>3. a + c = (n * (q + qa - qb)) + r
  <2> HIDE DEF qa, qb, q, r
  <2>1. a - b = (n * qa) - (n * qb)
    BY <1>1, <1>2, ModRange
  <2>2. n * (q + qa - qb) = (n * q) + (n * qa) - (n * qb)
    BY <1>1
  <2>3. n * q \in Int /\ n * qa \in Int /\ n * qb \in Int
    BY <1>1
  <2> QED BY <1>1, <1>2, <2>1, <2>2, <2>3
<1>4. ((n * (q + qa - qb)) + r) % n = r
  <2> HIDE DEF qa, qb, q, r
  <2> QED BY ModUnique, <1>1
<1> QED BY <1>3, <1>4

\* Fewer than n steps around a ring of n buckets do not close the circle.
LEMMA ModDistinct ==
  ASSUME NEW n \in Nat \ {0}, NEW a \in Int, NEW p \in 1 .. n - 1
  PROVE  (a + p) % n # a % n
<1> SUFFICES ASSUME (a + p) % n = a % n PROVE FALSE
  OBVIOUS
<1> DEFINE b == a + p
           c == 0 - a
<1>1. b \in Int /\ c \in Int /\ b + c = p /\ a + c = 0
  OBVIOUS
<1>2. (b + c) % n = (a + c) % n
  <2>1. b % n = a % n
    OBVIOUS
  <2> HIDE DEF b, c
  <2> QED BY <1>1, <2>1, ModShift
<1>3. p % n = p /\ 0 % n = 0
  OBVIOUS
<1> QED BY <1>1, <1>2, <1>3

\* One bucket, one distance: one home bucket.
LEMMA ModCancel ==
  ASSUME NEW n \in Nat \ {0}, NEW a \in 0 .. n - 1, NEW b \in 0 .. n - 1, NEW d \in Int,
         (a + d) % n = (b + d) % n
  PROVE  a = b
<1> DEFINE x == a + d
           y == b + d
           c == 0 - d
<1>1. x \in Int /\ y \in Int /\ c \in Int /\ x + c = a /\ y + c = b
  OBVIOUS
<1>2. (x + c) % n = (y + c) % n
  <2>1. x % n = y % n
    OBVIOUS
  <2> HIDE DEF x, y, c
  <2> QED BY <1>1, <2>1, ModShift
<1>3. a % n = a /\ b % n = b
  OBVIOUS
<1> QED BY <1>1, <1>2, <1>3

-----------------------------------------------------------------------------
(* Slots and signatures. *)

\* Every access of the code is to a slot of the table.
LEMMA SlotAtType ==
  ASSUME NEW i \in Int, NEW j \in TagIdx
  PROVE  SlotAt(i, j) \in Slot /\ SlotAt(i, j)[1] = MOD(i) /\ MOD(i) \in Bucket
  BY NumBucketsAssumption, ModRange DEF SlotAt, Slot, MOD, Bucket

\* The slots are finitely many, hence so are those of a signature.
LEMMA SlotsOfFinite ==
  ASSUME NEW t, NEW s, NEW S
  PROVE  /\ IsFiniteSet(SlotsOf(t, s) \ S)
         /\ Cardinality(SlotsOf(t, s) \ S) \in Nat
<1>1. IsFiniteSet(Bucket) /\ IsFiniteSet(TagIdx)
  BY FS_Interval, NumBucketsAssumption, SlotPerBukAssumption DEF Bucket, TagIdx
<1>2. IsFiniteSet(Slot)
  BY <1>1, FS_Product DEF Slot
<1>3. SlotsOf(t, s) \ S \in SUBSET Slot
  BY DEF SlotsOf
<1> QED BY <1>2, <1>3, FS_Subset, FS_CardinalityType

\* A slot of a signature holds its fingerprint.
LEMMA SlotFingerprint ==
  ASSUME NEW t, NEW s, NEW x \in SlotsOf(t, s)
  PROVE  t[x].fpt = s.fpt
<1>1. PICK d \in 0 .. MaxProb - 1 : t[x] = [fpt |-> s.fpt, dis |-> d]
  BY DEF SlotsOf
<1> QED BY <1>1

\* A slot is found under one signature only.
LEMMA OneSignature ==
  ASSUME NEW t, NEW s1 \in Sig, NEW s2 \in Sig, NEW x \in SlotsOf(t, s1),
         x \in SlotsOf(t, s2)
  PROVE  s1 = s2
<1>1. PICK d1 \in 0 .. MaxProb - 1 : x[1] = MOD(s1.home + d1) /\ t[x] = [fpt |-> s1.fpt, dis |-> d1]
  BY DEF SlotsOf
<1>2. PICK d2 \in 0 .. MaxProb - 1 : x[1] = MOD(s2.home + d2) /\ t[x] = [fpt |-> s2.fpt, dis |-> d2]
  BY DEF SlotsOf
<1>3. d1 = d2 /\ s1.fpt = s2.fpt
  BY <1>1, <1>2
<1>4. s1.home \in Bucket /\ s2.home \in Bucket
  BY DEF Sig
<1>5. (s1.home + d1) % NumBuckets = (s2.home + d1) % NumBuckets
  BY <1>1, <1>2, <1>3 DEF MOD
<1>6. s1.home = s2.home
  BY <1>4, <1>5, ModCancel, NumBucketsAssumption, MaxProbAssumption DEF Bucket
<1> QED BY <1>3, <1>6 DEF Sig

\* The signature the hash functions compute.
LEMMA SigOfType ==
  ASSUME NEW key \in Keys
  PROVE  SigOf(key) \in Sig
<1>1. key \in Nat
  BY KeysAssumption
<1>2. key % HalfWord \in Nat
  BY <1>1, HalfWordAssumption
<1>3. index_hash(key) \in Bucket
  <2> DEFINE hv == key % HalfWord
  <2>1. hv \in Int
    BY <1>2
  <2> HIDE DEF hv
  <2>2. hv % NumBuckets \in 0 .. NumBuckets - 1
    BY <2>1, ModRange, NumBucketsAssumption
  <2> QED BY <2>2 DEF index_hash, MOD, Bucket, hv
<1>4. key \div HalfWord \in Nat
  BY <1>1, HalfWordAssumption
<1>5. tag_hash(key \div HalfWord) \in 1 .. FptRange - 1
  BY <1>4, FptRangeAssumption DEF tag_hash
<1> QED BY <1>3, <1>5 DEF SigOf, SigOfHash, hasher_, Sig

-----------------------------------------------------------------------------
(* What the table operations do to the slots of a signature. *)

\* lookup returns true exactly for the signatures that have a slot.
LEMMA LookupIsSlotsOf ==
  ASSUME NEW t, NEW s \in Sig
  PROVE  Lookup(t, s) <=> SlotsOf(t, s) # {}
<1>1. ASSUME Lookup(t, s) PROVE SlotsOf(t, s) # {}
  <2>1. PICK d \in 0 .. MaxProb - 1, j \in TagIdx :
          t[SlotAt(s.home + d, j)] = [fpt |-> s.fpt, dis |-> d]
    BY <1>1 DEF Lookup, ReadTag
  <2>2. s.home + d \in Int
    BY MaxProbAssumption DEF Sig, Bucket
  <2>3. SlotAt(s.home + d, j) \in SlotsOf(t, s)
    BY <2>1, <2>2, SlotAtType DEF SlotsOf
  <2> QED BY <2>3
<1>2. ASSUME SlotsOf(t, s) # {} PROVE Lookup(t, s)
  <2>1. PICK x \in Slot, d \in 0 .. MaxProb - 1 :
          x[1] = MOD(s.home + d) /\ t[x] = [fpt |-> s.fpt, dis |-> d]
    BY <1>2 DEF SlotsOf
  <2>2. x[2] \in TagIdx /\ x = SlotAt(s.home + d, x[2])
    BY <2>1 DEF Slot, SlotAt
  <2> QED BY <2>1, <2>2 DEF Lookup, ReadTag
<1> QED BY <1>1, <1>2

\* A larger set of slots has at least as many of them.
LEMMA MoreSlots ==
  ASSUME NEW t, NEW s, NEW S, NEW A \in SUBSET (SlotsOf(t, s) \ S)
  PROVE  IsFiniteSet(A) /\ Cardinality(A) <= Cardinality(SlotsOf(t, s) \ S)
  BY SlotsOfFinite, FS_Subset

\* Overwriting one slot leaves the others of a signature alone.
LEMMA WriteKeepsOthers ==
  ASSUME NEW t \in [Slot -> Tag], NEW s, NEW i \in Int, NEW j \in TagIdx, NEW tag
  PROVE  SlotsOf(WriteTag(t, i, j, tag), s) \ {SlotAt(i, j)} = SlotsOf(t, s) \ {SlotAt(i, j)}
<1> DEFINE z  == SlotAt(i, j)
           t2 == WriteTag(t, i, j, tag)
<1>1. \A x \in Slot : x # z => t2[x] = t[x]
  BY DEF WriteTag
<1> HIDE DEF z, t2
<1>2. SlotsOf(t2, s) \ {z} = SlotsOf(t, s) \ {z}
  BY <1>1 DEF SlotsOf
<1> QED BY <1>2 DEF z, t2

\* The tag a move writes.
LEMMA MovedTagType ==
  ASSUME NEW t \in [Slot -> Tag], NEW cur \in Int, NEW prob \in 1 .. MaxProb - 1,
         NEW j \in TagIdx, Movable(t, cur, prob, j)
  PROVE  /\ MovedTag(t, cur, prob, j) \in Tag
         /\ MovedTag(t, cur, prob, j) =
              [fpt |-> t[SlotAt(cur - prob, j)].fpt, dis |-> t[SlotAt(cur - prob, j)].dis + prob]
<1> DEFINE c == t[SlotAt(cur - prob, j)]
<1>1. cur - prob \in Int
  BY MaxProbAssumption
<1>2. c \in Tag
  BY <1>1, SlotAtType
<1>3. c.dis + prob < MaxProb
  BY DEF Movable, ReadTag
<1>4. MovedTag(t, cur, prob, j) = [c EXCEPT !.dis = @ + prob]
  BY DEF MovedTag, ReadTag
<1> HIDE DEF c
<1>5. [c EXCEPT !.dis = @ + prob] = [fpt |-> c.fpt, dis |-> c.dis + prob]
  BY <1>2 DEF Tag
<1>6. [fpt |-> c.fpt, dis |-> c.dis + prob] \in Tag
  BY <1>2, <1>3, MaxProbAssumption, FptRangeAssumption DEF Tag
<1> QED BY <1>4, <1>5, <1>6 DEF c

\* The slot a tag moves to is another one than the slot it comes from.
LEMMA MoveIsToAnotherSlot ==
  ASSUME NEW cur \in Int, NEW idx \in TagIdx, NEW prob \in 1 .. NumBuckets - 1, NEW j \in TagIdx
  PROVE  SlotAt(cur, idx) # SlotAt(cur - prob, j)
<1> DEFINE a == cur - prob
<1>1. a \in Int /\ a + prob = cur
  BY NumBucketsAssumption
<1>2. (a + prob) % NumBuckets # a % NumBuckets
  <2> HIDE DEF a
  <2> QED BY <1>1, ModDistinct, NumBucketsAssumption
<1>3. MOD(cur) # MOD(a)
  BY <1>1, <1>2 DEF MOD
<1> QED BY <1>3 DEF SlotAt

\* A moved tag is found under the signature it was found under before.
LEMMA MovedTagKeepsSignature ==
  ASSUME NEW t \in [Slot -> Tag], NEW s \in Sig, NEW cur \in Int, NEW idx \in TagIdx,
         NEW prob \in 1 .. MaxProb - 1, NEW j \in TagIdx, Movable(t, cur, prob, j),
         SlotAt(cur - prob, j) \in SlotsOf(t, s)
  PROVE  SlotAt(cur, idx) \in SlotsOf(WriteTag(t, cur, idx, MovedTag(t, cur, prob, j)), s)
<1> DEFINE x  == SlotAt(cur - prob, j)
           z  == SlotAt(cur, idx)
           t2 == WriteTag(t, cur, idx, MovedTag(t, cur, prob, j))
<1>1. PICK d \in 0 .. MaxProb - 1 : x[1] = MOD(s.home + d) /\ t[x] = [fpt |-> s.fpt, dis |-> d]
  BY DEF SlotsOf
<1>2. cur - prob \in Int /\ s.home + d \in Int /\ d \in Int /\ prob \in Int
  BY MaxProbAssumption DEF Sig, Bucket
<1>3. z \in Slot /\ z[1] = MOD(cur) /\ x[1] = MOD(cur - prob)
  BY <1>2, SlotAtType
<1>4. t[x].fpt = s.fpt /\ t[x].dis = d
  BY <1>1
<1>5. t2[z] = [fpt |-> s.fpt, dis |-> d + prob]
  BY <1>3, <1>4, MovedTagType DEF WriteTag
<1>6. d + prob \in 0 .. MaxProb - 1
  BY <1>2, <1>4, MaxProbAssumption DEF Movable, ReadTag
<1>7. MOD(cur) = MOD(s.home + (d + prob))
  <2> DEFINE a == cur - prob
             b == s.home + d
  <2>0. a \in Int /\ b \in Int
    BY <1>2
  <2>1. a + prob = cur /\ b + prob = s.home + (d + prob)
    BY <1>2 DEF Sig, Bucket
  <2>2. a % NumBuckets = b % NumBuckets
    BY <1>1, <1>3 DEF MOD
  <2>3. (a + prob) % NumBuckets = (b + prob) % NumBuckets
    <3> HIDE DEF a, b
    <3>1. prob \in Int
      BY <1>2
    <3> QED BY <2>0, <2>2, <3>1, ModShift, NumBucketsAssumption
  <2> QED BY <2>1, <2>3 DEF MOD
<1> HIDE DEF z, t2
<1>8. z \in SlotsOf(t2, s)
  BY <1>3, <1>5, <1>6, <1>7 DEF SlotsOf
<1> QED BY <1>8 DEF z, t2

\* A move does not change how many slots a signature has, the slot about to be
\* filled not counted.
LEMMA MoveKeepsCount ==
  ASSUME NEW t \in [Slot -> Tag], NEW s \in Sig, NEW cur \in Int, NEW idx \in TagIdx,
         NEW prob \in 1 .. MaxProb - 1, NEW j \in TagIdx, Movable(t, cur, prob, j),
         prob < NumBuckets
  PROVE  Cardinality(SlotsOf(WriteTag(t, cur, idx, MovedTag(t, cur, prob, j)), s)
                       \ {SlotAt(cur - prob, j)})
           >= Cardinality(SlotsOf(t, s) \ {SlotAt(cur, idx)})
<1> DEFINE x  == SlotAt(cur - prob, j)
           z  == SlotAt(cur, idx)
           t2 == WriteTag(t, cur, idx, MovedTag(t, cur, prob, j))
           A  == SlotsOf(t, s) \ {z}
           B  == SlotsOf(t2, s) \ {x}
<1>1. x # z
  <2>1. prob \in 1 .. NumBuckets - 1
    BY NumBucketsAssumption, MaxProbAssumption
  <2> QED BY <2>1, MoveIsToAnotherSlot
<1>2. SlotsOf(t2, s) \ {z} = A
  BY WriteKeepsOthers
<1>3. /\ IsFiniteSet(A) /\ Cardinality(A) \in Nat
      /\ IsFiniteSet(B) /\ Cardinality(B) \in Nat
  BY SlotsOfFinite
<1>4. CASE x \in A
  <2>1. z \in SlotsOf(t2, s)
    BY <1>4, MovedTagKeepsSignature
  <2> HIDE DEF x, z, t2
  <2>2. (A \ {x}) \cup {z} \in SUBSET B
    BY <1>1, <1>2, <2>1
  <2>3. z \notin A \ {x}
    OBVIOUS
  <2> HIDE DEF A, B
  <2>4. IsFiniteSet(A \ {x}) /\ Cardinality(A \ {x}) = Cardinality(A) - 1
    BY <1>3, <1>4, FS_RemoveElement
  <2>5. Cardinality((A \ {x}) \cup {z}) = Cardinality(A)
    <3> DEFINE C == A \ {x}
    <3> HIDE DEF C
    <3>1. Cardinality(C \cup {z}) = Cardinality(C) + 1
      BY <2>3, <2>4, FS_AddElement DEF C
    <3> QED BY <1>3, <2>4, <3>1 DEF C
  <2>6. Cardinality((A \ {x}) \cup {z}) <= Cardinality(B)
    BY <1>3, <2>2, FS_Subset
  <2>7. Cardinality(B) >= Cardinality(A)
    BY <1>3, <2>5, <2>6
  <2> QED BY <2>7 DEF A, B, x, z, t2
<1>5. CASE x \notin A
  <2> HIDE DEF x, z, t2
  <2>1. A \in SUBSET B
    BY <1>2, <1>5
  <2> HIDE DEF A, B
  <2>2. Cardinality(A) <= Cardinality(B)
    BY <1>3, <2>1, FS_Subset
  <2>3. Cardinality(B) >= Cardinality(A)
    BY <1>3, <2>2
  <2> QED BY <2>3 DEF A, B, x, z, t2
<1> QED BY <1>4, <1>5

-----------------------------------------------------------------------------
(* The inductive invariant and its preservation, action by action. *)

\* NoFalseNegative is not inductive alone: that a move keeps the count needs
\* the slot moved to to differ from the slot moved from, which WindowFull
\* gives; that a moved tag is a tag at all needs NoTagWithoutFingerprint.
IInv ==
  /\ TypeOK
  /\ NoFalseNegative
  /\ NoTagWithoutFingerprint
  /\ WindowFull

\* Only an insertion in progress has a slot it is about to fill.
LEMMA ScratchIs ==
  ASSUME TypeOK
  PROVE  /\ op.busy => op \in Inserting /\ Scratch = {SlotAt(op.cur, op.idx)}
         /\ ~op.busy => op = Idle /\ Scratch = {}
<1>1. CASE op = Idle
  BY <1>1 DEF Idle, Scratch
<1>2. CASE op \in Inserting
  <2>1. op.busy = TRUE
    BY <1>2 DEF Inserting
  <2> QED BY <1>2, <2>1 DEF Scratch
<1> QED BY <1>1, <1>2 DEF TypeOK

\* Init establishes the invariant: the table is empty and nothing is live.
LEMMA InitInv == Init => IInv
<1> SUFFICES ASSUME Init PROVE IInv
  OBVIOUS
<1>1. Empty \in Tag
  BY MaxProbAssumption, FptRangeAssumption DEF Empty, Tag
<1>2. TypeOK
  BY <1>1 DEF Init, TypeOK, EmptyTable, NoneLive
<1>3. NoFalseNegative
  <2> SUFFICES ASSUME NEW s \in Sig
               PROVE  Cardinality(SlotsOf(cache, s) \ Scratch) >= live[s]
    BY DEF NoFalseNegative
  <2>1. live[s] = 0
    BY DEF Init, NoneLive
  <2> QED BY <2>1, SlotsOfFinite
<1>4. NoTagWithoutFingerprint
  BY DEF Init, NoTagWithoutFingerprint, EmptyTable
<1>5. WindowFull
  BY DEF Init, WindowFull, Idle
<1> QED BY <1>2, <1>3, <1>4, <1>5 DEF IInv

\* init and destroy leave an empty table.
LEMMA ClearInv ==
  ASSUME IInv, pmwormholefilter_init \/ pmwormholefilter_destroy
  PROVE  IInv'
<1>1. Empty \in Tag
  BY MaxProbAssumption, FptRangeAssumption DEF Empty, Tag
<1>2. /\ cache' = EmptyTable /\ pm' = EmptyTable /\ live' = NoneLive
      /\ op' = op /\ ~op.busy
  BY DEF pmwormholefilter_init, pmwormholefilter_destroy
<1>3. allocated' \in BOOLEAN
  BY Zenon DEF pmwormholefilter_init, pmwormholefilter_destroy
<1>4. TypeOK'
  <2>1. EmptyTable \in [Slot -> Tag] /\ NoneLive \in [Sig -> Nat]
    BY <1>1 DEF EmptyTable, NoneLive
  <2> QED BY <1>2, <1>3, <2>1 DEF IInv, TypeOK
<1>5. NoFalseNegative'
  <2> SUFFICES ASSUME NEW s \in Sig
               PROVE  Cardinality(SlotsOf(cache', s) \ Scratch') >= live'[s]
    BY DEF NoFalseNegative
  <2>1. live'[s] = 0
    BY <1>2 DEF NoneLive
  <2>2. Cardinality(SlotsOf(cache', s) \ Scratch') \in Nat
    BY SlotsOfFinite
  <2> QED BY <2>1, <2>2
<1>6. NoTagWithoutFingerprint'
  BY <1>2 DEF NoTagWithoutFingerprint, EmptyTable
<1>7. WindowFull'
  BY <1>2 DEF WindowFull
<1> QED BY <1>4, <1>5, <1>6, <1>7 DEF IInv

\* The scan ends at an empty slot, which no signature is stored in.
LEMMA InsertInv ==
  ASSUME IInv, NEW key \in Keys, pmwormholefilter_insert(key)
  PROVE  IInv'
<1> DEFINE s == SigOf(key)
<1>1. s \in Sig
  BY SigOfType
<1> HIDE DEF s
<1>2. PICK i \in s.home .. s.home + NumBuckets - 1, j \in TagIdx :
        /\ FirstEmpty(cache, s.home, i, j)
        /\ op' = [busy |-> TRUE, sig |-> s, cur |-> i, idx |-> j]
  BY DEF pmwormholefilter_insert, s
<1>3. s.home \in Nat /\ i \in Nat
  BY <1>1, NumBucketsAssumption DEF Sig, Bucket
<1>4. UNCHANGED <<allocated, cache, pm, live>> /\ ~op.busy
  BY DEF pmwormholefilter_insert
<1>5. TypeOK'
  <2>1. op' \in Inserting
    BY <1>1, <1>2, <1>3 DEF Inserting
  <2> QED BY <1>4, <2>1 DEF IInv, TypeOK
<1>6. NoFalseNegative'
  <2> SUFFICES ASSUME NEW r \in Sig
               PROVE  Cardinality(SlotsOf(cache', r) \ Scratch') >= live'[r]
    BY DEF NoFalseNegative
  <2>1. Scratch = {}
    BY <1>4, ScratchIs DEF IInv
  <2>2. Scratch' = {SlotAt(i, j)}
    BY <1>2 DEF Scratch
  <2>3. cache[SlotAt(i, j)] = Empty
    BY <1>2 DEF FirstEmpty, ReadTag
  <2>4. SlotAt(i, j) \notin SlotsOf(cache, r)
    <3>1. cache[SlotAt(i, j)].fpt # r.fpt
      BY <2>3, FptRangeAssumption DEF Empty, Sig
    <3> QED BY <3>1, SlotFingerprint
  <2>5. SlotsOf(cache', r) \ Scratch' = SlotsOf(cache, r) \ Scratch
    BY <1>4, <2>1, <2>2, <2>4
  <2> QED BY <1>4, <2>5 DEF IInv, NoFalseNegative
<1>7. NoTagWithoutFingerprint'
  BY <1>4 DEF IInv, NoTagWithoutFingerprint
<1>8. WindowFull'
  <2>1. \A k \in s.home .. i - 1 : \A l \in TagIdx : ReadTag(cache, k, l) # Empty
    BY <1>2, <1>3 DEF FirstEmpty
  <2>2. \A k \in s.home .. i - 1 : \A l \in TagIdx : ReadTag(cache', k, l) # Empty
    BY <1>4, <2>1
  <2> QED BY <1>2, <2>2 DEF WindowFull
<1> QED BY <1>5, <1>6, <1>7, <1>8 DEF IInv

\* A turn of the loop that moves a tag: the slot it leaves becomes the slot to
\* fill, and is not the slot the copy went to.
LEMMA DisplaceInv ==
  ASSUME IInv, insert_displace
  PROVE  IInv'
<1>1. op.busy /\ OutOfReach /\ UNCHANGED <<allocated, live>>
  BY DEF insert_displace
<1>2. PICK prob \in 1 .. MaxProb - 1, j \in TagIdx :
        /\ Candidate(cache, op.cur, prob, j)
        /\ cache' = WriteTag(cache, op.cur, op.idx, MovedTag(cache, op.cur, prob, j))
        /\ pm' = persist(pm, cache', MOD(op.cur))
        /\ op' = [op EXCEPT !.cur = @ - prob, !.idx = j]
  BY DEF insert_displace, PMWriteTag
<1>3. /\ op \in Inserting /\ Scratch = {SlotAt(op.cur, op.idx)}
      /\ cache \in [Slot -> Tag] /\ pm \in [Slot -> Tag]
  BY <1>1, ScratchIs DEF IInv, TypeOK
<1>4. op.sig \in Sig /\ op.cur \in Nat /\ op.idx \in TagIdx /\ op.sig.home \in Nat
  BY <1>3 DEF Inserting, Sig, Bucket
<1>5. op' = [busy |-> TRUE, sig |-> op.sig, cur |-> op.cur - prob, idx |-> j]
  BY <1>2, <1>3 DEF Inserting
<1>6. op.cur - prob \in op.sig.home + 1 .. op.cur - 1
  BY <1>1, <1>4, MaxProbAssumption DEF OutOfReach
<1>7. /\ op.cur \in op.sig.home .. op.sig.home + NumBuckets - 1
      /\ \A k \in op.sig.home .. op.cur - 1 : \A l \in TagIdx : ReadTag(cache, k, l) # Empty
  BY <1>1 DEF IInv, WindowFull
<1>8. prob < NumBuckets
  BY <1>4, <1>6, <1>7, NumBucketsAssumption, MaxProbAssumption
<1>9. Movable(cache, op.cur, prob, j)
  BY <1>2 DEF Candidate
<1> DEFINE z   == SlotAt(op.cur, op.idx)
           x   == SlotAt(op.cur - prob, j)
           tag == MovedTag(cache, op.cur, prob, j)
<1>10. z \in Slot /\ x \in Slot
  BY <1>4, SlotAtType, MaxProbAssumption
<1>11. tag \in Tag /\ tag.fpt = cache[x].fpt
  BY <1>3, <1>4, <1>9, MovedTagType
<1>12. tag.fpt # 0
  <2>1. cache[x] # Empty
    BY <1>6, <1>7, <1>4 DEF ReadTag
  <2> QED BY <1>10, <1>11, <2>1 DEF IInv, NoTagWithoutFingerprint
<1>13. /\ cache' \in [Slot -> Tag] /\ cache'[z] = tag
       /\ \A y \in Slot : y # z => cache'[y] = cache[y]
  <2> HIDE DEF tag
  <2>1. cache' = [cache EXCEPT ![z] = tag]
    BY <1>2 DEF WriteTag, tag
  <2> HIDE DEF z
  <2> QED BY <1>3, <1>10, <1>11, <2>1
<1>14. /\ pm' \in [Slot -> Tag]
       /\ \A y \in Slot : pm'[y] = cache'[y] \/ pm'[y] = pm[y]
  BY <1>2, <1>3, <1>13 DEF persist
<1>15. TypeOK'
  <2>1. op' \in Inserting
    BY <1>4, <1>5, <1>6 DEF Inserting
  <2> QED BY <1>1, <1>13, <1>14, <2>1 DEF IInv, TypeOK
<1>16. NoFalseNegative'
  <2> SUFFICES ASSUME NEW s \in Sig
               PROVE  Cardinality(SlotsOf(cache', s) \ Scratch') >= live'[s]
    BY DEF NoFalseNegative
  <2>1. Scratch' = {x}
    BY <1>5 DEF Scratch
  <2>2. Cardinality(SlotsOf(cache', s) \ {x}) >= Cardinality(SlotsOf(cache, s) \ {z})
    BY <1>2, <1>3, <1>4, <1>8, <1>9, MoveKeepsCount
  <2>3. Cardinality(SlotsOf(cache, s) \ {z}) >= live[s]
    BY <1>3 DEF IInv, NoFalseNegative
  <2>4. /\ Cardinality(SlotsOf(cache', s) \ {x}) \in Nat
        /\ Cardinality(SlotsOf(cache, s) \ {z}) \in Nat
    BY SlotsOfFinite
  <2>5. live[s] \in Nat
    BY DEF IInv, TypeOK
  <2> HIDE DEF x, z
  <2> QED BY <1>1, <2>1, <2>2, <2>3, <2>4, <2>5
<1>17. NoTagWithoutFingerprint'
  <2>1. \A y \in Slot : cache'[y] # Empty => cache'[y].fpt # 0
    BY <1>12, <1>13 DEF IInv, NoTagWithoutFingerprint
  <2>2. \A y \in Slot : pm'[y] # Empty => pm'[y].fpt # 0
    BY <1>14, <2>1 DEF IInv, NoTagWithoutFingerprint
  <2> QED BY <2>1, <2>2 DEF NoTagWithoutFingerprint
<1>18. WindowFull'
  <2>1. tag # Empty
    BY <1>12 DEF Empty
  <2>2. \A k \in op.sig.home .. op.cur - 1 : \A l \in TagIdx : ReadTag(cache', k, l) # Empty
    <3> SUFFICES ASSUME NEW k \in op.sig.home .. op.cur - 1, NEW l \in TagIdx
                 PROVE  cache'[SlotAt(k, l)] # Empty
      BY DEF ReadTag
    <3>1. SlotAt(k, l) \in Slot
      BY <1>4, SlotAtType
    <3>2. cache[SlotAt(k, l)] # Empty
      BY <1>7 DEF ReadTag
    <3> HIDE DEF z, x, tag
    <3> QED BY <1>13, <2>1, <3>1, <3>2
  <2>3. op'.sig = op.sig /\ op'.cur = op.cur - prob
    BY <1>5
  <2>4. \A k \in op.sig.home .. (op.cur - prob) - 1 : k \in op.sig.home .. op.cur - 1
    BY <1>4, MaxProbAssumption
  <2>5. op.cur - prob \in op.sig.home .. op.sig.home + NumBuckets - 1
    BY <1>4, <1>6, <1>7, NumBucketsAssumption
  <2> QED BY <2>2, <2>3, <2>4, <2>5 DEF WindowFull
<1> QED BY <1>15, <1>16, <1>17, <1>18 DEF IInv

\* Giving up leaves the copy in the last slot taken: no signature loses one.
LEMMA FailInv ==
  ASSUME IInv, insert_fail
  PROVE  IInv'
<1>1. op' = Idle /\ UNCHANGED <<allocated, cache, pm, live>>
  BY DEF insert_fail
<1>2. Scratch' = {}
  BY <1>1 DEF Scratch, Idle
<1>3. TypeOK'
  BY <1>1 DEF IInv, TypeOK
<1>4. NoFalseNegative'
  <2> SUFFICES ASSUME NEW s \in Sig
               PROVE  Cardinality(SlotsOf(cache', s) \ Scratch') >= live'[s]
    BY DEF NoFalseNegative
  <2>1. SlotsOf(cache, s) \ Scratch \in SUBSET (SlotsOf(cache', s) \ Scratch')
    BY <1>1, <1>2
  <2>2. Cardinality(SlotsOf(cache, s) \ Scratch) <= Cardinality(SlotsOf(cache', s) \ Scratch')
    BY <2>1, MoreSlots
  <2>3. Cardinality(SlotsOf(cache, s) \ Scratch) >= live[s]
    BY DEF IInv, NoFalseNegative
  <2>4. /\ Cardinality(SlotsOf(cache, s) \ Scratch) \in Nat
        /\ Cardinality(SlotsOf(cache', s) \ Scratch') \in Nat
    BY SlotsOfFinite
  <2>5. live[s] \in Nat /\ live' = live
    BY <1>1 DEF IInv, TypeOK
  <2> QED BY <2>2, <2>3, <2>4, <2>5
<1>5. NoTagWithoutFingerprint'
  BY <1>1 DEF IInv, NoTagWithoutFingerprint
<1>6. WindowFull'
  BY <1>1 DEF WindowFull, Idle
<1> QED BY <1>3, <1>4, <1>5, <1>6 DEF IInv

\* The slot filled belongs to the new signature from then on.
LEMMA PlaceInv ==
  ASSUME IInv, insert_place
  PROVE  IInv'
<1> DEFINE z   == SlotAt(op.cur, op.idx)
           d   == op.cur - op.sig.home
           tag == [fpt |-> op.sig.fpt, dis |-> d]
<1>1. /\ op.busy /\ ~OutOfReach
      /\ cache' = WriteTag(cache, op.cur, op.idx, tag)
      /\ op' = Idle /\ live' = [live EXCEPT ![op.sig] = @ + 1]
      /\ UNCHANGED <<allocated, pm>>
  BY DEF insert_place
<1>2. /\ op \in Inserting /\ Scratch = {z}
      /\ cache \in [Slot -> Tag] /\ live \in [Sig -> Nat]
  BY <1>1, ScratchIs DEF IInv, TypeOK
<1>3. /\ op.sig \in Sig /\ op.cur \in Nat /\ op.idx \in TagIdx
      /\ op.sig.home \in Nat /\ op.sig.fpt \in 1 .. FptRange - 1
  BY <1>2 DEF Inserting, Sig, Bucket
<1>4. d \in 0 .. MaxProb - 1 /\ op.sig.home + d = op.cur
  BY <1>1, <1>3, MaxProbAssumption DEF OutOfReach, IInv, WindowFull
<1>5. z \in Slot /\ z[1] = MOD(op.cur)
  BY <1>3, SlotAtType
<1>6. tag \in Tag /\ tag.fpt # 0
  <2> HIDE DEF d
  <2> QED BY <1>3, <1>4, FptRangeAssumption DEF Tag
<1>7. /\ cache' \in [Slot -> Tag] /\ cache'[z] = tag
      /\ \A y \in Slot : y # z => cache'[y] = cache[y]
  <2>1. cache' = [cache EXCEPT ![z] = tag]
    BY <1>1 DEF WriteTag
  <2> HIDE DEF z, tag
  <2> QED BY <1>2, <1>5, <1>6, <2>1
<1>8. live' \in [Sig -> Nat]
  BY <1>1, <1>2, <1>3
<1>9. TypeOK'
  BY <1>1, <1>7, <1>8 DEF IInv, TypeOK
<1>10. Scratch' = {}
  BY <1>1 DEF Scratch, Idle
<1>11. NoFalseNegative'
  <2> SUFFICES ASSUME NEW s \in Sig
               PROVE  Cardinality(SlotsOf(cache', s) \ {}) >= live'[s]
    BY <1>10 DEF NoFalseNegative
  <2> DEFINE A == SlotsOf(cache, s) \ {z}
             B == SlotsOf(cache', s) \ {}
  <2>1. SlotsOf(cache', s) \ {z} = A
    BY <1>1, <1>2, <1>3, WriteKeepsOthers
  <2>2. /\ IsFiniteSet(A) /\ Cardinality(A) \in Nat
        /\ IsFiniteSet(B) /\ Cardinality(B) \in Nat
    BY SlotsOfFinite
  <2>3. Cardinality(A) >= live[s] /\ live[s] \in Nat
    BY <1>2 DEF IInv, NoFalseNegative
  <2>4. CASE s = op.sig
    <3>1. z \in SlotsOf(cache', s)
      <4> HIDE DEF z, d
      <4> QED BY <1>4, <1>5, <1>7, <2>4 DEF SlotsOf
    <3>2. live'[s] = live[s] + 1
      BY <1>1, <1>2, <1>3, <2>4
    <3> HIDE DEF z
    <3>3. A \cup {z} \in SUBSET B /\ z \notin A
      BY <2>1, <3>1
    <3> HIDE DEF A, B
    <3>4. Cardinality(A \cup {z}) = Cardinality(A) + 1
      BY <2>2, <3>3, FS_AddElement
    <3>5. Cardinality(A \cup {z}) <= Cardinality(B)
      BY <2>2, <3>3, FS_Subset
    <3>6. Cardinality(B) >= live'[s]
      BY <2>2, <2>3, <3>2, <3>4, <3>5
    <3> QED BY <3>6 DEF B
  <2>5. CASE s # op.sig
    <3>1. live'[s] = live[s]
      BY <1>1, <1>2, <2>5
    <3> HIDE DEF z
    <3>2. A \in SUBSET B
      BY <2>1
    <3> HIDE DEF A, B
    <3>3. Cardinality(A) <= Cardinality(B)
      BY <2>2, <3>2, FS_Subset
    <3>4. Cardinality(B) >= live'[s]
      BY <2>2, <2>3, <3>1, <3>3
    <3> QED BY <3>4 DEF B
  <2> QED BY <2>4, <2>5
<1>12. NoTagWithoutFingerprint'
  <2> HIDE DEF z, tag
  <2> QED BY <1>1, <1>6, <1>7 DEF IInv, NoTagWithoutFingerprint
<1>13. WindowFull'
  BY <1>1 DEF WindowFull, Idle
<1> QED BY <1>9, <1>11, <1>12, <1>13 DEF IInv

\* The slot cleared belongs to the deleted signature and to no other.
LEMMA DeleteInv ==
  ASSUME IInv, NEW key \in Keys, pmwormholefilter_delete(key)
  PROVE  IInv'
<1> DEFINE s == SigOf(key)
<1>1. s \in Sig
  BY SigOfType
<1> HIDE DEF s
<1>2. PICK prob \in 0 .. MaxProb - 1, j \in TagIdx :
        /\ FirstMatch(cache, s, prob, j)
        /\ cache' = WriteTag(cache, s.home + prob, j, Empty)
        /\ live' = [live EXCEPT ![s] = IF @ = 0 THEN 0 ELSE @ - 1]
  BY DEF pmwormholefilter_delete, s
<1>3. ~op.busy /\ UNCHANGED <<allocated, pm, op>>
  BY DEF pmwormholefilter_delete
<1>4. cache \in [Slot -> Tag] /\ live \in [Sig -> Nat] /\ Scratch = {} /\ Scratch' = {}
  BY <1>3, ScratchIs DEF IInv, TypeOK, Scratch
<1> DEFINE x == SlotAt(s.home + prob, j)
<1>5. s.home + prob \in Int
  BY <1>1, MaxProbAssumption DEF Sig, Bucket
<1>6. x \in Slot /\ x[1] = MOD(s.home + prob)
  BY <1>5, SlotAtType
<1>7. cache[x] = [fpt |-> s.fpt, dis |-> prob]
  BY <1>2 DEF FirstMatch, ReadTag
<1>8. x \in SlotsOf(cache, s)
  <2> HIDE DEF x
  <2> QED BY <1>6, <1>7 DEF SlotsOf
<1>9. Empty \in Tag
  BY MaxProbAssumption, FptRangeAssumption DEF Empty, Tag
<1>10. /\ cache' \in [Slot -> Tag] /\ cache'[x] = Empty
       /\ \A y \in Slot : y # x => cache'[y] = cache[y]
  <2>1. cache' = [cache EXCEPT ![x] = Empty]
    BY <1>2 DEF WriteTag
  <2> HIDE DEF x
  <2> QED BY <1>4, <1>6, <1>9, <2>1
<1>11. \A r \in Sig : live'[r] = IF r # s THEN live[r] ELSE IF live[s] = 0 THEN 0 ELSE live[s] - 1
  BY <1>1, <1>2, <1>4
<1>12. live' \in [Sig -> Nat]
  <2>1. (IF live[s] = 0 THEN 0 ELSE live[s] - 1) \in Nat
    BY <1>1, <1>4
  <2> QED BY <1>1, <1>2, <1>4, <2>1
<1>13. TypeOK'
  BY <1>3, <1>10, <1>12 DEF IInv, TypeOK
<1>14. NoFalseNegative'
  <2> SUFFICES ASSUME NEW r \in Sig
               PROVE  Cardinality(SlotsOf(cache', r) \ {}) >= live'[r]
    BY <1>4 DEF NoFalseNegative
  <2> DEFINE A == SlotsOf(cache, r) \ {}
             B == SlotsOf(cache', r) \ {}
  <2>1. SlotsOf(cache', r) \ {x} = SlotsOf(cache, r) \ {x}
    BY <1>2, <1>4, <1>5, WriteKeepsOthers
  <2>2. /\ IsFiniteSet(A) /\ Cardinality(A) \in Nat
        /\ IsFiniteSet(B) /\ Cardinality(B) \in Nat
    BY SlotsOfFinite
  <2>3. Cardinality(A) >= live[r] /\ live[r] \in Nat
    BY <1>4 DEF IInv, NoFalseNegative
  <2> HIDE DEF x
  <2>4. A \ {x} \in SUBSET B
    BY <2>1
  <2>5. CASE r = s
    <3>1. x \in A
      BY <1>8, <2>5
    <3> HIDE DEF A, B
    <3>2. Cardinality(A \ {x}) = Cardinality(A) - 1
      BY <2>2, <3>1, FS_RemoveElement
    <3>3. Cardinality(A \ {x}) <= Cardinality(B)
      BY <2>2, <2>4, FS_Subset
    <3>4. Cardinality(B) >= live'[r]
      BY <1>11, <2>2, <2>3, <2>5, <3>2, <3>3
    <3> QED BY <3>4 DEF B
  <2>6. CASE r # s
    <3>1. x \notin A
      BY <1>1, <1>8, <2>6, OneSignature
    <3>2. A \in SUBSET B
      BY <2>4, <3>1
    <3> HIDE DEF A, B
    <3>3. Cardinality(A) <= Cardinality(B)
      BY <2>2, <3>2, FS_Subset
    <3>4. Cardinality(B) >= live'[r]
      BY <1>11, <2>2, <2>3, <2>6, <3>3
    <3> QED BY <3>4 DEF B
  <2> QED BY <2>5, <2>6
<1>15. NoTagWithoutFingerprint'
  <2> HIDE DEF x
  <2> QED BY <1>3, <1>10 DEF IInv, NoTagWithoutFingerprint
<1>16. WindowFull'
  BY <1>3 DEF WindowFull
<1> QED BY <1>13, <1>14, <1>15, <1>16 DEF IInv

\* Writing a bucket back changes only the medium.
LEMMA EvictInv ==
  ASSUME IInv, NEW b \in Bucket, Evict(b)
  PROVE  IInv'
<1>1. pm' = persist(pm, cache, b) /\ UNCHANGED <<allocated, cache, op, live>>
  BY DEF Evict
<1>2. /\ pm' \in [Slot -> Tag]
      /\ \A y \in Slot : pm'[y] = cache[y] \/ pm'[y] = pm[y]
  BY <1>1 DEF persist, IInv, TypeOK
<1>3. TypeOK'
  BY <1>1, <1>2 DEF IInv, TypeOK
<1>4. NoFalseNegative'
  <2>1. Scratch' = Scratch
    BY <1>1 DEF Scratch
  <2> QED BY <1>1, <2>1 DEF IInv, NoFalseNegative
<1>5. NoTagWithoutFingerprint'
  BY <1>1, <1>2 DEF IInv, NoTagWithoutFingerprint
<1>6. WindowFull'
  BY <1>1 DEF IInv, WindowFull
<1> QED BY <1>3, <1>4, <1>5, <1>6 DEF IInv

\* A power failure replaces the cache by a table of tags.
LEMMA CrashInv ==
  ASSUME IInv, Crash
  PROVE  IInv'
<1> DEFINE N(s) == Cardinality(SlotsOf(pm, s))
<1>1. /\ cache' = pm /\ op' = Idle /\ UNCHANGED <<allocated, pm>>
      /\ live' = [s \in Sig |-> IF live[s] <= N(s) THEN live[s] ELSE N(s)]
  BY DEF Crash
<1>2. \A s \in Sig : N(s) \in Nat /\ live[s] \in Nat
  <2> SUFFICES ASSUME NEW s \in Sig PROVE N(s) \in Nat /\ live[s] \in Nat
    OBVIOUS
  <2>1. SlotsOf(pm, s) \ {} = SlotsOf(pm, s)
    OBVIOUS
  <2>2. Cardinality(SlotsOf(pm, s) \ {}) \in Nat
    BY SlotsOfFinite
  <2> QED BY <2>1, <2>2 DEF IInv, TypeOK
<1>3. TypeOK'
  <2>1. live' \in [Sig -> Nat]
    <3> HIDE DEF N
    <3> QED BY <1>1, <1>2
  <2> QED BY <1>1, <2>1 DEF IInv, TypeOK
<1>4. NoFalseNegative'
  <2> SUFFICES ASSUME NEW s \in Sig
               PROVE  Cardinality(SlotsOf(cache', s) \ Scratch') >= live'[s]
    BY DEF NoFalseNegative
  <2>1. SlotsOf(cache', s) \ Scratch' = SlotsOf(pm, s)
    BY <1>1 DEF Scratch, Idle
  <2>2. live'[s] <= N(s)
    <3> HIDE DEF N
    <3> QED BY <1>1, <1>2
  <2>3. Cardinality(SlotsOf(cache', s) \ Scratch') = N(s)
    BY <2>1
  <2>4. live'[s] \in Nat
    BY <1>3 DEF TypeOK
  <2> HIDE DEF N
  <2> QED BY <1>2, <2>2, <2>3, <2>4
<1>5. NoTagWithoutFingerprint'
  BY <1>1 DEF IInv, NoTagWithoutFingerprint
<1>6. WindowFull'
  BY <1>1 DEF WindowFull, Idle
<1> QED BY <1>3, <1>4, <1>5, <1>6 DEF IInv

\* Every step preserves the invariant.
LEMMA NextInv == IInv /\ [Next]_vars => IInv'
<1> SUFFICES ASSUME IInv, [Next]_vars PROVE IInv'
  OBVIOUS
<1>1. CASE pmwormholefilter_init \/ pmwormholefilter_destroy
  BY <1>1, ClearInv
<1>2. CASE \E key \in Keys : pmwormholefilter_insert(key)
  BY <1>2, InsertInv
<1>3. CASE insert_displace
  BY <1>3, DisplaceInv
<1>4. CASE insert_fail
  BY <1>4, FailInv
<1>5. CASE insert_place
  BY <1>5, PlaceInv
<1>6. CASE \E key \in Keys : pmwormholefilter_delete(key)
  BY <1>6, DeleteInv
<1>7. CASE \E b \in Bucket : Evict(b)
  BY <1>7, EvictInv
<1>8. CASE Crash
  BY <1>8, CrashInv
<1>9. CASE UNCHANGED vars
  BY <1>9 DEF vars, IInv, TypeOK, NoFalseNegative, NoTagWithoutFingerprint, WindowFull, Scratch
<1> QED BY <1>1, <1>2, <1>3, <1>4, <1>5, <1>6, <1>7, <1>8, <1>9 DEF Next, InsertStep

\* The inductive invariant holds throughout.
THEOREM Invariance == Spec => []IInv
<1> QED BY InitInv, NextInv, PTL DEF Spec

\* Every value the filter stores fits the field it is stored in: fingerprints
\* and distances their bits of the tag, bucket numbers the array.
THEOREM TypeCorrect == Spec => []TypeOK
<1>1. IInv => TypeOK
  BY DEF IInv
<1> QED BY <1>1, Invariance, PTL

\* No insertion, deletion of another signature, eviction or power failure ever
\* leaves fewer copies of a signature than live insertions of it.
THEOREM NoSignatureLost == Spec => []NoFalseNegative
<1>1. IInv => NoFalseNegative
  BY DEF IInv
<1> QED BY <1>1, Invariance, PTL

\* While an insertion runs the buckets up to its slot are full.
THEOREM WindowStaysFull == Spec => []WindowFull
<1>1. IInv => WindowFull
  BY DEF IInv
<1> QED BY <1>1, Invariance, PTL

\* lookup returns true for every live key.
THEOREM LookupCorrect == Spec => []LookupNeverMisses
<1>1. ASSUME IInv PROVE LookupNeverMisses
  <2> SUFFICES ASSUME NEW s \in Sig, live[s] > 0 PROVE Lookup(cache, s)
    BY DEF LookupNeverMisses
  <2>1. Cardinality(SlotsOf(cache, s) \ Scratch) >= live[s] /\ live[s] \in Nat
    BY <1>1 DEF IInv, NoFalseNegative, TypeOK
  <2>2. Cardinality(SlotsOf(cache, s) \ Scratch) # 0
    BY <2>1, SlotsOfFinite
  <2>3. SlotsOf(cache, s) # {}
    <3> SUFFICES ASSUME SlotsOf(cache, s) = {} PROVE FALSE
      OBVIOUS
    <3>1. SlotsOf(cache, s) \ Scratch = {}
      OBVIOUS
    <3> QED BY <2>2, <3>1, FS_EmptySet
  <2> QED BY <2>3, LookupIsSlotsOf
<1>2. IInv => LookupNeverMisses
  BY <1>1
<1> QED BY <1>2, Invariance, PTL

-----------------------------------------------------------------------------
(* What has reached the medium stays there. *)

\* A slot that keeps its tag keeps its signature.
LEMMA SameTagSameSlot ==
  ASSUME NEW t, NEW u, NEW s, NEW y \in SlotsOf(t, s), u[y] = t[y]
  PROVE  y \in SlotsOf(u, s)
  BY DEF SlotsOf

\* A slot of a signature is a slot of the table.
LEMMA SlotsOfType ==
  ASSUME NEW t, NEW s
  PROVE  SlotsOf(t, s) \subseteq Slot
  BY DEF SlotsOf

\* A move makes its copy durable before the original is given up.
LEMMA DisplaceDurable ==
  ASSUME IInv, insert_displace, NEW s \in Sig, Durable(s)
  PROVE  Durable(s)'
<1>1. op.busy /\ OutOfReach
  BY DEF insert_displace
<1>2. PICK prob \in 1 .. MaxProb - 1, j \in TagIdx :
        /\ Candidate(cache, op.cur, prob, j)
        /\ cache' = WriteTag(cache, op.cur, op.idx, MovedTag(cache, op.cur, prob, j))
        /\ pm' = persist(pm, cache', MOD(op.cur))
        /\ op' = [op EXCEPT !.cur = @ - prob, !.idx = j]
  BY DEF insert_displace, PMWriteTag
<1>3. /\ op \in Inserting /\ Scratch = {SlotAt(op.cur, op.idx)}
      /\ cache \in [Slot -> Tag] /\ pm \in [Slot -> Tag]
  BY <1>1, ScratchIs DEF IInv, TypeOK
<1>4. op.sig \in Sig /\ op.cur \in Nat /\ op.idx \in TagIdx /\ op.sig.home \in Nat
  BY <1>3 DEF Inserting, Sig, Bucket
<1>5. op' = [busy |-> TRUE, sig |-> op.sig, cur |-> op.cur - prob, idx |-> j]
  BY <1>2, <1>3 DEF Inserting
<1>6. op.cur \in op.sig.home .. op.sig.home + NumBuckets - 1
  BY <1>1 DEF IInv, WindowFull
<1>7. prob \in 1 .. NumBuckets - 1
  BY <1>1, <1>4, <1>6, NumBucketsAssumption, MaxProbAssumption DEF OutOfReach
<1> DEFINE z == SlotAt(op.cur, op.idx)
           x == SlotAt(op.cur - prob, j)
<1>8. z \in Slot /\ z[1] = MOD(op.cur) /\ x # z
  BY <1>4, <1>7, SlotAtType, MoveIsToAnotherSlot
<1>9. Scratch' = {x}
  BY <1>5 DEF Scratch
<1>10. \A y \in Slot : y # z => cache'[y] = cache[y]
  BY <1>2, <1>3 DEF WriteTag
<1>11. \A y \in Slot : pm'[y] = IF y[1] = MOD(op.cur) THEN cache'[y] ELSE pm[y]
  BY <1>2 DEF persist
<1>12. PICK y \in SlotsOf(cache, s) : y # z /\ pm[y] = cache[y]
  BY <1>3 DEF Durable
<1>13. y \in Slot
  BY SlotsOfType
<1>14. CASE y = x
  <2>1. z \in SlotsOf(cache', s)
    BY <1>2, <1>3, <1>4, <1>14, MovedTagKeepsSignature DEF Candidate
  <2> HIDE DEF x, z
  <2>2. pm'[z] = cache'[z]
    BY <1>8, <1>11
  <2> QED BY <1>8, <1>9, <2>1, <2>2 DEF Durable
<1>15. CASE y # x
  <2> HIDE DEF x, z
  <2>1. cache'[y] = cache[y] /\ pm'[y] = cache'[y]
    BY <1>10, <1>11, <1>12, <1>13
  <2>2. y \in SlotsOf(cache', s)
    BY <1>12, <2>1, SameTagSameSlot
  <2> QED BY <1>9, <1>15, <2>1, <2>2 DEF Durable
<1> QED BY <1>14, <1>15

\* Placing the new tag touches only the slot given up.
LEMMA PlaceDurable ==
  ASSUME IInv, insert_place, NEW s \in Sig, Durable(s)
  PROVE  Durable(s)'
<1> DEFINE z   == SlotAt(op.cur, op.idx)
           tag == [fpt |-> op.sig.fpt, dis |-> op.cur - op.sig.home]
<1>1. /\ op.busy /\ cache' = WriteTag(cache, op.cur, op.idx, tag)
      /\ op' = Idle /\ pm' = pm
  BY DEF insert_place
<1>2. Scratch = {z} /\ cache \in [Slot -> Tag] /\ Scratch' = {}
  BY <1>1, ScratchIs DEF IInv, TypeOK, Scratch, Idle
<1>3. PICK y \in SlotsOf(cache, s) : y # z /\ pm[y] = cache[y]
  BY <1>2 DEF Durable
<1>4. cache' = [cache EXCEPT ![z] = tag]
  BY <1>1 DEF WriteTag
<1>5. cache'[y] = cache[y]
  <2> HIDE DEF z, tag
  <2> QED BY <1>2, <1>3, <1>4, SlotsOfType
<1>6. y \in SlotsOf(cache', s)
  BY <1>3, <1>5, SameTagSameSlot
<1> QED BY <1>1, <1>2, <1>3, <1>5, <1>6 DEF Durable

\* The slot a deletion clears is not a slot of another signature.
LEMMA DeleteDurable ==
  ASSUME IInv, NEW key \in Keys, pmwormholefilter_delete(key),
         NEW r \in Sig, SigOf(key) # r, Durable(r)
  PROVE  Durable(r)'
<1> DEFINE s == SigOf(key)
<1>1. s \in Sig
  BY SigOfType
<1> HIDE DEF s
<1>2. PICK prob \in 0 .. MaxProb - 1, j \in TagIdx :
        /\ FirstMatch(cache, s, prob, j)
        /\ cache' = WriteTag(cache, s.home + prob, j, Empty)
  BY DEF pmwormholefilter_delete, s
<1>3. ~op.busy /\ UNCHANGED <<pm, op>>
  BY DEF pmwormholefilter_delete
<1>4. cache \in [Slot -> Tag] /\ Scratch = {} /\ Scratch' = {}
  BY <1>3, ScratchIs DEF IInv, TypeOK, Scratch
<1> DEFINE x == SlotAt(s.home + prob, j)
<1>5. x \in SlotsOf(cache, s)
  <2>1. s.home + prob \in Int
    BY <1>1, MaxProbAssumption DEF Sig, Bucket
  <2>2. x \in Slot /\ x[1] = MOD(s.home + prob)
    BY <2>1, SlotAtType
  <2>3. cache[x] = [fpt |-> s.fpt, dis |-> prob]
    BY <1>2 DEF FirstMatch, ReadTag
  <2> HIDE DEF x
  <2> QED BY <2>2, <2>3 DEF SlotsOf
<1>6. PICK y \in SlotsOf(cache, r) : pm[y] = cache[y]
  BY DEF Durable
<1>7. y # x
  BY <1>1, <1>5, OneSignature DEF s
<1>8. cache'[y] = cache[y]
  <2>1. cache' = [cache EXCEPT ![x] = Empty]
    BY <1>2 DEF WriteTag
  <2> HIDE DEF x
  <2> QED BY <1>4, <1>7, <2>1, SlotsOfType
<1>9. y \in SlotsOf(cache', r)
  BY <1>8, SameTagSameSlot
<1> QED BY <1>3, <1>4, <1>6, <1>8, <1>9 DEF Durable

\* The empty slot a scan finds is a slot of no signature.
LEMMA InsertDurable ==
  ASSUME IInv, NEW key \in Keys, pmwormholefilter_insert(key), NEW s \in Sig, Durable(s)
  PROVE  Durable(s)'
<1>1. PICK i, j : /\ FirstEmpty(cache, SigOf(key).home, i, j)
                  /\ op' = [busy |-> TRUE, sig |-> SigOf(key), cur |-> i, idx |-> j]
  BY DEF pmwormholefilter_insert
<1>2. cache' = cache /\ pm' = pm
  BY DEF pmwormholefilter_insert
<1>3. Scratch' = {SlotAt(i, j)}
  BY <1>1 DEF Scratch
<1>4. PICK y \in SlotsOf(cache, s) : pm[y] = cache[y]
  BY DEF Durable
<1>5. cache[SlotAt(i, j)].fpt = 0
  BY <1>1 DEF FirstEmpty, ReadTag, Empty
<1>6. cache[y].fpt # 0
  BY SlotFingerprint, FptRangeAssumption DEF Sig
<1>7. y # SlotAt(i, j)
  BY <1>5, <1>6
<1> QED BY <1>2, <1>3, <1>4, <1>7 DEF Durable

\* What a power failure keeps is what the medium holds.
LEMMA CrashDurable ==
  ASSUME Crash, NEW s \in Sig, Durable(s)
  PROVE  Durable(s)'
<1>1. cache' = pm /\ pm' = pm /\ op' = Idle
  BY DEF Crash
<1>2. Scratch' = {}
  BY <1>1 DEF Scratch, Idle
<1>3. PICK y \in SlotsOf(cache, s) : pm[y] = cache[y]
  BY DEF Durable
<1>4. y \in SlotsOf(pm, s)
  BY <1>3, SameTagSameSlot
<1> QED BY <1>1, <1>2, <1>4 DEF Durable

\* Writing back a bucket, or giving up an insertion, leaves a durable copy so.
LEMMA EvictFailDurable ==
  ASSUME insert_fail \/ \E b \in Bucket : Evict(b), NEW s \in Sig, Durable(s)
  PROVE  Durable(s)'
<1>1. PICK y \in SlotsOf(cache, s) \ Scratch : pm[y] = cache[y]
  BY DEF Durable
<1>2. CASE insert_fail
  <2>1. cache' = cache /\ pm' = pm /\ Scratch' = {}
    BY <1>2 DEF insert_fail, Scratch, Idle
  <2> QED BY <1>1, <2>1 DEF Durable
<1>3. CASE \E b \in Bucket : Evict(b)
  <2>1. PICK b \in Bucket : Evict(b)
    BY <1>3
  <2>2. cache' = cache /\ op' = op /\ pm' = persist(pm, cache, b)
    BY <2>1 DEF Evict
  <2>3. Scratch' = Scratch
    BY <2>2 DEF Scratch
  <2>4. pm'[y] = cache[y]
    BY <1>1, <2>2, SlotsOfType DEF persist
  <2> QED BY <1>1, <2>2, <2>3, <2>4 DEF Durable
<1> QED BY <1>2, <1>3

\* A signature that has reached the medium is lost only by deleting a key of
\* that signature, or by init or destroy.
THEOREM DurableNeverLost == Spec => DurableSurvives
<1>1. ASSUME IInv, [Next]_vars PROVE [DurableStep]_vars
  <2> SUFFICES ASSUME ~UNCHANGED vars, Next PROVE DurableStep
    BY <1>1
  <2> SUFFICES ASSUME NEW s \in Sig, Durable(s)
               PROVE  \/ Durable(s)'
                      \/ \E key \in Keys : SigOf(key) = s /\ pmwormholefilter_delete(key)
                      \/ pmwormholefilter_init
                      \/ pmwormholefilter_destroy
    BY DEF DurableStep
  <2>1. CASE pmwormholefilter_init \/ pmwormholefilter_destroy
    BY <2>1
  <2>2. CASE \E key \in Keys : pmwormholefilter_insert(key)
    BY <1>1, <2>2, InsertDurable
  <2>3. CASE insert_displace
    BY <1>1, <2>3, DisplaceDurable
  <2>4. CASE insert_place
    BY <1>1, <2>4, PlaceDurable
  <2>5. CASE \E key \in Keys : pmwormholefilter_delete(key)
    <3>1. PICK key \in Keys : pmwormholefilter_delete(key)
      BY <2>5
    <3> QED BY <1>1, <3>1, DeleteDurable
  <2>6. CASE insert_fail \/ \E b \in Bucket : Evict(b)
    BY <2>6, EvictFailDurable
  <2>7. CASE Crash
    BY <2>7, CrashDurable
  <2> QED BY <2>1, <2>2, <2>3, <2>4, <2>5, <2>6, <2>7 DEF Next, InsertStep
<1>2. IInv /\ [Next]_vars => [DurableStep]_vars
  BY <1>1
<1> QED BY <1>2, Invariance, PTL DEF Spec, DurableSurvives

-----------------------------------------------------------------------------
(* The loop's variant. *)

\* The turns of one insertion bring the slot to fill strictly nearer the home
\* bucket and never to it.
Descent ==
  op.busy /\ op'.busy /\ op' # op =>
    op'.sig = op.sig /\ op'.cur \in op.sig.home + 1 .. op.cur - 1

\* The displacement loop of pmwormholefilter_insert, which counts nothing, has
\* a variant: between the scan and the return every step of the insertion
\* shortens the distance from its home bucket, which WindowFull bounds by the
\* number of buckets, so that an insertion takes fewer turns than there are
\* buckets, for every table and every set of keys.
THEOREM LoopDescends == Spec => [][Descent]_vars
<1>1. ASSUME IInv, [Next]_vars PROVE [Descent]_vars
  <2> SUFFICES ASSUME op.busy, op'.busy, op' # op, Next
               PROVE  op'.sig = op.sig /\ op'.cur \in op.sig.home + 1 .. op.cur - 1
    BY <1>1 DEF Descent, vars
  <2>1. insert_displace
    <3>1. ~pmwormholefilter_init /\ ~pmwormholefilter_destroy
          /\ \A key : ~pmwormholefilter_insert(key) /\ ~pmwormholefilter_delete(key)
      BY DEF pmwormholefilter_init, pmwormholefilter_destroy, pmwormholefilter_insert,
             pmwormholefilter_delete
    <3>2. op' # Idle
      BY DEF Idle
    <3>3. ~insert_fail /\ ~insert_place /\ ~Crash
      BY <3>2 DEF insert_fail, insert_place, Crash
    <3>4. \A b : ~Evict(b)
      BY DEF Evict
    <3> QED BY <3>1, <3>3, <3>4 DEF Next, InsertStep
  <2>2. PICK prob \in 1 .. MaxProb - 1, j \in TagIdx : op' = [op EXCEPT !.cur = @ - prob, !.idx = j]
    BY <2>1 DEF insert_displace
  <2>3. op \in Inserting /\ op.cur \in Nat /\ op.sig.home \in Nat
    <3>1. op \in Inserting
      BY <1>1, ScratchIs DEF IInv
    <3>2. op.cur \in Nat /\ op.sig \in Sig
      BY <3>1 DEF Inserting
    <3>3. op.sig.home \in Nat
      BY <3>2 DEF Sig, Bucket
    <3> QED BY <3>1, <3>2, <3>3
  <2>4. op'.sig = op.sig /\ op'.cur = op.cur - prob
    BY <2>2, <2>3 DEF Inserting
  <2>5. op.cur - prob \in op.sig.home + 1 .. op.cur - 1
    BY <2>1, <2>3, MaxProbAssumption DEF insert_displace, OutOfReach
  <2> QED BY <2>4, <2>5
<1>2. IInv /\ [Next]_vars => [Descent]_vars
  BY <1>1
<1> QED BY <1>2, Invariance, PTL DEF Spec

=============================================================================
