-------------------- MODULE PMWormholeFilterCallsProofs --------------------
(***************************************************************************)
(* The persistent-memory filter implements CountingFilter, for any table,  *)
(* any tag layout and any set of keys.                                     *)
(***************************************************************************)
EXTENDS PMWormholeFilterCalls, PMWormholeFilterProofs

\* The slots of a signature that count: not the one about to be filled.
Copies(s) == SlotsOf(cache, s) \ Scratch

\* The refinement mapping.
Stored == [s \in Sig |-> Cardinality(Copies(s))]
Safe   == {s \in Sig : Durable(s)}

\* The tag a move leaves behind in the slot about to be filled has been copied:
\* an insertion that gives up there leaves a second copy, never a lost one.
StaleIsCopied ==
  \A s \in Sig : SlotsOf(cache, s) \cap Scratch # {} => Copies(s) # {}

CInv == IInv /\ StaleIsCopied

-----------------------------------------------------------------------------
(* Counting. *)

\* The copies of a signature are finitely many, and none only if it has none.
LEMMA CopiesCounted ==
  ASSUME NEW s \in Sig
  PROVE  /\ IsFiniteSet(Copies(s)) /\ Cardinality(Copies(s)) \in Nat
         /\ Cardinality(Copies(s)) = 0 <=> Copies(s) = {}
         /\ Stored[s] = Cardinality(Copies(s))
<1>1. IsFiniteSet(Copies(s)) /\ Cardinality(Copies(s)) \in Nat
  BY SlotsOfFinite DEF Copies
<1>2. Cardinality(Copies(s)) = 0 <=> Copies(s) = {}
  BY <1>1, FS_EmptySet
<1> QED
  BY <1>1, <1>2 DEF Stored

\* A signature that is safe is present.
LEMMA SafePresent == \A s \in Sig : Durable(s) => Stored[s] > 0
<1> SUFFICES ASSUME NEW s \in Sig, Durable(s) PROVE Stored[s] > 0
  OBVIOUS
<1>1. Copies(s) # {}
  BY DEF Durable, Copies
<1> QED
  BY <1>1, CopiesCounted

\* Steps that leave every signature its copies change nothing of the multiset.
LEMMA SameCopies ==
  ASSUME \A s \in Sig : Copies(s)' = Copies(s)
  PROVE  Stored' = Stored
BY DEF Stored

\* The slot a table holds nothing in is a slot of no signature.
LEMMA EmptyIsNoSlot ==
  ASSUME NEW t, NEW s \in Sig, NEW x, t[x] = Empty
  PROVE  x \notin SlotsOf(t, s)
<1> SUFFICES ASSUME x \in SlotsOf(t, s) PROVE FALSE
  OBVIOUS
<1>1. t[x].fpt = s.fpt
  BY SlotFingerprint
<1>2. s.fpt # 0
  BY FptRangeAssumption DEF Sig
<1> QED
  BY <1>1, <1>2 DEF Empty

\* An empty table stores nothing.
LEMMA EmptyHasNoSlots == \A s \in Sig : SlotsOf(EmptyTable, s) = {}
<1> SUFFICES ASSUME NEW s \in Sig PROVE SlotsOf(EmptyTable, s) = {}
  OBVIOUS
<1>1. \A x \in Slot : EmptyTable[x] = Empty
  BY DEF EmptyTable
<1>2. \A x \in SlotsOf(EmptyTable, s) : x \in Slot
  BY SlotsOfType
<1> QED
  BY <1>1, <1>2, EmptyIsNoSlot

-----------------------------------------------------------------------------
(* What each step does to the multiset. *)

\* The slot an insertion begins with is empty: nothing changes.
LEMMA InsertStutters ==
  ASSUME CInv, NEW key \in Keys, pmwormholefilter_insert(key)
  PROVE  Stored' = Stored /\ Safe' = Safe /\ StaleIsCopied'
<1>1. PICK i, j : /\ FirstEmpty(cache, SigOf(key).home, i, j)
                  /\ op' = [busy |-> TRUE, sig |-> SigOf(key), cur |-> i, idx |-> j]
  BY DEF pmwormholefilter_insert
<1>2. cache' = cache /\ pm' = pm /\ ~op.busy
  BY DEF pmwormholefilter_insert
<1>3. Scratch = {} /\ Scratch' = {SlotAt(i, j)}
  BY <1>1, <1>2 DEF Scratch
<1>4. cache[SlotAt(i, j)] = Empty
  BY <1>1 DEF FirstEmpty, ReadTag
<1>5. \A s \in Sig : SlotAt(i, j) \notin SlotsOf(cache, s)
  BY <1>4, EmptyIsNoSlot
<1>6. \A s \in Sig : Copies(s)' = Copies(s)
  BY <1>2, <1>3, <1>5 DEF Copies
<1>7. \A s \in Sig : Durable(s)' <=> Durable(s)
  BY <1>2, <1>3, <1>5 DEF Durable
<1>8. StaleIsCopied'
  BY <1>2, <1>3, <1>5 DEF StaleIsCopied
<1> QED
  BY <1>6, <1>7, <1>8, SameCopies DEF Safe

\* A moved tag is found under no signature but the one it was found under before.
LEMMA MovedTagOfSignature ==
  ASSUME NEW t \in [Slot -> Tag], NEW s \in Sig, NEW cur \in Int, NEW idx \in TagIdx,
         NEW prob \in 1 .. MaxProb - 1, NEW j \in TagIdx, Movable(t, cur, prob, j),
         SlotAt(cur, idx) \in SlotsOf(WriteTag(t, cur, idx, MovedTag(t, cur, prob, j)), s)
  PROVE  SlotAt(cur - prob, j) \in SlotsOf(t, s)
<1> DEFINE x  == SlotAt(cur - prob, j)
           z  == SlotAt(cur, idx)
           t2 == WriteTag(t, cur, idx, MovedTag(t, cur, prob, j))
<1>1. PICK e \in 0 .. MaxProb - 1 : z[1] = MOD(s.home + e) /\ t2[z] = [fpt |-> s.fpt, dis |-> e]
  BY DEF SlotsOf
<1>2. cur - prob \in Int /\ s.home + e \in Int /\ e \in Int /\ prob \in Int
  BY MaxProbAssumption DEF Sig, Bucket
<1>3. z \in Slot /\ z[1] = MOD(cur) /\ x \in Slot /\ x[1] = MOD(cur - prob)
  BY <1>2, SlotAtType
<1>4. t[x] \in Tag
  BY <1>3
<1>5. t2[z] = [fpt |-> t[x].fpt, dis |-> t[x].dis + prob]
  BY <1>3, MovedTagType DEF WriteTag
<1>6. t[x].fpt = s.fpt /\ t[x].dis + prob = e
  BY <1>1, <1>5
<1>7. t[x] = [fpt |-> s.fpt, dis |-> e - prob] /\ e - prob \in 0 .. MaxProb - 1
  <2>1. t[x] = [fpt |-> t[x].fpt, dis |-> t[x].dis] /\ t[x].dis \in 0 .. MaxProb - 1
    BY <1>4 DEF Tag
  <2>2. t[x].dis \in Int
    BY <2>1, MaxProbAssumption
  <2>3. t[x].dis = e - prob
    BY <1>2, <1>6, <2>2
  <2> QED
    BY <1>6, <2>1, <2>3
<1>8. MOD(cur - prob) = MOD(s.home + (e - prob))
  <2> DEFINE a == cur - prob
             b == s.home + (e - prob)
  <2>0. a \in Int /\ b \in Int
    BY <1>2 DEF Sig, Bucket
  <2>1. a + prob = cur /\ b + prob = s.home + e
    BY <1>2 DEF Sig, Bucket
  <2>2. (a + prob) % NumBuckets = (b + prob) % NumBuckets
    BY <1>1, <1>3, <2>1 DEF MOD
  <2>3. (a + prob) - prob = a /\ (b + prob) - prob = b
    BY <1>2, <2>0
  <2>4. a % NumBuckets = b % NumBuckets
    <3> HIDE DEF a, b
    <3>1. PICK u \in Int, v \in Int, q \in Int : u = a + prob /\ v = b + prob /\ q = 0 - prob
      BY <1>2, <2>0
    <3>2. (u + q) % NumBuckets = (v + q) % NumBuckets
      BY <2>2, <3>1, ModShift, NumBucketsAssumption
    <3>3. u + q = a /\ v + q = b
      BY <1>2, <2>0, <3>1
    <3> QED
      BY <3>2, <3>3
  <2> QED
    BY <2>4 DEF MOD
<1> HIDE DEF x, z, t2
<1>9. x \in SlotsOf(t, s)
  BY <1>3, <1>7, <1>8 DEF SlotsOf
<1> QED
  BY <1>9 DEF x

\* Taking one element for another does not change how many there are.
LEMMA SwapCount ==
  ASSUME NEW A, IsFiniteSet(A), NEW x \in A, NEW z, z \notin A
  PROVE  Cardinality((A \ {x}) \cup {z}) = Cardinality(A)
<1> DEFINE C == A \ {x}
<1>1. IsFiniteSet(C) /\ Cardinality(C) = Cardinality(A) - 1
  BY FS_RemoveElement
<1>2. z \notin C
  OBVIOUS
<1> HIDE DEF C
<1>3. Cardinality(C \cup {z}) = Cardinality(C) + 1
  BY <1>1, <1>2, FS_AddElement
<1>4. Cardinality(A) \in Nat
  BY FS_CardinalityType
<1> QED
  BY <1>1, <1>3, <1>4 DEF C

\* A move leaves every signature as many copies as it had, and makes one safe.
LEMMA DisplaceHardens ==
  ASSUME CInv, insert_displace
  PROVE  Stored' = Stored /\ Safe \subseteq Safe' /\ StaleIsCopied'
<1>1. op.busy /\ OutOfReach
  BY DEF insert_displace
<1>2. PICK prob \in 1 .. MaxProb - 1, j \in TagIdx :
        /\ Movable(cache, op.cur, prob, j)
        /\ cache' = WriteTag(cache, op.cur, op.idx, MovedTag(cache, op.cur, prob, j))
        /\ op' = [op EXCEPT !.cur = @ - prob, !.idx = j]
  BY DEF insert_displace, PMWriteTag, Candidate
<1>3. op \in Inserting /\ Scratch = {SlotAt(op.cur, op.idx)} /\ cache \in [Slot -> Tag]
  BY <1>1, ScratchIs DEF CInv, IInv, TypeOK
<1>4. op.sig \in Sig /\ op.cur \in Nat /\ op.idx \in TagIdx /\ op.sig.home \in Nat
  BY <1>3 DEF Inserting, Sig, Bucket
<1>5. op' = [busy |-> TRUE, sig |-> op.sig, cur |-> op.cur - prob, idx |-> j]
  BY <1>2, <1>3 DEF Inserting
<1>6. op.cur \in op.sig.home .. op.sig.home + NumBuckets - 1
  BY <1>1 DEF CInv, IInv, WindowFull
<1>7. prob \in 1 .. NumBuckets - 1
  BY <1>1, <1>4, <1>6, NumBucketsAssumption, MaxProbAssumption DEF OutOfReach
<1> DEFINE z == SlotAt(op.cur, op.idx)
           x == SlotAt(op.cur - prob, j)
<1>8. x # z /\ op.cur \in Int
  BY <1>4, <1>7, MoveIsToAnotherSlot
<1>9. Scratch' = {x}
  BY <1>5 DEF Scratch
<1>10. \A s \in Sig : SlotsOf(cache', s) \ {z} = SlotsOf(cache, s) \ {z}
  BY <1>2, <1>3, <1>4, <1>8, WriteKeepsOthers
<1>11. \A s \in Sig : z \in SlotsOf(cache', s) <=> x \in SlotsOf(cache, s)
  BY <1>2, <1>3, <1>4, <1>8, MovedTagKeepsSignature, MovedTagOfSignature
<1> HIDE DEF x, z
<1>12. ASSUME NEW s \in Sig
       PROVE  /\ Cardinality(Copies(s)') = Cardinality(Copies(s))
              /\ x \in SlotsOf(cache', s) => Copies(s)' # {}
  <2> DEFINE A == SlotsOf(cache, s) \ {z}
  <2>1. Copies(s) = A /\ Copies(s)' = SlotsOf(cache', s) \ {x}
    BY <1>3, <1>9 DEF Copies, z
  <2>2. IsFiniteSet(A)
    BY <2>1, CopiesCounted
  <2>3. CASE x \in A
    <3>1. Copies(s)' = (A \ {x}) \cup {z}
      BY <1>8, <1>10, <1>11, <2>1, <2>3
    <3>2. z \notin A
      OBVIOUS
    <3> HIDE DEF A
    <3> QED
      BY <2>1, <2>2, <2>3, <3>1, <3>2, SwapCount
  <2>4. CASE x \notin A
    <3>1. Copies(s)' = A /\ x \notin SlotsOf(cache', s)
      BY <1>8, <1>10, <1>11, <2>1, <2>4
    <3> QED
      BY <2>1, <3>1
  <2> QED
    BY <2>3, <2>4
<1>13. Stored' = Stored
  BY <1>12 DEF Stored
<1>14. StaleIsCopied'
  BY <1>9, <1>12 DEF StaleIsCopied
<1>15. Safe \subseteq Safe'
  BY DisplaceDurable DEF CInv, Safe
<1> QED
  BY <1>13, <1>14, <1>15

\* A write-back makes signatures safe and changes nothing else.
LEMMA EvictHardens ==
  ASSUME CInv, NEW b \in Bucket, Evict(b)
  PROVE  Stored' = Stored /\ Safe \subseteq Safe' /\ StaleIsCopied'
<1>1. cache' = cache /\ op' = op
  BY DEF Evict
<1>2. Scratch' = Scratch
  BY <1>1 DEF Scratch
<1>3. \A s \in Sig : Copies(s)' = Copies(s)
  BY <1>1, <1>2 DEF Copies
<1>4. StaleIsCopied'
  BY <1>1, <1>2, <1>3 DEF CInv, StaleIsCopied
<1>5. Safe \subseteq Safe'
  BY EvictFailDurable DEF Safe
<1> QED
  BY <1>3, <1>4, <1>5, SameCopies

\* Without an insertion in progress there is no slot to be stale.
LEMMA NoScratch ==
  ASSUME ~op.busy
  PROVE  /\ Scratch = {} /\ StaleIsCopied
         /\ \A s \in Sig : Copies(s) = SlotsOf(cache, s)
BY DEF Scratch, StaleIsCopied, Copies

\* A slot out of the reach of a signature is not one of its slots.
LEMMA OutOfReachIsForeign ==
  ASSUME IInv, op.busy, OutOfReach, NEW r \in Sig, SlotAt(op.cur, op.idx) \in SlotsOf(cache, r)
  PROVE  r # op.sig
<1> SUFFICES ASSUME r = op.sig PROVE FALSE
  OBVIOUS
<1>1. op \in Inserting
  BY ScratchIs DEF IInv
<1>2. PICK c \in Nat, h \in Nat : op.cur = c /\ op.sig.home = h /\ r.home = h
  BY <1>1 DEF Inserting, Sig, Bucket
<1>3. c \in h .. h + NumBuckets - 1 /\ c - h >= MaxProb
  BY <1>2 DEF IInv, WindowFull, OutOfReach
<1>4. PICK d \in 0 .. MaxProb - 1 : MOD(c) = MOD(h + d)
  <2>1. SlotAt(op.cur, op.idx)[1] = MOD(c)
    BY <1>2 DEF SlotAt
  <2> QED
    BY <1>2, <2>1 DEF SlotsOf
<1>5. PICK a \in Int, p \in 1 .. NumBuckets - 1 : a = h + d /\ a + p = c
  <2>1. h + d \in Int /\ c - (h + d) \in 1 .. NumBuckets - 1 /\ (h + d) + (c - (h + d)) = c
    BY <1>3, MaxProbAssumption, NumBucketsAssumption
  <2> QED
    BY <2>1
<1>6. (a + p) % NumBuckets # a % NumBuckets
  BY ModDistinct, NumBucketsAssumption
<1> QED
  BY <1>4, <1>5, <1>6 DEF MOD

\* An insertion that gives up leaves the stale tag as a second copy.
LEMMA FailDuplicates ==
  ASSUME CInv, insert_fail
  PROVE  \/ Stored' = Stored /\ Safe' = Safe
         \/ \E r \in Sig \ {op.sig} :
              /\ Stored[r] > 0 /\ Stored' = [Stored EXCEPT ![r] = @ + 1]
              /\ Safe \subseteq Safe' /\ Safe' \subseteq Safe \cup {r}
<1> DEFINE z == SlotAt(op.cur, op.idx)
<1>1. op.busy /\ OutOfReach /\ cache' = cache /\ pm' = pm /\ op' = Idle
  BY DEF insert_fail
<1>2. Scratch = {z} /\ Scratch' = {}
  BY <1>1, ScratchIs DEF CInv, IInv, Scratch, Idle
<1>3. \A s \in Sig : Copies(s) = SlotsOf(cache, s) \ {z} /\ Copies(s)' = SlotsOf(cache, s)
  BY <1>1, <1>2 DEF Copies
<1>4. \A s \in Sig : z \notin SlotsOf(cache, s) => (Durable(s)' <=> Durable(s))
  BY <1>1, <1>2 DEF Durable
<1>5. \A s \in Sig : Durable(s) => Durable(s)'
  BY <1>1, EvictFailDurable
<1>6. CASE \A s \in Sig : z \notin SlotsOf(cache, s)
  <2>1. \A s \in Sig : Copies(s)' = Copies(s)
    BY <1>3, <1>6
  <2> QED
    BY <1>4, <1>6, <2>1, SameCopies DEF Safe
<1>7. CASE \E r \in Sig : z \in SlotsOf(cache, r)
  <2>1. PICK r \in Sig : z \in SlotsOf(cache, r)
    BY <1>7
  <2>2. r # op.sig
    BY <1>1, <2>1, OutOfReachIsForeign DEF CInv
  <2>3. \A s \in Sig : s # r => z \notin SlotsOf(cache, s)
    BY <2>1, OneSignature
  <2> HIDE DEF z
  <2>4. Copies(r) # {}
    BY <1>2, <2>1 DEF CInv, StaleIsCopied
  <2>5. Copies(r)' = Copies(r) \cup {z} /\ z \notin Copies(r)
    BY <1>3, <2>1
  <2>6. Cardinality(Copies(r)') = Cardinality(Copies(r)) + 1
    BY <2>5, CopiesCounted, FS_AddElement
  <2>7. \A s \in Sig : s # r => Copies(s)' = Copies(s)
    BY <1>3, <2>3
  <2>8. Stored' = [Stored EXCEPT ![r] = @ + 1]
    BY <2>6, <2>7 DEF Stored
  <2>9. Stored[r] > 0
    BY <2>4, CopiesCounted
  <2>10. Safe \subseteq Safe' /\ Safe' \subseteq Safe \cup {r}
    BY <1>4, <1>5, <2>3 DEF Safe
  <2> QED
    BY <2>2, <2>8, <2>9, <2>10
<1> QED
  BY <1>6, <1>7

\* The new tag is one more copy of its signature and overwrites none that counts.
LEMMA PlaceAdds ==
  ASSUME CInv, insert_place
  PROVE  /\ op.sig \in Sig /\ Stored' = [Stored EXCEPT ![op.sig] = @ + 1]
         /\ Safe \subseteq Safe' /\ Safe' \subseteq Safe \cup {op.sig}
<1> DEFINE z   == SlotAt(op.cur, op.idx)
           tag == [fpt |-> op.sig.fpt, dis |-> op.cur - op.sig.home]
<1>1. /\ op.busy /\ ~OutOfReach /\ cache' = WriteTag(cache, op.cur, op.idx, tag)
      /\ op' = Idle /\ pm' = pm
  BY DEF insert_place
<1>2. /\ op \in Inserting /\ Scratch = {z} /\ Scratch' = {} /\ cache \in [Slot -> Tag]
  BY <1>1, ScratchIs DEF CInv, IInv, TypeOK, Scratch, Idle
<1>3. op.sig \in Sig /\ op.cur \in Int /\ op.idx \in TagIdx /\ op.sig.home \in Nat
  BY <1>2 DEF Inserting, Sig, Bucket
<1>4. z \in Slot /\ z[1] = MOD(op.cur)
  BY <1>3, SlotAtType
<1>5. op.cur - op.sig.home \in 0 .. MaxProb - 1 /\ op.sig.home + (op.cur - op.sig.home) = op.cur
  BY <1>1, <1>3, MaxProbAssumption, NumBucketsAssumption DEF CInv, IInv, WindowFull, OutOfReach
<1>6. cache'[z] = tag
  BY <1>1, <1>2, <1>4 DEF WriteTag
<1>7. z \in SlotsOf(cache', op.sig)
  <2> HIDE DEF z
  <2> QED
    BY <1>4, <1>5, <1>6 DEF SlotsOf
<1>8. \A s \in Sig : SlotsOf(cache', s) \ {z} = SlotsOf(cache, s) \ {z}
  BY <1>1, <1>2, <1>3, WriteKeepsOthers
<1>9. \A s \in Sig : s # op.sig => z \notin SlotsOf(cache', s)
  BY <1>3, <1>7, OneSignature
<1>10. \A y \in Slot : y # z => cache'[y] = cache[y]
  BY <1>1, <1>2 DEF WriteTag
<1> HIDE DEF z
<1>g. PICK g \in Sig : g = op.sig
  BY <1>3
<1>11. \A s \in Sig : Copies(s) = SlotsOf(cache, s) \ {z} /\ Copies(s)' = SlotsOf(cache', s)
  BY <1>2 DEF Copies
<1>12. Copies(g)' = Copies(g) \cup {z} /\ z \notin Copies(g)
  BY <1>7, <1>8, <1>11, <1>g
<1>13. Cardinality(Copies(g)') = Cardinality(Copies(g)) + 1
  BY <1>12, CopiesCounted, FS_AddElement
<1>14. \A s \in Sig : s # g => Copies(s)' = Copies(s)
  BY <1>8, <1>9, <1>11, <1>g
<1>15. Stored' = [Stored EXCEPT ![g] = @ + 1]
  BY <1>13, <1>14 DEF Stored
<1>16. Safe \subseteq Safe'
  BY PlaceDurable DEF CInv, Safe
<1>17. ASSUME NEW s \in Sig, s # g, Durable(s)' PROVE Durable(s)
  <2>1. PICK y \in SlotsOf(cache', s) : pm'[y] = cache'[y]
    BY <1>17 DEF Durable
  <2>2. y # z /\ y \in Slot
    BY <1>9, <1>17, <1>g, SlotsOfType
  <2>3. y \in SlotsOf(cache, s) \ Scratch
    BY <1>2, <1>8, <2>2 DEF z
  <2> QED
    BY <1>1, <1>10, <2>1, <2>2, <2>3 DEF Durable
<1> QED
  BY <1>15, <1>16, <1>17, <1>g DEF Safe

\* A deletion takes one copy of its own signature.
LEMMA DeleteTakes ==
  ASSUME CInv, NEW key \in Keys, pmwormholefilter_delete(key)
  PROVE  /\ SigOf(key) \in Sig /\ Stored[SigOf(key)] > 0
         /\ Stored' = [Stored EXCEPT ![SigOf(key)] = @ - 1]
         /\ Safe \ {SigOf(key)} \subseteq Safe' /\ Safe' \subseteq Safe
<1> DEFINE s == SigOf(key)
<1>1. s \in Sig
  BY SigOfType
<1>2. PICK prob \in 0 .. MaxProb - 1, j \in TagIdx :
        /\ FirstMatch(cache, s, prob, j)
        /\ cache' = WriteTag(cache, s.home + prob, j, Empty)
  BY DEF pmwormholefilter_delete
<1> HIDE DEF s
<1>3. ~op.busy /\ ~op'.busy /\ UNCHANGED <<pm, op>>
  BY DEF pmwormholefilter_delete
<1>4. cache \in [Slot -> Tag]
  BY DEF CInv, IInv, TypeOK
<1>5. \A r \in Sig : Copies(r) = SlotsOf(cache, r) /\ Copies(r)' = SlotsOf(cache', r)
  BY <1>3 DEF Copies, Scratch
<1> DEFINE x == SlotAt(s.home + prob, j)
<1>6. s.home + prob \in Int
  BY <1>1, MaxProbAssumption DEF Sig, Bucket
<1>7. x \in Slot /\ x[1] = MOD(s.home + prob)
  BY <1>6, SlotAtType
<1>8. cache[x] = [fpt |-> s.fpt, dis |-> prob]
  BY <1>2 DEF FirstMatch, ReadTag
<1>9. \A r \in Sig : SlotsOf(cache', r) \ {x} = SlotsOf(cache, r) \ {x}
  BY <1>2, <1>4, <1>6, WriteKeepsOthers
<1>10. cache' = [cache EXCEPT ![x] = Empty]
  BY <1>2 DEF WriteTag
<1> HIDE DEF x
<1>11. x \in SlotsOf(cache, s)
  BY <1>7, <1>8 DEF SlotsOf
<1>12. \A r \in Sig : r # s => x \notin SlotsOf(cache, r)
  BY <1>1, <1>11, OneSignature
<1>13. cache'[x] = Empty /\ \A y \in Slot : y # x => cache'[y] = cache[y]
  BY <1>4, <1>7, <1>10
<1>14. \A r \in Sig : x \notin SlotsOf(cache', r)
  BY <1>13, EmptyIsNoSlot
<1>15. Copies(s)' = Copies(s) \ {x} /\ x \in Copies(s)
  BY <1>1, <1>5, <1>9, <1>11, <1>14
<1>16. Cardinality(Copies(s)') = Cardinality(Copies(s)) - 1 /\ Stored[s] > 0
  <2>1. IsFiniteSet(Copies(s)) /\ Copies(s) # {}
    BY <1>1, <1>15, CopiesCounted
  <2>2. Cardinality(Copies(s) \ {x}) = Cardinality(Copies(s)) - 1
    BY <1>15, <2>1, FS_RemoveElement
  <2> QED
    BY <1>1, <1>15, <2>1, <2>2, CopiesCounted
<1>17. \A r \in Sig : r # s => Copies(r)' = Copies(r)
  BY <1>5, <1>9, <1>12, <1>14
<1>18. Stored' = [Stored EXCEPT ![s] = @ - 1]
  BY <1>1, <1>16, <1>17 DEF Stored
<1>19. Safe \ {s} \subseteq Safe'
  BY DeleteDurable DEF CInv, Safe, s
<1>20. ASSUME NEW r \in Sig, Durable(r)' PROVE Durable(r)
  <2>1. PICK y \in SlotsOf(cache', r) : pm'[y] = cache'[y]
    BY <1>20 DEF Durable
  <2>2. y # x /\ y \in Slot
    BY <1>14, SlotsOfType
  <2>3. y \in SlotsOf(cache, r) \ Scratch
    BY <1>3, <1>9, <2>2 DEF Scratch
  <2> QED
    BY <1>3, <1>13, <2>1, <2>2, <2>3 DEF Durable
<1> QED
  BY <1>1, <1>16, <1>18, <1>19, <1>20 DEF Safe, s

\* What a power failure leaves is what the medium holds, all of it safe.
LEMMA CrashKeepsSafe ==
  ASSUME CInv, Crash
  PROVE  /\ Stored' \in [Sig -> Nat] /\ Safe \subseteq Safe'
         /\ Safe' = {s \in Sig : Stored'[s] > 0}
<1>1. cache' = pm /\ pm' = pm /\ op' = Idle
  BY DEF Crash
<1>2. Scratch' = {}
  BY <1>1 DEF Scratch, Idle
<1>3. \A s \in Sig : Copies(s)' = SlotsOf(pm, s)
  BY <1>1, <1>2 DEF Copies
<1>4. \A s \in Sig : Durable(s)' <=> SlotsOf(pm, s) # {}
  BY <1>1, <1>2 DEF Durable
<1>5. ASSUME NEW s \in Sig
      PROVE  /\ Cardinality(Copies(s)') \in Nat
             /\ Cardinality(Copies(s)') > 0 <=> SlotsOf(pm, s) # {}
  <2>1. PICK none : none = {}
    OBVIOUS
  <2>2. IsFiniteSet(SlotsOf(pm, s) \ none) /\ Cardinality(SlotsOf(pm, s) \ none) \in Nat
    BY SlotsOfFinite
  <2>3. SlotsOf(pm, s) \ none = SlotsOf(pm, s)
    BY <2>1
  <2> QED
    BY <1>3, <2>2, <2>3, FS_EmptySet
<1>6. \A s \in Sig : Stored'[s] = Cardinality(Copies(s)')
  BY DEF Stored
<1>7. Stored' \in [Sig -> Nat]
  BY <1>5 DEF Stored
<1>8. Safe' = {s \in Sig : Stored'[s] > 0}
  BY <1>4, <1>5, <1>6 DEF Safe
<1>9. Safe \subseteq Safe'
  BY CrashDurable DEF Safe
<1> QED
  BY <1>7, <1>8, <1>9

-----------------------------------------------------------------------------
(* The refinement. *)

\* What the call variable is not needed for: every step is a step of the filter.
LEMMA StepOfFilter == [CNext]_<<vars, call>> => [Next]_vars
BY DEF CNext, Next, InsertStep, vars

\* The strengthened invariant holds throughout.
LEMMA CInvariance == CSpec => []CInv
<1>1. CInit => CInv
  <2> SUFFICES ASSUME CInit PROVE CInv
    OBVIOUS
  <2>1. ~op.busy
    BY DEF CInit, Init, Idle
  <2> QED
    BY <2>1, InitInv, NoScratch DEF CInit, CInv
<1>2. CInv /\ [CNext]_<<vars, call>> => CInv'
  <2> SUFFICES ASSUME CInv, [CNext]_<<vars, call>> PROVE CInv'
    OBVIOUS
  <2>1. IInv'
    BY StepOfFilter, NextInv DEF CInv
  <2>2. ASSUME ~op'.busy PROVE StaleIsCopied'
    BY <2>2 DEF StaleIsCopied, Scratch
  <2>3. CASE pmwormholefilter_init \/ pmwormholefilter_destroy
    BY <2>1, <2>2, <2>3 DEF pmwormholefilter_init, pmwormholefilter_destroy, CInv
  <2>4. CASE \E key \in Keys : pmwormholefilter_insert(key)
    BY <2>1, <2>4, InsertStutters DEF CInv
  <2>5. CASE insert_displace
    BY <2>1, <2>5, DisplaceHardens DEF CInv
  <2>6. CASE \E b \in Bucket : Evict(b)
    BY <2>1, <2>6, EvictHardens DEF CInv
  <2>7. CASE insert_fail \/ insert_place \/ Crash
    BY <2>1, <2>2, <2>7 DEF insert_fail, insert_place, Crash, Idle, CInv
  <2>8. CASE \E key \in Keys : pmwormholefilter_delete(key)
    BY <2>1, <2>2, <2>8 DEF pmwormholefilter_delete, CInv
  <2>9. CASE UNCHANGED <<vars, call>>
    BY <2>1, <2>9 DEF vars, CInv, StaleIsCopied, Copies, Scratch
  <2> QED
    BY <2>3, <2>4, <2>5, <2>6, <2>7, <2>8, <2>9 DEF CNext
<1> QED
  BY <1>1, <1>2, PTL DEF CSpec

\* Initial states map to initial states.
LEMMA MapsInit == CInit => Abstract!Init
<1> SUFFICES ASSUME CInit PROVE Abstract!Init
  OBVIOUS
<1>1. cache = EmptyTable /\ call = Abstract!Event("clear")
  BY DEF CInit, Init
<1>2. Stored = [s \in Sig |-> 0] /\ Safe = {}
  <2>1. \A s \in Sig : SlotsOf(cache, s) = {}
    BY <1>1, EmptyHasNoSlots
  <2>2. \A s \in Sig : Cardinality(Copies(s)) = 0
    BY <2>1, FS_EmptySet DEF Copies
  <2> QED
    BY <2>1, <2>2 DEF Stored, Safe, Durable
<1> QED
  BY <1>1, <1>2 DEF Abstract!Init, Stored, Safe, Copies

\* Every step maps to a step or to a stutter.
LEMMA MapsNext ==
  ASSUME CInv, [CNext]_<<vars, call>>
  PROVE  [Abstract!Next]_(Abstract!vars)
<1>1. CASE (pmwormholefilter_init \/ pmwormholefilter_destroy) /\ call' = Abstract!Event("clear")
  <2>1. cache' = EmptyTable
    BY <1>1 DEF pmwormholefilter_init, pmwormholefilter_destroy
  <2>2. Stored' = [s \in Sig |-> 0] /\ Safe' = {}
    <3>1. \A s \in Sig : SlotsOf(cache', s) = {}
      BY <2>1, EmptyHasNoSlots
    <3>2. \A s \in Sig : Cardinality(Copies(s)') = 0
      BY <3>1, FS_EmptySet DEF Copies
    <3> QED
      BY <3>1, <3>2 DEF Stored, Safe, Durable
  <2>3. Abstract!Clear
    BY <1>1, <2>2 DEF Abstract!Clear, Stored, Safe, Copies
  <2> QED
    BY <2>3 DEF Abstract!Next
<1>2. CASE (\E key \in Keys : pmwormholefilter_insert(key)) /\ UNCHANGED call
  <2>1. Stored' = Stored /\ Safe' = Safe
    BY <1>2, InsertStutters
  <2> QED
    BY <1>2, <2>1 DEF Abstract!vars, Stored, Safe, Copies
<1>3. ASSUME Stored' = Stored, Safe \subseteq Safe', UNCHANGED call PROVE Abstract!Next
  <2>1. (\A s \in Sig : Durable(s) => Stored[s] > 0)'
    BY SafePresent, PTL
  <2>2. Abstract!Harden
    BY <1>3, <2>1 DEF Abstract!Harden, Abstract!Present, Stored, Safe, Copies
  <2> QED
    BY <2>2 DEF Abstract!Next
<1>4. CASE insert_displace /\ UNCHANGED call
  BY <1>3, <1>4, DisplaceHardens
<1>5. CASE (\E b \in Bucket : Evict(b)) /\ UNCHANGED call
  BY <1>3, <1>5, EvictHardens
<1>6. CASE insert_fail /\ call' = Abstract!Returned("insert", op.sig, FALSE)
  <2>1. op.sig \in Sig
    BY <1>6, ScratchIs DEF insert_fail, CInv, IInv, Inserting
  <2>2. Abstract!FailedInsert(op.sig)
    BY <1>6, FailDuplicates
       DEF Abstract!FailedInsert, Abstract!Present, Stored, Safe, Copies
  <2> QED
    BY <2>1, <2>2 DEF Abstract!Next
<1>7. CASE insert_place /\ call' = Abstract!Returned("insert", op.sig, TRUE)
  <2>1. op.sig \in Sig /\ Abstract!Insert(op.sig)
    BY <1>7, PlaceAdds DEF Abstract!Insert, Stored, Safe, Copies
  <2> QED
    BY <2>1 DEF Abstract!Next
<1>8. ASSUME NEW key \in Keys, pmwormholefilter_delete(key),
             call' = Abstract!Returned("delete", SigOf(key), TRUE)
      PROVE  Abstract!Next
  <2>1. SigOf(key) \in Sig /\ Abstract!Delete(SigOf(key))
    BY <1>8, DeleteTakes DEF Abstract!Delete, Abstract!Present, Stored, Safe, Copies
  <2> QED
    BY <2>1 DEF Abstract!Next
<1>9. CASE Crash /\ call' = Abstract!Event("power failure")
  <2>1. Abstract!PowerFailure
    BY <1>9, CrashKeepsSafe DEF Abstract!PowerFailure, Abstract!Present, Stored, Safe, Copies
  <2> QED
    BY <2>1 DEF Abstract!Next
<1>10. CASE UNCHANGED <<vars, call>>
  BY <1>10 DEF vars, Abstract!vars, Durable, Scratch
<1> QED
  BY <1>1, <1>2, <1>4, <1>5, <1>6, <1>7, <1>8, <1>9, <1>10 DEF CNext

\* The filter of src/pm_wf is a persistent multiset of signatures, for every
\* number of buckets, slots and fingerprints, every reach and every set of keys:
\* each call that returns changes it as its result says, displacements and
\* evictions are invisible, and a power failure keeps every signature with a
\* persisted copy (pmwormholefilter_insert, _delete, _init, _destroy).
THEOREM Refinement == CSpec => ImplementsCountingFilter
<1>1. CInv /\ [CNext]_<<vars, call>> => [Abstract!Next]_(Abstract!vars)
  BY MapsNext
<1> QED
  BY <1>1, MapsInit, CInvariance, PTL DEF CSpec, ImplementsCountingFilter, Abstract!Spec

=============================================================================
