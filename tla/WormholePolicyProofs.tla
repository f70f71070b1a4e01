------------------------ MODULE WormholePolicyProofs ------------------------
(***************************************************************************)
(* Proofs about LevelDB's wormhole filter policy (module WormholePolicy),  *)
(* for every list of keys, size of buckets, reach and width of tags.       *)
(***************************************************************************)
EXTENDS WormholePolicy, WellFoundedInduction, FiniteSetTheorems, TLAPS

-----------------------------------------------------------------------------
(* Powers of two.  A recursive function exists because its first n values  *)
(* do, for every n, and they do because there is no least n for which they *)
(* do not.                                                                 *)

\* A set of natural numbers has a least one.
LEMMA LeastNatural ==
  ASSUME NEW S \in SUBSET Nat, S # {}
  PROVE  \E n \in S : \A m \in S : n <= m
<1> DEFINE R == OpToRel(<, Nat)
<1>1. IsWellFoundedOn(R, Nat)
  BY NatLessThanWellFounded
<1>2. \A x, y \in Nat : x < y => <<x, y>> \in R
  BY DEF OpToRel
<1>3. PICK n \in S : \A m \in S : ~(<<m, n>> \in R)
  <2> HIDE DEF R
  <2> QED BY <1>1, WFMin
<1>4. \A m \in S : ~(m < n)
  <2> HIDE DEF R
  <2> QED BY <1>2, <1>3
<1> QED BY <1>4

\* g has the values of pow2 up to n.
Doubles(g, n) == g[0] = 1 /\ \A k \in 0 .. n - 1 : g[k + 1] = 2 * g[k]

\* Up to every n there is a sequence of doublings.
LEMMA DoublesExist ==
  \A n \in Nat : \E g \in [0 .. n -> Nat] : Doubles(g, n)
<1> DEFINE Bad == {n \in Nat : ~ \E g \in [0 .. n -> Nat] : Doubles(g, n)}
<1> SUFFICES ASSUME Bad # {} PROVE FALSE
  OBVIOUS
<1>1. PICK n \in Bad : \A m \in Bad : n <= m
  <2>1. Bad \in SUBSET Nat
    OBVIOUS
  <2> HIDE DEF Bad
  <2> QED BY <2>1, LeastNatural
<1>2. n # 0
  <2>1. [k \in 0 .. 0 |-> 1] \in [0 .. 0 -> Nat] /\ Doubles([k \in 0 .. 0 |-> 1], 0)
    BY DEF Doubles
  <2> QED BY <2>1
<1>3. PICK g \in [0 .. n - 1 -> Nat] : Doubles(g, n - 1)
  BY <1>1, <1>2
<1> DEFINE h == [k \in 0 .. n |-> IF k = n THEN 2 * g[n - 1] ELSE g[k]]
<1>4. h \in [0 .. n -> Nat]
  BY <1>1, <1>2
<1>5. h[0] = 1
  BY <1>1, <1>2, <1>3 DEF Doubles
<1>6. ASSUME NEW k \in 0 .. n - 1 PROVE h[k + 1] = 2 * h[k]
  <2>1. k # n - 1 => k \in 0 .. (n - 1) - 1 /\ g[k + 1] = 2 * g[k]
    BY <1>1, <1>3 DEF Doubles
  <2>2. k = n - 1 => h[k + 1] = 2 * h[k]
    BY <1>1, <1>2
  <2>3. k # n - 1 => h[k + 1] = g[k + 1] /\ h[k] = g[k]
    BY <1>1, <1>2
  <2> QED BY <2>1, <2>2, <2>3
<1> QED BY <1>4, <1>5, <1>6 DEF Doubles

\* Two sequences of doublings agree.
LEMMA DoublesUnique ==
  ASSUME NEW n \in Nat, NEW m \in Nat, NEW g \in [0 .. n -> Nat], NEW h \in [0 .. m -> Nat],
         Doubles(g, n), Doubles(h, m), NEW k \in Nat, k <= n, k <= m
  PROVE  g[k] = h[k]
<1> DEFINE Bad == {j \in Nat : j <= n /\ j <= m /\ g[j] # h[j]}
<1> SUFFICES ASSUME Bad # {} PROVE FALSE
  OBVIOUS
<1>1. PICK j \in Bad : \A i_ \in Bad : j <= i_
  <2>1. Bad \in SUBSET Nat
    OBVIOUS
  <2> HIDE DEF Bad
  <2> QED BY <2>1, LeastNatural
<1>2. j # 0
  BY DEF Doubles
<1>3. g[j - 1] = h[j - 1]
  BY <1>1, <1>2
<1>4. g[j] = 2 * g[j - 1] /\ h[j] = 2 * h[j - 1]
  BY <1>1, <1>2 DEF Doubles
<1> QED BY <1>1, <1>3, <1>4

\* pow2 is what its recursive definition says.
LEMMA Pow2Def ==
  /\ pow2 \in [Nat -> Nat]
  /\ pow2[0] = 1
  /\ \A k \in Nat : pow2[k + 1] = 2 * pow2[k]
<1> DEFINE G(n) == CHOOSE g \in [0 .. n -> Nat] : Doubles(g, n)
           f    == [n \in Nat |-> G(n)[n]]
<1>1. \A n \in Nat : G(n) \in [0 .. n -> Nat] /\ Doubles(G(n), n)
  BY DoublesExist
<1> HIDE DEF G
<1>2. f \in [Nat -> Nat]
  BY <1>1
<1>3. f[0] = 1
  BY <1>1 DEF Doubles
<1>4. ASSUME NEW k \in Nat PROVE f[k + 1] = 2 * f[k]
  <2>1. G(k + 1)[k + 1] = 2 * G(k + 1)[k]
    BY <1>1 DEF Doubles
  <2>2. G(k + 1)[k] = G(k)[k]
    <3>1. /\ k + 1 \in Nat /\ k <= k + 1 /\ k <= k
          /\ G(k + 1) \in [0 .. k + 1 -> Nat] /\ Doubles(G(k + 1), k + 1)
          /\ G(k) \in [0 .. k -> Nat] /\ Doubles(G(k), k)
      BY <1>1
    <3> QED BY <3>1, DoublesUnique
  <2> QED BY <2>1, <2>2
<1>5. f = [k \in Nat |-> IF k = 0 THEN 1 ELSE 2 * f[k - 1]]
  <2>1. \A k \in Nat : k # 0 => k - 1 \in Nat /\ (k - 1) + 1 = k
    OBVIOUS
  <2>2. \A k \in Nat : f[k] = IF k = 0 THEN 1 ELSE 2 * f[k - 1]
    <3> HIDE DEF f
    <3> QED BY <1>3, <1>4, <2>1
  <2> QED BY <1>2, <2>2
<1>6. pow2 = [k \in Nat |-> IF k = 0 THEN 1 ELSE 2 * pow2[k - 1]]
  <2> HIDE DEF f
  <2> QED BY <1>5 DEF pow2
<1>7. \A k \in Nat : pow2[k] = IF k = 0 THEN 1 ELSE 2 * pow2[k - 1]
  BY <1>6
<1>8. \A k \in Nat : pow2[k + 1] = 2 * pow2[k]
  BY <1>7
<1>9. \A k \in Nat : pow2[k] = f[k]
  <2> DEFINE Bad == {k \in Nat : pow2[k] # f[k]}
  <2> SUFFICES ASSUME Bad # {} PROVE FALSE
    OBVIOUS
  <2>1. PICK j \in Bad : \A m \in Bad : j <= m
    <3>1. Bad \in SUBSET Nat
      OBVIOUS
    <3> HIDE DEF Bad
    <3> QED BY <3>1, LeastNatural
  <2>2. j # 0
    <3> HIDE DEF f
    <3> QED BY <1>3, <1>7
  <2>3. pow2[j - 1] = f[j - 1]
    <3> HIDE DEF f
    <3> QED BY <2>1, <2>2
  <2>4. pow2[j] = 2 * pow2[j - 1] /\ f[j] = 2 * f[j - 1]
    <3> HIDE DEF f
    <3> QED BY <1>4, <1>7, <2>1, <2>2
  <2> QED BY <2>1, <2>3, <2>4
<1>10. pow2 \in [Nat -> Nat]
  <2> HIDE DEF f
  <2> QED BY <1>2, <1>6, <1>9
<1> QED BY <1>7, <1>8, <1>10

\* Powers of two grow at least as fast as their exponents.
LEMMA Pow2Grows ==
  \A k \in Nat : pow2[k] > k
<1> DEFINE Bad == {k \in Nat : ~(pow2[k] > k)}
<1> SUFFICES ASSUME Bad # {} PROVE FALSE
  OBVIOUS
<1>1. PICK k \in Bad : \A m \in Bad : k <= m
  <2>1. Bad \in SUBSET Nat
    OBVIOUS
  <2> HIDE DEF Bad
  <2> QED BY <2>1, LeastNatural
<1>2. k # 0
  BY Pow2Def
<1>3. k - 1 \in Nat /\ pow2[k - 1] \in Nat /\ pow2[k - 1] > k - 1
  BY <1>1, <1>2, Pow2Def
<1>4. pow2[(k - 1) + 1] = 2 * pow2[k - 1]
  BY <1>3, Pow2Def
<1> QED BY <1>1, <1>3, <1>4

\* upperpower2 rounds up.
LEMMA UpperPower ==
  ASSUME NEW x \in Nat
  PROVE  upperpower2(x) \in Nat /\ upperpower2(x) >= x
<1> DEFINE Enough == {k \in 0 .. x : pow2[k] >= x}
<1>1. \A k \in Nat : pow2[k] \in Nat
  BY Pow2Def
<1>2. x \in Enough
  BY <1>1, Pow2Grows
<1>3. PICK k \in Enough : \A l \in Enough : k <= l
  <2>1. Enough \in SUBSET Nat /\ Enough # {}
    BY <1>2
  <2> HIDE DEF Enough
  <2> QED BY <2>1, LeastNatural
<1> DEFINE Least(m) == pow2[m] >= x /\ \A l \in 0 .. x : pow2[l] >= x => m <= l
           c == CHOOSE m \in 0 .. x : Least(m)
<1>4. k \in 0 .. x /\ Least(k)
  BY <1>3
<1>5. c \in 0 .. x /\ Least(c)
  <2> HIDE DEF Least
  <2> QED BY <1>4
<1>6. upperpower2(x) = pow2[c]
  BY DEF upperpower2
<1>7. c \in Nat /\ pow2[c] >= x
  BY <1>5
<1> QED BY <1>1, <1>6, <1>7

\* The table CreateFilter makes for n keys has more than n slots.
LEMMA TableHasRoom ==
  ASSUME NEW n \in Nat \ {0}
  PROVE  NumBucketsFor(n) \in Nat \ {0} /\ n < NumBucketsFor(n) * SlotPerBuk
<1> DEFINE q  == n \div SlotPerBuk
           x  == IF q >= 1 THEN q ELSE 1
           nb == upperpower2(x)
<1>1. SlotPerBuk \in Nat \ {0}
  BY PolicyAssumption
<1>2. q \in Nat /\ n < SlotPerBuk * (q + 1)
  <2>1. n = (SlotPerBuk * q) + (n % SlotPerBuk) /\ n % SlotPerBuk \in 0 .. SlotPerBuk - 1 /\ q \in Nat
    BY <1>1
  <2>2. SlotPerBuk * (q + 1) = SlotPerBuk * q + SlotPerBuk /\ SlotPerBuk * q \in Nat
    BY <1>1, <2>1
  <2> HIDE DEF q
  <2> QED BY <1>1, <2>1, <2>2
<1> HIDE DEF q
<1>3. x \in Nat /\ x >= 1 /\ x >= q
  BY <1>2
<1> HIDE DEF x
<1>4. nb \in Nat /\ nb >= x
  BY <1>3, UpperPower
<1>5. NumBucketsFor(n) = IF 5 * n > 4 * nb * SlotPerBuk THEN 2 * nb ELSE nb
  BY DEF NumBucketsFor, q, x
<1> HIDE DEF nb
<1>6. nb \in Nat /\ nb >= 1 /\ q <= nb
  BY <1>2, <1>3, <1>4
<1> DEFINE p == nb * SlotPerBuk
<1>7. p \in Nat /\ 2 * nb * SlotPerBuk = 2 * p /\ 4 * nb * SlotPerBuk = 4 * p
  BY <1>1, <1>6
<1>8. SlotPerBuk * (q + 1) <= 2 * p
  <2>1. q + 1 <= 2 * nb
    BY <1>2, <1>6
  <2>2. SlotPerBuk * (q + 1) <= SlotPerBuk * (2 * nb)
    BY <1>1, <1>2, <1>6, <2>1
  <2>3. SlotPerBuk * (2 * nb) = 2 * nb * SlotPerBuk
    BY <1>1, <1>6
  <2> QED BY <1>7, <2>2, <2>3
<1>9. SlotPerBuk * (q + 1) \in Nat
  BY <1>1, <1>2
<1>10. CASE 5 * n > 4 * nb * SlotPerBuk
  <2>1. n < 2 * p
    <3> HIDE DEF p
    <3> QED BY <1>2, <1>7, <1>8, <1>9
  <2> QED BY <1>5, <1>6, <1>7, <1>10, <2>1
<1>11. CASE ~(5 * n > 4 * nb * SlotPerBuk)
  <2>1. 5 * n <= 4 * p
    BY <1>7, <1>11
  <2>2. n < p
    <3> HIDE DEF p
    <3> QED BY <1>7, <2>1
  <2> QED BY <1>5, <1>6, <1>11, <2>2
<1> QED BY <1>10, <1>11

-----------------------------------------------------------------------------
(* Arithmetic of the bucket ring. *)

\* Division with remainder.
LEMMA DivMod ==
  ASSUME NEW n \in Nat \ {0}, NEW a \in Int
  PROVE  /\ a \div n \in Int /\ a % n \in 0 .. n - 1
         /\ a = (n * (a \div n)) + (a % n)
  OBVIOUS

\* The remainder is determined by any representation as quotient and rest.
LEMMA ModUnique ==
  ASSUME NEW n \in Nat \ {0}, NEW q \in Int, NEW r \in 0 .. n - 1
  PROVE  ((n * q) + r) % n = r
  OBVIOUS

\* Walking the same way from two names of one bucket ends in one bucket.
LEMMA ModShift ==
  ASSUME NEW n \in Nat \ {0}, NEW a \in Int, NEW b \in Int, NEW c \in Int,
         a % n = b % n
  PROVE  (a + c) % n = (b + c) % n
<1> DEFINE r  == (b + c) % n
           qa == a \div n
           qb == b \div n
           q  == (b + c) \div n
<1>1. qa \in Int /\ qb \in Int /\ q \in Int /\ r \in 0 .. n - 1
  BY DivMod
<1>2. a = (n * qa) + (a % n) /\ b = (n * qb) + (b % n) /\ b + c = (n * q) + r
  BY DivMod
<1>3. a % n \in Int /\ b % n \in Int
  BY DivMod
<1> HIDE DEF qa, qb, q
<1>4. a + c = (n * (q + qa - qb)) + r
  <2> HIDE DEF r
  <2>1. a - b = (n * qa) - (n * qb)
    BY <1>1, <1>2, <1>3
  <2>2. n * (q + qa - qb) = (n * q) + (n * qa) - (n * qb)
    BY <1>1
  <2>3. n * q \in Int /\ n * qa \in Int /\ n * qb \in Int
    BY <1>1
  <2> QED BY <1>1, <1>2, <2>1, <2>2, <2>3
<1>5. ((n * (q + qa - qb)) + r) % n = r
  <2> HIDE DEF r
  <2> QED BY <1>1, ModUnique
<1> QED BY <1>4, <1>5

\* Fewer than n steps around a ring of n buckets do not close the circle.
LEMMA ModDistinct ==
  ASSUME NEW n \in Nat \ {0}, NEW a \in Int, NEW p \in 1 .. n - 1
  PROVE  (a - p) % n # a % n
<1> SUFFICES ASSUME (a - p) % n = a % n PROVE FALSE
  OBVIOUS
<1>1. PICK b \in Int, c \in Int : b = a - p /\ c = p - a
  OBVIOUS
<1>2. (b + c) % n = (a + c) % n
  BY <1>1, ModShift
<1>3. b + c = 0 /\ a + c = p
  BY <1>1
<1>4. p % n = p /\ 0 % n = 0
  OBVIOUS
<1> QED BY <1>2, <1>3, <1>4

-----------------------------------------------------------------------------
(* Tables of n buckets. *)

Idx == 0 .. SlotPerBuk - 1

\* Every access of the code is to a slot of the table.
LEMMA SlotAtType ==
  ASSUME NEW n \in Nat \ {0}, NEW a \in Int, NEW j \in Idx
  PROVE  T(n)!SlotAt(a, j) \in T(n)!Slot
  BY DivMod DEF T!SlotAt, T!Slot, T!MOD, T!Bucket, T!TagIdx, Idx

\* A table has SlotPerBuk slots in each of its buckets.
LEMMA SlotCount ==
  ASSUME NEW n \in Nat \ {0}
  PROVE  IsFiniteSet(T(n)!Slot) /\ Cardinality(T(n)!Slot) = n * SlotPerBuk
<1>1. SlotPerBuk \in Nat \ {0}
  BY PolicyAssumption
<1>2. IsFiniteSet(0 .. n - 1) /\ Cardinality(0 .. n - 1) = n
  BY FS_Interval
<1>3. IsFiniteSet(0 .. SlotPerBuk - 1) /\ Cardinality(0 .. SlotPerBuk - 1) = SlotPerBuk
  BY <1>1, FS_Interval
<1>4. /\ IsFiniteSet((0 .. n - 1) \X (0 .. SlotPerBuk - 1))
      /\ Cardinality((0 .. n - 1) \X (0 .. SlotPerBuk - 1))
           = Cardinality(0 .. n - 1) * Cardinality(0 .. SlotPerBuk - 1)
  BY <1>2, <1>3, FS_Product, Zenon
<1>5. T(n)!Slot = (0 .. n - 1) \X (0 .. SlotPerBuk - 1)
  BY DEF T!Slot, T!Bucket, T!TagIdx
<1> QED BY <1>2, <1>3, <1>4, <1>5

\* The signature the hash functions compute.
LEMMA SigType ==
  ASSUME NEW n \in Nat \ {0}, NEW key \in Keys
  PROVE  T(n)!SigOfHash(key) \in T(n)!Sig
<1>1. key \in Nat /\ HalfWord \in Nat \ {0} /\ FptRange \in Nat /\ FptRange > 1
  BY PolicyAssumption
<1>a. key \in Int /\ key % HalfWord \in Int /\ key \div HalfWord \in Int
  BY <1>1
<1>2. PICK lo \in Int : lo = key % HalfWord
  BY <1>a
<1>3. PICK hi \in Int : hi = key \div HalfWord
  BY <1>a
<1>4. T(n)!index_hash(key) \in T(n)!Bucket
  BY <1>2, DivMod DEF T!index_hash, T!MOD, T!Bucket
<1>5. T(n)!tag_hash(hi) \in 1 .. FptRange - 1
  <2>0. FptRange \in Nat \ {0}
    BY <1>1
  <2>1. PICK r \in 0 .. FptRange - 1 : r = hi % FptRange
    BY <2>0
  <2>2. T(n)!tag_hash(hi) = IF r = 0 THEN 1 ELSE r
    BY <2>1 DEF T!tag_hash
  <2> QED BY <1>1, <2>1, <2>2
<1> QED BY <1>3, <1>4, <1>5 DEF T!SigOfHash, T!Sig

\* Writing a tag changes its slot and no other.
LEMMA WriteEffect ==
  ASSUME NEW n \in Nat \ {0}, NEW t \in [T(n)!Slot -> T(n)!Tag], NEW a \in Int,
         NEW j \in Idx, NEW tag \in T(n)!Tag
  PROVE  /\ T(n)!WriteTag(t, a, j, tag) \in [T(n)!Slot -> T(n)!Tag]
         /\ \A x \in T(n)!Slot :
              T(n)!WriteTag(t, a, j, tag)[x] = IF x = T(n)!SlotAt(a, j) THEN tag ELSE t[x]
<1>1. T(n)!SlotAt(a, j) \in T(n)!Slot
  BY SlotAtType
<1> QED BY <1>1 DEF T!WriteTag

\* A signature is found in some slot other than x.
KeptBeside(n, t, s, x) ==
  \E d \in 0 .. MaxProb - 1, j \in Idx :
    /\ T(n)!ReadTag(t, s.home + d, j) = [fpt |-> s.fpt, dis |-> d]
    /\ T(n)!SlotAt(s.home + d, j) # x

\* What is found beside a slot is found.
LEMMA KeptIsFound ==
  ASSUME NEW n, NEW t, NEW s, NEW x, KeptBeside(n, t, s, x)
  PROVE  T(n)!Lookup(t, s)
  BY DEF KeptBeside, T!Lookup, T!TagIdx, Idx

\* An empty slot holds no signature.
LEMMA FoundBesideEmpty ==
  ASSUME NEW n \in Nat \ {0}, NEW t, NEW s \in T(n)!Sig, T(n)!Lookup(t, s),
         NEW x, t[x] = T(n)!Empty
  PROVE  KeptBeside(n, t, s, x)
<1>1. PICK d \in 0 .. MaxProb - 1, j \in Idx :
        T(n)!ReadTag(t, s.home + d, j) = [fpt |-> s.fpt, dis |-> d]
  BY DEF T!Lookup, T!TagIdx, Idx
<1>2. s.fpt # 0
  BY DEF T!Sig
<1>3. [fpt |-> s.fpt, dis |-> d] # T(n)!Empty
  BY <1>2 DEF T!Empty
<1>4. T(n)!SlotAt(s.home + d, j) # x
  BY <1>1, <1>3 DEF T!ReadTag
<1> QED BY <1>1, <1>4 DEF KeptBeside

\* Writing into the slot beside which a signature is kept leaves it found.
LEMMA WriteBeside ==
  ASSUME NEW n \in Nat \ {0}, NEW t \in [T(n)!Slot -> T(n)!Tag], NEW s \in T(n)!Sig,
         NEW a \in Int, NEW k \in Idx, NEW tag \in T(n)!Tag,
         KeptBeside(n, t, s, T(n)!SlotAt(a, k))
  PROVE  T(n)!Lookup(T(n)!WriteTag(t, a, k, tag), s)
<1>1. PICK d \in 0 .. MaxProb - 1, j \in Idx :
        /\ T(n)!ReadTag(t, s.home + d, j) = [fpt |-> s.fpt, dis |-> d]
        /\ T(n)!SlotAt(s.home + d, j) # T(n)!SlotAt(a, k)
  BY DEF KeptBeside
<1>2. s.home + d \in Int
  BY PolicyAssumption DEF T!Sig, T!Bucket
<1>3. T(n)!SlotAt(s.home + d, j) \in T(n)!Slot
  BY <1>2, SlotAtType
<1>4. T(n)!ReadTag(T(n)!WriteTag(t, a, k, tag), s.home + d, j) = [fpt |-> s.fpt, dis |-> d]
  BY <1>1, <1>3, WriteEffect DEF T!ReadTag
<1> QED BY <1>4 DEF T!Lookup, T!TagIdx, Idx

\* Moving a tag leaves every signature in some slot other than the one the tag
\* came from, which will be overwritten.
LEMMA MoveKeeps ==
  ASSUME NEW n \in Nat \ {0}, NEW t \in [T(n)!Slot -> T(n)!Tag], NEW s \in T(n)!Sig,
         NEW cur \in Int, NEW idx \in Idx, NEW prob \in 1 .. MaxProb - 1, NEW j \in Idx,
         prob < n, T(n)!Movable(t, cur, prob, j),
         KeptBeside(n, t, s, T(n)!SlotAt(cur, idx))
  PROVE  /\ T(n)!MovedTag(t, cur, prob, j) \in T(n)!Tag
         /\ KeptBeside(n, T(n)!WriteTag(t, cur, idx, T(n)!MovedTag(t, cur, prob, j)), s,
                       T(n)!SlotAt(cur - prob, j))
<1> DEFINE tag == T(n)!MovedTag(t, cur, prob, j)
           u   == T(n)!WriteTag(t, cur, idx, tag)
           P   == T(n)!SlotAt(cur, idx)
           Q   == T(n)!SlotAt(cur - prob, j)
<1>1. MaxProb \in Nat \ {0} /\ FptRange \in Nat
  BY PolicyAssumption
<1>2. cur - prob \in Int /\ P \in T(n)!Slot /\ Q \in T(n)!Slot
  BY <1>1, SlotAtType
<1>3. P # Q
  <2>1. (cur - prob) % n # cur % n
    <3>1. prob \in 1 .. n - 1
      BY <1>1
    <3> QED BY <3>1, ModDistinct
  <2> QED BY <2>1 DEF T!SlotAt, T!MOD
<1>4. PICK f \in 0 .. FptRange - 1, e \in 0 .. MaxProb - 1 : t[Q] = [fpt |-> f, dis |-> e]
  BY <1>2 DEF T!Tag
<1>5. e + prob < MaxProb
  BY <1>4 DEF T!Movable, T!ReadTag
<1>6. tag = [fpt |-> f, dis |-> e + prob]
  BY <1>4 DEF T!MovedTag, T!ReadTag
<1>7. tag \in T(n)!Tag
  BY <1>1, <1>5, <1>6 DEF T!Tag
<1> HIDE DEF tag, P, Q
<1>8. \A x \in T(n)!Slot : u[x] = IF x = P THEN tag ELSE t[x]
  BY <1>7, WriteEffect DEF P
<1> HIDE DEF u
<1>9. PICK d \in 0 .. MaxProb - 1, k \in Idx :
        /\ t[T(n)!SlotAt(s.home + d, k)] = [fpt |-> s.fpt, dis |-> d]
        /\ T(n)!SlotAt(s.home + d, k) # P
  BY DEF KeptBeside, T!ReadTag, P
<1>10. s.home \in Int /\ s.home + d \in Int /\ T(n)!SlotAt(s.home + d, k) \in T(n)!Slot
  BY <1>1, SlotAtType DEF T!Sig, T!Bucket
<1>11. CASE T(n)!SlotAt(s.home + d, k) # Q
  <2>1. u[T(n)!SlotAt(s.home + d, k)] = [fpt |-> s.fpt, dis |-> d]
    BY <1>8, <1>9, <1>10
  <2> QED BY <1>7, <1>11, <2>1 DEF KeptBeside, T!ReadTag, u, tag, Q
<1>12. CASE T(n)!SlotAt(s.home + d, k) = Q
  <2>1. f = s.fpt /\ e = d
    BY <1>4, <1>9, <1>12
  <2>2. (s.home + d) % n = (cur - prob) % n
    BY <1>12 DEF Q, T!SlotAt, T!MOD
  <2>3. ((s.home + d) + prob) % n = ((cur - prob) + prob) % n
    <3>1. PICK a \in Int, b \in Int : a = s.home + d /\ b = cur - prob
      BY <1>2, <1>10
    <3>2. prob \in Int /\ a % n = b % n
      BY <2>2, <3>1
    <3>3. (a + prob) % n = (b + prob) % n
      BY <3>2, ModShift
    <3> QED BY <3>1, <3>3
  <2>4. (s.home + d) + prob = s.home + (d + prob) /\ (cur - prob) + prob = cur
    BY <1>10
  <2>5. T(n)!SlotAt(s.home + (d + prob), idx) = P
    BY <2>3, <2>4 DEF P, T!SlotAt, T!MOD
  <2>6. u[P] = [fpt |-> s.fpt, dis |-> d + prob]
    BY <1>2, <1>6, <1>8, <2>1
  <2>7. d + prob \in 0 .. MaxProb - 1
    BY <1>1, <1>5, <2>1
  <2> QED BY <1>3, <1>7, <2>5, <2>6, <2>7 DEF KeptBeside, T!ReadTag, u, tag, Q
<1> QED BY <1>7, <1>11, <1>12 DEF u, tag, Q

-----------------------------------------------------------------------------
(* The inductive invariant. *)

\* The slots that hold a tag.
Filled(n, t) == {x \in T(n)!Slot : t[x] # T(n)!Empty}

OpSlot == T(num_buckets_)!SlotAt(op.cur, op.idx)

\* The slots in use: the filled ones and, while InsertItem runs, the one it
\* has found, which a failed insertion leaves filled.
Used == Filled(num_buckets_, array) \cup (IF op.busy THEN {OpSlot} ELSE {})

\* InsertItem's loop: no bucket between the key's home and the slot found has
\* an empty slot, so a tag is only ever moved from a slot that holds one.
RunningInsert ==
  /\ i <= Len(keys)
  /\ op = [busy |-> TRUE, sig |-> SigOf(keys[i]), cur |-> op.cur, idx |-> op.idx]
  /\ op.cur \in op.sig.home .. op.sig.home + num_buckets_ - 1
  /\ op.idx \in Idx
  /\ \A k \in op.sig.home .. op.cur - 1 : \A l \in Idx :
       T(num_buckets_)!ReadTag(array, k, l) # T(num_buckets_)!Empty

\* An accepted key is found; while tags are being moved, in a slot that is not
\* about to be overwritten.
Found(key) ==
  IF op.busy THEN KeptBeside(num_buckets_, array, SigOf(key), OpSlot)
             ELSE T(num_buckets_)!Lookup(array, SigOf(key))

\* At most one slot is used for each key whose insertion began.
PolicyInv ==
  /\ keys \in KeyLists
  /\ num_buckets_ = NumBucketsFor(Len(keys))
  /\ array \in [T(num_buckets_)!Slot -> T(num_buckets_)!Tag]
  /\ i \in 1 .. Len(keys) + 1
  /\ accepted \subseteq Keys
  /\ op = Idle \/ RunningInsert
  /\ Cardinality(Used) <= IF op.busy THEN i ELSE i - 1
  /\ \A key \in accepted : Found(key)

\* The length of a list given to CreateFilter, and its table.
LEMMA ListFacts ==
  ASSUME NEW ks \in KeyLists
  PROVE  /\ Len(ks) \in Nat \ {0}
         /\ \A k \in 1 .. Len(ks) : ks[k] \in Keys
         /\ NumBucketsFor(Len(ks)) \in Nat \ {0}
<1>1. PICK m \in 1 .. MaxKeys : ks \in [1 .. m -> Keys]
  BY DEF KeyLists
<1>2. Len(ks) = m /\ m \in Nat \ {0}
  BY <1>1, PolicyAssumption
<1> QED BY <1>1, <1>2, TableHasRoom

\* A signature moved, or placed, fills its slot.
LEMMA WriteFills ==
  ASSUME NEW n \in Nat \ {0}, NEW t \in [T(n)!Slot -> T(n)!Tag], NEW a \in Int,
         NEW j \in Idx, NEW tag \in T(n)!Tag, tag # T(n)!Empty
  PROVE  Filled(n, T(n)!WriteTag(t, a, j, tag)) = Filled(n, t) \cup {T(n)!SlotAt(a, j)}
<1>1. T(n)!SlotAt(a, j) \in T(n)!Slot
  BY SlotAtType
<1>2. \A x \in T(n)!Slot :
        T(n)!WriteTag(t, a, j, tag)[x] = IF x = T(n)!SlotAt(a, j) THEN tag ELSE t[x]
  BY WriteEffect
<1> QED BY <1>1, <1>2 DEF Filled

\* The new table has no filled slot.
LEMMA PolicyInit == Init => PolicyInv
<1> SUFFICES ASSUME Init PROVE PolicyInv
  OBVIOUS
<1>1. PICK ks \in KeyLists : CreateFilter(ks)
  BY DEF Init
<1>2. PICK n \in Nat \ {0} : n = NumBucketsFor(Len(ks))
  BY ListFacts
<1>3. /\ keys = ks /\ num_buckets_ = n /\ array = T(n)!EmptyTable /\ i = 1
      /\ op = Idle /\ accepted = {}
  BY <1>1, <1>2 DEF CreateFilter
<1>4. T(n)!Empty \in T(n)!Tag
  BY PolicyAssumption DEF T!Empty, T!Tag
<1>5. array \in [T(n)!Slot -> T(n)!Tag]
  BY <1>3, <1>4 DEF T!EmptyTable
<1>6. Used = {}
  <2>1. \A x \in T(n)!Slot : T(n)!EmptyTable[x] = T(n)!Empty
    BY DEF T!EmptyTable
  <2> QED BY <1>3, <2>1 DEF Used, Filled, Idle
<1>7. Cardinality(Used) = 0 /\ ~op.busy
  BY <1>3, <1>6, FS_EmptySet DEF Idle
<1>8. i \in 1 .. Len(keys) + 1
  BY <1>3, ListFacts
<1> QED BY <1>2, <1>3, <1>5, <1>7, <1>8 DEF PolicyInv

\* What the invariant says of the table in use.
LEMMA TableInUse ==
  ASSUME PolicyInv, NEW n, n = num_buckets_
  PROVE  /\ n \in Nat \ {0}
         /\ Len(keys) \in Nat \ {0} /\ i \in Nat \ {0}
         /\ i <= Len(keys) => keys[i] \in Keys /\ SigOf(keys[i]) \in T(n)!Sig
         /\ Len(keys) < n * SlotPerBuk
         /\ array \in [T(n)!Slot -> T(n)!Tag]
         /\ IsFiniteSet(Used) /\ Cardinality(Used) \in Nat
         /\ op.busy => OpSlot \in T(n)!Slot
         /\ \A key \in accepted : SigOf(key) \in T(n)!Sig
<1>1. keys \in KeyLists /\ n = NumBucketsFor(Len(keys)) /\ i \in 1 .. Len(keys) + 1
  BY DEF PolicyInv
<1>2. n \in Nat \ {0} /\ Len(keys) \in Nat \ {0} /\ i \in Nat \ {0}
  BY <1>1, ListFacts
<1>3. Len(keys) < n * SlotPerBuk
  BY <1>1, <1>2, TableHasRoom
<1>4. ASSUME i <= Len(keys) PROVE keys[i] \in Keys /\ SigOf(keys[i]) \in T(n)!Sig
  <2>1. keys[i] \in Keys
    BY <1>1, <1>2, <1>4, ListFacts
  <2> QED BY <1>2, <2>1, SigType DEF SigOf
<1>5. ASSUME op.busy PROVE OpSlot \in T(n)!Slot
  <2>1. RunningInsert
    BY <1>5 DEF PolicyInv, Idle
  <2>2. op.sig \in T(n)!Sig
    BY <1>4, <2>1 DEF RunningInsert
  <2>3. op.cur \in Int /\ op.idx \in Idx
    BY <1>2, <2>1, <2>2 DEF RunningInsert, T!Sig, T!Bucket
  <2> QED BY <1>2, <2>3, SlotAtType DEF OpSlot
<1>6. Used \in SUBSET T(n)!Slot
  BY <1>5 DEF Used, Filled
<1>7. IsFiniteSet(Used) /\ Cardinality(Used) \in Nat
  BY <1>2, <1>6, SlotCount, FS_Subset, FS_CardinalityType
<1>8. \A key \in accepted : SigOf(key) \in T(n)!Sig
  BY <1>2, SigType DEF SigOf, PolicyInv
<1> QED BY <1>1, <1>2, <1>3, <1>4, <1>5, <1>7, <1>8 DEF PolicyInv

\* The table has more slots than there are keys, and so one that is empty.
LEMMA InvHasEmpty ==
  ASSUME PolicyInv, Building, ~op.busy
  PROVE  HasEmpty
<1>1. PICK n : n = num_buckets_
  OBVIOUS
<1> DEFINE U == Filled(n, array)
<1>2. U = Used
  BY <1>1 DEF Used
<1>3. Cardinality(U) <= i - 1 /\ Cardinality(U) \in Nat
  BY <1>1, <1>2, TableInUse DEF PolicyInv
<1>4. n \in Nat \ {0} /\ Len(keys) \in Nat /\ i \in Nat /\ Len(keys) < n * SlotPerBuk
  BY <1>1, TableInUse
<1>5. n * SlotPerBuk \in Nat /\ Cardinality(T(n)!Slot) = n * SlotPerBuk
  BY <1>4, SlotCount, PolicyAssumption
<1>6. Cardinality(U) # Cardinality(T(n)!Slot)
  BY <1>3, <1>4, <1>5 DEF Building
<1>7. U # T(n)!Slot
  BY <1>6
<1> QED BY <1>1, <1>7 DEF Filled, HasEmpty

\* The scan for an empty slot.
LEMMA InsertItemKeeps ==
  ASSUME PolicyInv, InsertItem
  PROVE  PolicyInv'
<1>1. PICK n : n = num_buckets_
  OBVIOUS
<1>2. PICK s : s = SigOf(keys[i])
  OBVIOUS
<1>3. /\ num_buckets_' = n /\ keys' = keys /\ array' = array /\ i' = i
      /\ accepted' = accepted /\ i <= Len(keys) /\ ~op.busy
  BY <1>1 DEF InsertItem, Building
<1>4. /\ n \in Nat \ {0} /\ s \in T(n)!Sig /\ array \in [T(n)!Slot -> T(n)!Tag]
      /\ IsFiniteSet(Used) /\ Cardinality(Used) \in Nat /\ i \in Nat
      /\ \A key \in accepted : SigOf(key) \in T(n)!Sig
  BY <1>1, <1>2, <1>3, TableInUse
<1>5. s.home \in Int
  BY <1>4 DEF T!Sig, T!Bucket
<1>6. PICK b \in s.home .. s.home + n - 1, j \in Idx :
        /\ T(n)!FirstEmpty(array, s.home, b, j)
        /\ op' = [busy |-> TRUE, sig |-> s, cur |-> b, idx |-> j]
  BY <1>1, <1>2 DEF InsertItem, Idx
<1>7. op'.busy = TRUE /\ op'.sig = s /\ op'.cur = b /\ op'.idx = j
  BY <1>6
<1>8. \A key : SigOf(key)' = SigOf(key)
  BY <1>1, <1>3 DEF SigOf
<1>9. RunningInsert'
  <2>1. \A k \in s.home .. b - 1 : \A l \in Idx : T(n)!ReadTag(array, k, l) # T(n)!Empty
    BY <1>5, <1>6 DEF T!FirstEmpty, T!TagIdx, Idx
  <2> QED BY <1>2, <1>3, <1>6, <1>7, <1>8, <2>1 DEF RunningInsert
<1>10. OpSlot' = T(n)!SlotAt(b, j)
  BY <1>3, <1>7 DEF OpSlot
<1>11. Used' = Used \cup {T(n)!SlotAt(b, j)}
  BY <1>1, <1>3, <1>7, <1>10 DEF Used
<1>12. Cardinality(Used') <= i
  <2>1. Cardinality(Used) <= i - 1
    BY <1>3 DEF PolicyInv
  <2>2. Cardinality(Used \cup {T(n)!SlotAt(b, j)}) \in {Cardinality(Used), Cardinality(Used) + 1}
    BY <1>4, FS_AddElement
  <2> QED BY <1>4, <1>11, <2>1, <2>2
<1>13. \A key \in accepted : Found(key)'
  <2>1. array[T(n)!SlotAt(b, j)] = T(n)!Empty
    BY <1>6 DEF T!FirstEmpty, T!ReadTag
  <2>2. \A key \in accepted : T(n)!Lookup(array, SigOf(key))
    BY <1>1, <1>3 DEF PolicyInv, Found
  <2>3. \A key \in accepted : KeptBeside(n, array, SigOf(key), T(n)!SlotAt(b, j))
    BY <1>4, <2>1, <2>2, FoundBesideEmpty
  <2> QED BY <1>3, <1>7, <1>8, <1>10, <2>3 DEF Found
<1> QED BY <1>1, <1>3, <1>7, <1>9, <1>12, <1>13 DEF PolicyInv

\* What the invariant says while InsertItem runs.
LEMMA RunningFacts ==
  ASSUME PolicyInv, op.busy, NEW n, n = num_buckets_
  PROVE  /\ RunningInsert /\ op.sig \in T(n)!Sig
         /\ op.sig.home \in Int /\ op.cur \in Int /\ op.idx \in Idx
         /\ op.sig.home <= op.cur /\ op.cur <= op.sig.home + n - 1
<1>1. RunningInsert
  BY DEF PolicyInv, Idle
<1>2. n \in Nat \ {0} /\ op.sig \in T(n)!Sig
  BY <1>1, TableInUse DEF RunningInsert
<1>3. op.sig.home \in Int
  BY <1>2 DEF T!Sig, T!Bucket
<1> QED BY <1>1, <1>2, <1>3 DEF RunningInsert

\* The move of a tag.
LEMMA DisplaceKeeps ==
  ASSUME PolicyInv, InsertItem_displace
  PROVE  PolicyInv'
<1>1. PICK n, t, s, home, cur, idx :
        /\ n = num_buckets_ /\ t = array
        /\ s = op.sig /\ home = op.sig.home /\ cur = op.cur /\ idx = op.idx
  OBVIOUS
<1>2. /\ num_buckets_' = n /\ keys' = keys /\ i' = i /\ accepted' = accepted
      /\ op.busy /\ cur - home >= MaxProb
  BY <1>1 DEF InsertItem_displace, OutOfReach
<1>3. /\ n \in Nat \ {0} /\ t \in [T(n)!Slot -> T(n)!Tag]
      /\ IsFiniteSet(Used) /\ i \in Nat
      /\ \A key \in accepted : SigOf(key) \in T(n)!Sig
  BY <1>1, TableInUse
<1>4. /\ RunningInsert /\ op.sig \in T(n)!Sig
      /\ home \in Int /\ cur \in Int /\ idx \in Idx /\ home <= cur /\ cur <= home + n - 1
  BY <1>1, <1>2, RunningFacts
<1>5. PICK prob \in 1 .. MaxProb - 1, j \in Idx :
        /\ T(n)!Movable(t, cur, prob, j)
        /\ array' = T(n)!WriteTag(t, cur, idx, T(n)!MovedTag(t, cur, prob, j))
        /\ op' = [op EXCEPT !.cur = @ - prob, !.idx = j]
  BY <1>1 DEF InsertItem_displace, T!Candidate, Idx
<1> DEFINE tag == T(n)!MovedTag(t, cur, prob, j)
           P   == T(n)!SlotAt(cur, idx)
           Q   == T(n)!SlotAt(cur - prob, j)
<1>6. /\ prob \in Nat /\ prob < MaxProb /\ MaxProb \in Nat /\ prob < n
      /\ cur - prob \in Int /\ cur - prob >= home + 1
  BY <1>2, <1>3, <1>4, <1>5, PolicyAssumption
<1>7. op = [busy |-> TRUE, sig |-> s, cur |-> cur, idx |-> idx]
  BY <1>1, <1>4 DEF RunningInsert
<1>8. op' = [busy |-> TRUE, sig |-> s, cur |-> cur - prob, idx |-> j]
  BY <1>5, <1>7
<1>9. op'.busy = TRUE /\ op'.sig = s /\ op'.cur = cur - prob /\ op'.idx = j
  BY <1>8
<1>10. \A key : SigOf(key)' = SigOf(key)
  BY <1>1, <1>2 DEF SigOf
<1>11. P \in T(n)!Slot /\ Q \in T(n)!Slot
  BY <1>3, <1>4, <1>5, <1>6, SlotAtType
<1>12. t[Q] # T(n)!Empty
  <2>1. \A k \in home .. cur - 1 : \A l \in Idx : T(n)!ReadTag(t, k, l) # T(n)!Empty
    BY <1>1, <1>4 DEF RunningInsert
  <2>2. cur - prob \in home .. cur - 1
    BY <1>4, <1>5, <1>6
  <2> QED BY <1>5, <2>1, <2>2 DEF T!ReadTag
<1>13. tag \in T(n)!Tag /\ tag # T(n)!Empty
  <2>1. PICK f \in 0 .. FptRange - 1, e \in 0 .. MaxProb - 1 : t[Q] = [fpt |-> f, dis |-> e]
    BY <1>3, <1>11 DEF T!Tag
  <2>2. e + prob < MaxProb
    BY <1>5, <2>1 DEF T!Movable, T!ReadTag
  <2>3. tag = [fpt |-> f, dis |-> e + prob]
    BY <2>1 DEF T!MovedTag, T!ReadTag
  <2>4. e + prob \in 0 .. MaxProb - 1 /\ e + prob # 0
    BY <1>5, <1>6, <2>1, <2>2
  <2> QED BY <2>1, <2>3, <2>4 DEF T!Tag, T!Empty
<1>14. /\ array' \in [T(n)!Slot -> T(n)!Tag]
       /\ \A x \in T(n)!Slot : array'[x] = IF x = P THEN tag ELSE t[x]
  BY <1>3, <1>4, <1>5, <1>13, WriteEffect
<1>15. OpSlot = P /\ OpSlot' = Q
  BY <1>1, <1>2, <1>9 DEF OpSlot
<1>16. RunningInsert'
  <2>1. \A k \in home .. cur - prob - 1 : \A l \in Idx :
          T(n)!ReadTag(array', k, l) # T(n)!Empty
    <3> SUFFICES ASSUME NEW k \in home .. cur - prob - 1, NEW l \in Idx
                 PROVE  T(n)!ReadTag(array', k, l) # T(n)!Empty
      OBVIOUS
    <3>1. k \in Int /\ k \in home .. cur - 1
      BY <1>4, <1>5, <1>6
    <3>2. t[T(n)!SlotAt(k, l)] # T(n)!Empty
      BY <1>1, <1>4, <3>1 DEF RunningInsert, T!ReadTag
    <3>3. T(n)!SlotAt(k, l) \in T(n)!Slot
      BY <1>3, <3>1, SlotAtType
    <3> QED BY <1>13, <1>14, <3>2, <3>3 DEF T!ReadTag
  <2>2. cur - prob \in home .. home + n - 1
    BY <1>3, <1>4, <1>5, <1>6
  <2>3. i <= Len(keys) /\ s = SigOf(keys[i]) /\ home = s.home
    BY <1>1, <1>4, <1>7 DEF RunningInsert
  <2>4. i' <= Len(keys') /\ s = SigOf(keys[i])'
    BY <1>2, <1>10, <2>3
  <2> HIDE DEF tag, P, Q
  <2>5. \A k \in op'.sig.home .. op'.cur - 1 : \A l \in Idx :
          T(num_buckets_')!ReadTag(array', k, l) # T(num_buckets_')!Empty
    BY <1>2, <1>9, <2>1, <2>3
  <2>6. op'.cur \in op'.sig.home .. op'.sig.home + num_buckets_' - 1 /\ op'.idx \in Idx
    BY <1>2, <1>5, <1>9, <2>2, <2>3
  <2>7. op' = [busy |-> TRUE, sig |-> SigOf(keys[i])', cur |-> op'.cur, idx |-> op'.idx]
    BY <1>8, <1>9, <2>4
  <2> QED BY <2>4, <2>5, <2>6, <2>7 DEF RunningInsert
<1>17. Used' \in SUBSET Used
  <2>1. Filled(n, array') = Filled(n, t) \cup {P}
    BY <1>3, <1>4, <1>5, <1>13, WriteFills
  <2>2. Q \in Filled(n, t)
    BY <1>11, <1>12 DEF Filled
  <2> HIDE DEF tag, P, Q
  <2>3. Used = Filled(n, t) \cup {P}
    BY <1>1, <1>2, <1>15 DEF Used
  <2>4. Used' = Filled(n, array') \cup {Q}
    BY <1>2, <1>9, <1>15 DEF Used
  <2> QED BY <2>1, <2>2, <2>3, <2>4
<1>18. Cardinality(Used') <= i
  <2>1. Cardinality(Used) <= i
    BY <1>2 DEF PolicyInv
  <2>2. Cardinality(Used') <= Cardinality(Used) /\ IsFiniteSet(Used')
    BY <1>3, <1>17, FS_Subset
  <2>3. Cardinality(Used') \in Nat /\ Cardinality(Used) \in Nat
    BY <1>3, <2>2, FS_CardinalityType
  <2> QED BY <1>3, <2>1, <2>2, <2>3
<1>19. \A key \in accepted : Found(key)'
  <2>1. \A key \in accepted : KeptBeside(n, t, SigOf(key), P)
    BY <1>1, <1>2, <1>15 DEF PolicyInv, Found
  <2>2. \A key \in accepted : KeptBeside(n, array', SigOf(key), Q)
    BY <1>3, <1>4, <1>5, <1>6, <2>1, MoveKeeps
  <2> HIDE DEF tag, P, Q
  <2> QED BY <1>2, <1>9, <1>10, <1>15, <2>2 DEF Found
<1> HIDE DEF tag, P, Q
<1> QED BY <1>1, <1>2, <1>9, <1>14, <1>16, <1>18, <1>19 DEF PolicyInv

\* A failed insertion leaves the tag it could not place twice in the table.
LEMMA FailKeeps ==
  ASSUME PolicyInv, InsertItem_fail
  PROVE  PolicyInv'
<1>1. PICK n : n = num_buckets_
  OBVIOUS
<1>2. /\ num_buckets_' = n /\ keys' = keys /\ array' = array /\ i' = i + 1
      /\ accepted' = accepted /\ op' = Idle /\ ~op'.busy /\ op.busy
  BY <1>1 DEF InsertItem_fail, Idle
<1>3. /\ n \in Nat \ {0} /\ IsFiniteSet(Used) /\ i \in Nat \ {0} /\ Len(keys) \in Nat
      /\ RunningInsert
  BY <1>1, <1>2, TableInUse, RunningFacts
<1>4. i' \in 1 .. Len(keys') + 1
  BY <1>2, <1>3 DEF RunningInsert
<1>5. \A key : SigOf(key)' = SigOf(key)
  BY <1>1, <1>2 DEF SigOf
<1>6. Used' \in SUBSET Used
  BY <1>1, <1>2 DEF Used
<1>7. Cardinality(Used') <= i' - 1
  <2>1. Cardinality(Used) <= i
    BY <1>2 DEF PolicyInv
  <2>2. Cardinality(Used') <= Cardinality(Used) /\ IsFiniteSet(Used')
    BY <1>3, <1>6, FS_Subset
  <2>3. Cardinality(Used') \in Nat /\ Cardinality(Used) \in Nat
    BY <1>3, <2>2, FS_CardinalityType
  <2> QED BY <1>2, <1>3, <2>1, <2>2, <2>3
<1>8. \A key \in accepted : Found(key)'
  <2>1. \A key \in accepted : T(n)!Lookup(array, SigOf(key))
    BY <1>1, <1>2, KeptIsFound DEF PolicyInv, Found
  <2> QED BY <1>2, <1>5, <2>1 DEF Found
<1> QED BY <1>1, <1>2, <1>4, <1>7, <1>8 DEF PolicyInv

\* The key's tag fills the slot that was kept free for it.
LEMMA PlaceKeeps ==
  ASSUME PolicyInv, InsertItem_place
  PROVE  PolicyInv'
<1>1. PICK n, t, s, home, cur, idx :
        /\ n = num_buckets_ /\ t = array
        /\ s = op.sig /\ home = op.sig.home /\ cur = op.cur /\ idx = op.idx
  OBVIOUS
<1> DEFINE tag == [fpt |-> s.fpt, dis |-> cur - home]
           P   == T(n)!SlotAt(cur, idx)
<1>2. /\ num_buckets_' = n /\ keys' = keys /\ i' = i + 1 /\ op' = Idle /\ ~op'.busy
      /\ accepted' = accepted \cup {keys[i]} /\ op.busy /\ ~(cur - home >= MaxProb)
      /\ array' = T(n)!WriteTag(t, cur, idx, tag)
  BY <1>1 DEF InsertItem_place, OutOfReach, Idle
<1>3. /\ n \in Nat \ {0} /\ t \in [T(n)!Slot -> T(n)!Tag]
      /\ i \in Nat \ {0} /\ Len(keys) \in Nat
      /\ \A key \in accepted : SigOf(key) \in T(n)!Sig
  BY <1>1, TableInUse
<1>4. /\ RunningInsert /\ s \in T(n)!Sig
      /\ home \in Int /\ cur \in Int /\ idx \in Idx /\ home <= cur
  BY <1>1, <1>2, RunningFacts
<1>5. s = SigOf(keys[i]) /\ home = s.home /\ i <= Len(keys) /\ keys[i] \in Keys
  <2>1. i <= Len(keys) /\ s = SigOf(keys[i])
    BY <1>1, <1>4 DEF RunningInsert
  <2> QED BY <1>1, <2>1, TableInUse
<1>6. cur - home \in 0 .. MaxProb - 1
  BY <1>2, <1>4, PolicyAssumption
<1>7. tag \in T(n)!Tag /\ tag # T(n)!Empty
  BY <1>4, <1>6, PolicyAssumption DEF T!Sig, T!Tag, T!Empty
<1>8. P \in T(n)!Slot /\ OpSlot = P
  BY <1>1, <1>3, <1>4, SlotAtType DEF OpSlot
<1>9. array' \in [T(n)!Slot -> T(n)!Tag] /\ array'[P] = tag
  BY <1>2, <1>3, <1>4, <1>7, <1>8, WriteEffect
<1>10. \A key : SigOf(key)' = SigOf(key)
  BY <1>1, <1>2 DEF SigOf
<1>11. Used' = Used
  <2>1. Filled(n, array') = Filled(n, t) \cup {P}
    <3>1. Filled(n, T(n)!WriteTag(t, cur, idx, tag)) = Filled(n, t) \cup {T(n)!SlotAt(cur, idx)}
      <4> HIDE DEF tag
      <4> QED BY <1>3, <1>4, <1>7, WriteFills
    <3> HIDE DEF tag
    <3> QED BY <1>2, <3>1
  <2> HIDE DEF tag, P
  <2> QED BY <1>1, <1>2, <1>8, <2>1 DEF Used
<1>12. Cardinality(Used') <= i' - 1
  <2>1. Cardinality(Used) <= i
    BY <1>2 DEF PolicyInv
  <2> QED BY <1>2, <1>3, <1>11, <2>1
<1>13. \A key \in accepted' : Found(key)'
  <2>1. \A key \in accepted : KeptBeside(n, t, SigOf(key), P)
    BY <1>1, <1>2, <1>8 DEF PolicyInv, Found
  <2>2. \A key \in accepted : T(n)!Lookup(array', SigOf(key))
    BY <1>2, <1>3, <1>4, <1>7, <2>1, WriteBeside
  <2>3. T(n)!Lookup(array', s)
    <3>1. s.home + (cur - home) = cur
      BY <1>4, <1>5
    <3>2. T(n)!ReadTag(array', s.home + (cur - home), idx) = [fpt |-> s.fpt, dis |-> cur - home]
      BY <1>9, <3>1 DEF T!ReadTag
    <3> QED BY <1>4, <1>6, <3>2 DEF T!Lookup, T!TagIdx, Idx
  <2> HIDE DEF tag, P
  <2> QED BY <1>2, <1>5, <1>10, <2>2, <2>3 DEF Found
<1>14. i' \in 1 .. Len(keys') + 1
  BY <1>2, <1>3, <1>5
<1> HIDE DEF tag, P
<1> QED BY <1>1, <1>2, <1>5, <1>9, <1>12, <1>13, <1>14 DEF PolicyInv

\* No step of CreateFilter breaks the invariant.
LEMMA PolicyStep == PolicyInv /\ [Next]_vars => PolicyInv'
<1> SUFFICES ASSUME PolicyInv, [Next]_vars PROVE PolicyInv'
  OBVIOUS
<1>1. CASE InsertItem
  BY <1>1, InsertItemKeeps
<1>2. CASE InsertItem_displace
  BY <1>2, DisplaceKeeps
<1>3. CASE InsertItem_fail
  BY <1>3, FailKeeps
<1>4. CASE InsertItem_place
  BY <1>4, PlaceKeeps
<1>5. CASE UNCHANGED vars
  BY <1>5 DEF vars, PolicyInv, RunningInsert, Used, OpSlot, Found, SigOf
<1> QED BY <1>1, <1>2, <1>3, <1>4, <1>5 DEF Next

\* For every list of keys and every size of the buckets, of the reach and of
\* the hashes: InsertItem's scan always finds an empty slot, so the return
\* after its outer loop is dead.
THEOREM ScanAlwaysFindsSlot == Spec => []ScanFindsSlot
<1>1. PolicyInv => ScanFindsSlot
  BY InvHasEmpty DEF ScanFindsSlot
<1> QED BY <1>1, PolicyInit, PolicyStep, PTL DEF Spec

\* For every list of keys: KeyMayMatch finds every key whose InsertItem
\* returned true, although later insertions move its tag about and may give up
\* half way.
THEOREM AcceptedKeysAlwaysMatch == Spec => []AcceptedKeysMatch
<1>1. PolicyInv => AcceptedKeysMatch
  <2> SUFFICES ASSUME PolicyInv, ~Building, NEW key \in accepted PROVE KeyMayMatch(key)
    BY DEF AcceptedKeysMatch
  <2>1. ~op.busy
    BY DEF PolicyInv, RunningInsert, Building, Idle
  <2> QED BY <2>1 DEF PolicyInv, Found, KeyMayMatch
<1> QED BY <1>1, PolicyInit, PolicyStep, PTL DEF Spec

=============================================================================
