--------------------------- MODULE PosixFileProofs -------------------------
(***************************************************************************)
(* Proofs about PosixEnv's files: what is written through                  *)
(* PosixWritableFile is in the file, and what is read is what is there,    *)
(* for every buffer, file, alignment and number of failures and crashes.   *)
(***************************************************************************)
EXTENDS PosixWritableFile, TLAPS

-----------------------------------------------------------------------------
(* Reading. *)

\* The aligned place at or before an offset (the & ~(alignment - 1) of
\* PosixDirectIORandomAccessFile::Read).
LEMMA AlignedBefore ==
  ASSUME NEW val \in Nat
  PROVE  /\ val % Alignment \in 0 .. Alignment - 1
         /\ val % Alignment <= val
<1>1. val % Alignment \in 0 .. Alignment - 1
  BY AlignmentAssumption
<1>2. CASE val >= Alignment
  BY <1>1, <1>2, AlignmentAssumption
<1>3. CASE val < Alignment
  BY <1>3, AlignmentAssumption
<1> QED
  BY <1>1, <1>2, <1>3, AlignmentAssumption

\* The aligned range that is read holds the bytes asked for.
LEMMA RangeCovers ==
  ASSUME NEW offset \in Nat, NEW n \in Nat
  PROVE  LET data == NewAlignedData(offset, n)
         IN  /\ data.offset \in Nat /\ data.user_offset \in Nat /\ data.size \in Nat
             /\ data.offset + data.user_offset = offset
             /\ data.user_offset + n <= data.size
<1> DEFINE u == offset % Alignment
<1>1. u \in Nat /\ u <= offset
  BY AlignedBefore, AlignmentAssumption
<1>2. (n + u) % Alignment \in 0 .. Alignment - 1
  BY <1>1, AlignedBefore
<1> HIDE DEF u
<1>3. GetAfterAlignedValue(n + u) \in Nat /\ GetAfterAlignedValue(n + u) >= n + u
  BY <1>1, <1>2, AlignmentAssumption DEF GetAfterAlignedValue
<1>4. NewAlignedData(offset, n) =
        [offset |-> offset - u, user_offset |-> offset - (offset - u),
         size |-> GetAfterAlignedValue(n + (offset - (offset - u)))]
  BY DEF NewAlignedData, GetBeforeAlignedValue, u
<1>5. offset - (offset - u) = u
  BY <1>1
<1> QED
  BY <1>1, <1>3, <1>4, <1>5

\* What pread returns.
LEMMA PreadBytes ==
  ASSUME NEW S, NEW file \in Seq(S), NEW offset \in Nat, NEW n \in Nat
  PROVE  /\ Len(pread(file, n, offset)) =
              IF offset + n <= Len(file) THEN n
              ELSE IF offset <= Len(file) THEN Len(file) - offset ELSE 0
         /\ \A i \in 1 .. Len(pread(file, n, offset)) :
              pread(file, n, offset)[i] = file[offset + i]
BY DEF pread

\* A Read, of any kind, of a block inside the file gives its bytes, and pread and
\* the mapping never give ReadBlock anything else that it accepts.
THEOREM BlocksReadBack ==
  \A S : \A file \in Seq(S) : \A offset \in Nat : \A n \in Nat \ {0} :
    BlockReadsRight(file, offset, n)
<1> SUFFICES ASSUME NEW S, NEW file \in Seq(S), NEW offset \in Nat, NEW n \in Nat \ {0}
             PROVE  BlockReadsRight(file, offset, n)
  OBVIOUS
<1> DEFINE there == offset + n <= Len(file)
           bytes == SubSeq(file, offset + 1, offset + n)
<1>1. Right(file, offset, n, PreadRead(file, offset, n))
      /\ Served(file, offset, n, PreadRead(file, offset, n))
  <2>1. PreadRead(file, offset, n).ok /\ PreadRead(file, offset, n).data = pread(file, n, offset)
    BY DEF PreadRead, ReadOK
  <2>2. there => pread(file, n, offset) = bytes /\ Len(bytes) = n
    BY DEF pread
  <2>3. ~there => Len(pread(file, n, offset)) # n
    <3>1. Len(file) \in Nat
      OBVIOUS
    <3>2. Len(pread(file, n, offset)) =
            IF offset + n <= Len(file) THEN n
            ELSE IF offset <= Len(file) THEN Len(file) - offset ELSE 0
      BY PreadBytes
    <3> QED
      BY <3>1, <3>2
  <2> QED
    BY <2>1, <2>2, <2>3 DEF Right, Served, Accepted
<1>2. Right(file, offset, n, MmapRead(file, offset, n))
      /\ Served(file, offset, n, MmapRead(file, offset, n))
  BY DEF MmapRead, Refused, ReadOK, Right, Served, Accepted
<1>3. ASSUME there
      PROVE  Accepted(DirectRead(file, offset, n), n) /\ DirectRead(file, offset, n).data = bytes
  <2>1. PICK o \in Nat, u \in Nat, size \in Nat :
          /\ NewAlignedData(offset, n).offset = o
          /\ NewAlignedData(offset, n).user_offset = u
          /\ NewAlignedData(offset, n).size = size
          /\ o + u = offset /\ u + n <= size
    BY RangeCovers
  <2> DEFINE got == pread(file, size, o)
             buf == [i \in 1 .. size |-> IF i <= Len(got) THEN got[i] ELSE garbage]
             Byte(i) == IF i \in DOMAIN buf THEN buf[i] ELSE garbage
             result == [i \in 1 .. n |-> Byte(u + i)]
  <2>2. DirectRead(file, offset, n).ok /\ DirectRead(file, offset, n).data = result
    BY <2>1 DEF DirectRead, ReadOK
  <2>g. /\ Len(file) \in Nat
        /\ Len(got) = IF o + size <= Len(file) THEN size
                      ELSE IF o <= Len(file) THEN Len(file) - o ELSE 0
        /\ \A i \in 1 .. Len(got) : got[i] = file[o + i]
    <3>1. Len(file) \in Nat
      OBVIOUS
    <3> QED
      BY <3>1, PreadBytes
  <2> HIDE DEF got
  <2>3. ASSUME NEW i \in 1 .. n PROVE Byte(u + i) = file[offset + i]
    <3>1. u + i \in 1 .. size /\ u + i \in 1 .. Len(got) /\ o + (u + i) = offset + i
      BY <1>3, <2>1, <2>g
    <3>2. Byte(u + i) = got[u + i]
      BY <2>g, <3>1
    <3> QED
      BY <2>g, <3>1, <3>2
  <2> HIDE DEF Byte
  <2>4. bytes = [i \in 1 .. n |-> file[offset + i]]
    BY <1>3
  <2>5. result = bytes
    BY <2>3, <2>4
  <2>6. Len(bytes) = n
    BY <1>3
  <2> QED
    BY <2>2, <2>5, <2>6 DEF Accepted
<1> QED
  BY <1>1, <1>2, <1>3 DEF BlockReadsRight, Served

-----------------------------------------------------------------------------
(* Writing. *)

Total == Len(contents) + Len(buf_)

\* Byte k of the file with the buffer behind it.
At(k) == IF k <= Len(contents) THEN contents[k] ELSE buf_[k - Len(contents)]

FileType ==
  /\ is_manifest_ \in BOOLEAN /\ lost \in BOOLEAN
  /\ buf_ \in Seq(Nat) /\ Len(buf_) <= BufferSize
  /\ contents \in Seq(Nat)
  /\ on_disk \in Nat /\ on_disk <= Len(contents)
  /\ created \in Nat /\ entries_on_disk \in Nat /\ entries_on_disk <= created
  /\ names \in Seq(Nat) /\ sync_ok \in Nat /\ sync_ok <= Len(names)

OrderInv ==
  /\ \A k \in 1 .. Total : At(k) <= Appends
  /\ \A k, l \in 1 .. Total : k < l => At(k) < At(l)
  /\ ~lost => /\ Total = Appends
              /\ \A k \in 1 .. Total : At(k) = k
              /\ \A b \in 1 .. Appends : names[b] <= created

FileInv == FileType /\ OrderInv /\ SyncedBytesStay

\* Byte k of what the file and the buffer would hold with all that is appended.
Given(k) == IF k <= Total THEN At(k) ELSE Appends + (k - Total)

\* What the file and the buffer hold after a step that was given n more bytes:
\* the first of what they held and of these, and all of it unless one is lost.
Moved(n) ==
  LET total == Len(contents') + Len(buf_')
  IN  /\ contents' \in Seq(Nat) /\ Len(contents) <= Len(contents')
      /\ buf_' \in Seq(Nat) /\ Len(buf_') <= BufferSize
      /\ total <= Total + n
      /\ lost' \in BOOLEAN
      /\ ~lost' => ~lost /\ total = Total + n
      /\ \A k \in 1 .. Len(contents') : contents'[k] = Given(k)
      /\ \A k \in 1 .. Len(buf_') : buf_'[k] = Given(Len(contents') + k)

\* Such a step keeps the bytes in order, and changes none that the file held.
LEMMA MovedOrder ==
  ASSUME FileInv, NEW n \in Nat, Moved(n), created' = created,
         names' = names \o [i \in 1 .. n |-> created]
  PROVE  /\ OrderInv'
         /\ names' \in Seq(Nat) /\ Len(names') = Len(names) + n
         /\ \A b \in 1 .. Len(names) : names'[b] = names[b]
         /\ \A k \in 1 .. Len(contents) : contents'[k] = contents[k]
<1>t. /\ Len(contents) \in Nat /\ Len(buf_) \in Nat /\ Appends \in Nat /\ created \in Nat
      /\ Len(contents') \in Nat /\ Len(buf_') \in Nat
  BY DEF FileInv, FileType, Moved, Appends
<1> DEFINE total == Len(contents') + Len(buf_')
<1>1. /\ names' \in Seq(Nat) /\ Len(names') = Len(names) + n
      /\ \A b \in 1 .. Len(names) : names'[b] = names[b]
      /\ \A b \in Len(names) + 1 .. Len(names) + n : names'[b] = created
  BY DEF FileInv, FileType
<1>3. Total \in Nat /\ total \in Nat /\ total <= Total + n /\ total = Total'
  BY <1>t DEF Moved, Total
<1>g. \A k \in 1 .. total : At(k)' = Given(k)
  <2> SUFFICES ASSUME NEW k \in 1 .. total PROVE At(k)' = Given(k)
    OBVIOUS
  <2>1. CASE k <= Len(contents')
    <3>1. At(k)' = contents'[k]
      BY <2>1 DEF At
    <3>2. k \in 1 .. Len(contents')
      BY <1>t, <2>1
    <3> QED
      BY <3>1, <3>2 DEF Moved
  <2>2. CASE ~(k <= Len(contents'))
    <3>0. k - Len(contents') \in 1 .. Len(buf_') /\ Len(contents') + (k - Len(contents')) = k
      BY <1>t, <2>2
    <3>1. PICK j \in 1 .. Len(buf_') : k - Len(contents') = j /\ Len(contents') + j = k
      BY <3>0
    <3>2. At(k)' = buf_'[j]
      BY <2>2, <3>1 DEF At
    <3>3. buf_'[j] = Given(Len(contents') + j)
      BY DEF Moved
    <3> QED
      BY <3>1, <3>2, <3>3
  <2> QED
    BY <2>1, <2>2
<1>2. \A k \in 1 .. total : At(k)' = IF k <= Total THEN At(k) ELSE Appends + (k - Total)
  BY <1>g DEF Given
<1>4. \A k \in 1 .. Total : At(k) \in Nat /\ At(k) <= Appends
  <2>1. \A k \in 1 .. Total : At(k) \in Nat
    BY <1>t, SMTT(30) DEF FileInv, FileType, At, Total
  <2> QED
    BY <2>1 DEF FileInv, OrderInv
<1>5. Appends' = Appends + n
  BY <1>1 DEF Appends
<1> HIDE DEF total
<1>6. \A k \in 1 .. total : At(k)' <= Appends'
  BY <1>2, <1>3, <1>4, <1>5, <1>t
<1>7. ASSUME NEW k \in 1 .. total, NEW l \in 1 .. total, k < l PROVE At(k)' < At(l)'
  <2>1. CASE l <= Total
    BY <1>2, <1>3, <1>7, <2>1 DEF FileInv, OrderInv
  <2>2. CASE k <= Total /\ ~(l <= Total)
    BY <1>2, <1>3, <1>4, <1>t, <2>2
  <2>3. CASE ~(k <= Total) /\ ~(l <= Total)
    BY <1>2, <1>3, <1>7, <1>t, <2>3
  <2> QED
    BY <1>3, <1>7, <2>1, <2>2, <2>3
<1>8. ASSUME ~lost'
      PROVE  /\ total = Appends'
             /\ \A k \in 1 .. total : At(k)' = k
             /\ \A b \in 1 .. Appends' : names'[b] <= created
  <2>1. ~lost /\ total = Total + n
    BY <1>8 DEF Moved, total
  <2>2. /\ Total = Appends
        /\ \A k \in 1 .. Total : At(k) = k
        /\ \A b \in 1 .. Appends : names[b] <= created
    BY <2>1 DEF FileInv, OrderInv
  <2>3. \A k \in 1 .. total : At(k)' = k
    BY <1>2, <1>3, <1>t, <2>2
  <2>4. \A b \in 1 .. Appends' : names'[b] <= created
    BY <1>1, <1>5, <1>t, <2>2 DEF Appends
  <2> QED
    BY <1>5, <2>1, <2>2, <2>3, <2>4
<1>9. OrderInv'
  BY <1>3, <1>6, <1>7, <1>8 DEF OrderInv
<1>10. ASSUME NEW k \in 1 .. Len(contents) PROVE contents'[k] = contents[k]
  <2>1. k \in 1 .. Len(contents') /\ Given(k) = contents[k]
    BY <1>t DEF Moved, Total, At, Given
  <2> QED
    BY <2>1 DEF Moved
<1> QED
  BY <1>1, <1>9, <1>10

\* A write gives the system a first part of its data, all of it if it succeeds.
LEMMA PartOf ==
  ASSUME NEW data \in Seq(Nat), NEW w \in Written(data)
  PROVE  /\ w.ok \in BOOLEAN /\ w.n \in 0 .. Len(data) /\ (w.ok => w.n = Len(data))
         /\ Part(data, w) \in Seq(Nat) /\ Len(Part(data, w)) = w.n
         /\ \A i \in 1 .. w.n : Part(data, w)[i] = data[i]
<1>1. w.ok \in BOOLEAN /\ w.n \in 0 .. Len(data) /\ (w.ok => w.n = Len(data))
  <2>1. CASE w = [ok |-> TRUE, n |-> Len(data)]
    BY <2>1
  <2>2. CASE \E n \in 0 .. Len(data) - 1 : w = [ok |-> FALSE, n |-> n]
    BY <2>2
  <2> QED
    BY <2>1, <2>2 DEF Written
<1> QED
  BY <1>1 DEF Part

\* The bytes of two pieces put together.
LEMMA Concat ==
  ASSUME NEW s \in Seq(Nat), NEW t \in Seq(Nat), NEW r, r = s \o t
  PROVE  /\ r \in Seq(Nat) /\ Len(s) \in Nat /\ Len(t) \in Nat
         /\ Len(r) = Len(s) + Len(t)
         /\ \A k \in 1 .. Len(s) + Len(t) :
              r[k] = IF k <= Len(s) THEN s[k] ELSE t[k - Len(s)]
OBVIOUS

\* The lengths, as numbers to pick.
LEMMA Lengths ==
  ASSUME FileInv
  PROVE  \E c \in Nat, b \in Nat, a \in Nat :
           /\ Len(contents) = c /\ Len(buf_) = b /\ Appends = a /\ Total = c + b
           /\ contents \in Seq(Nat) /\ buf_ \in Seq(Nat)
BY DEF FileInv, FileType, Appends, Total

\* A piece of the data of an Append.
Piece(n, lo, hi) == SubSeq(Data(n), lo + 1, hi)

\* Its bytes are numbered on from those appended before.
LEMMA DataPiece ==
  ASSUME Appends \in Nat, NEW n \in Nat, NEW lo \in Nat, NEW hi \in Nat, lo <= hi, hi <= n
  PROVE  /\ Piece(n, lo, hi) \in Seq(Nat) /\ Len(Piece(n, lo, hi)) = hi - lo
         /\ \A i \in 1 .. hi - lo : Piece(n, lo, hi)[i] = Appends + (lo + i)
<1>1. /\ Data(n) \in Seq(Nat) /\ Len(Data(n)) = n
      /\ \A i \in 1 .. n : Data(n)[i] = Appends + i
  BY DEF Data
<1> QED
  BY <1>1 DEF Piece

\* The buffer with a first piece of the data behind it.
Filled(first) == buf_ \o first

\* Together they are the next bytes the file has to get.
LEMMA FullPiece ==
  ASSUME FileInv, NEW copy \in Nat, NEW first \in Seq(Nat), Len(first) = copy,
         \A i \in 1 .. copy : first[i] = Appends + i
  PROVE  /\ Filled(first) \in Seq(Nat) /\ Len(Filled(first)) = Len(buf_) + copy
         /\ \A k \in 1 .. Len(Filled(first)) : Filled(first)[k] = Given(Len(contents) + k)
<1> DEFINE full == Filled(first)
<1>0. full = buf_ \o first
  BY DEF Filled
<1> HIDE DEF full
<1>1. PICK c \in Nat, b \in Nat, a \in Nat :
        /\ Len(contents) = c /\ Len(buf_) = b /\ Appends = a /\ Total = c + b
        /\ buf_ \in Seq(Nat)
  BY Lengths
<1>2. /\ full \in Seq(Nat) /\ Len(full) = b + copy
      /\ \A k \in 1 .. b + copy : full[k] = IF k <= b THEN buf_[k] ELSE first[k - b]
  BY <1>0, <1>1, Concat
<1>3. ASSUME NEW k \in 1 .. b + copy PROVE full[k] = Given(c + k)
  <2>1. CASE k <= b
    <3>1. Given(c + k) = buf_[c + k - c]
      BY <1>1, <2>1 DEF Given, At
    <3> QED
      BY <1>2, <2>1, <3>1
  <2>2. CASE ~(k <= b)
    <3>1. k - b \in 1 .. copy /\ ~(c + k <= c + b) /\ c + k - (c + b) = k - b
      BY <2>2
    <3>2. Given(c + k) = a + (k - b)
      BY <1>1, <3>1 DEF Given
    <3>3. full[k] = first[k - b]
      BY <1>2, <2>2
    <3> QED
      BY <1>1, <3>1, <3>2, <3>3
  <2> QED
    BY <2>1, <2>2
<1>4. \A k \in 1 .. Len(full) : full[k] = Given(Len(contents) + k)
  <2>1. \A k \in 1 .. Len(full) : full[k] = Given(c + k)
    BY <1>2, <1>3
  <2> QED
    BY <1>1, <2>1
<1> QED
  BY <1>1, <1>2, <1>4 DEF full

\* What a write adds to the file.
LEMMA ContentsConcat ==
  ASSUME contents \in Seq(Nat), NEW s \in Seq(Nat), contents' = contents \o s
  PROVE  /\ contents' \in Seq(Nat) /\ Len(contents') = Len(contents) + Len(s)
         /\ \A k \in 1 .. Len(contents) + Len(s) :
              contents'[k] = IF k <= Len(contents) THEN contents[k] ELSE s[k - Len(contents)]
BY Concat

\* What a step leaves in the file and in the buffer, piece by piece.
LEMMA MovedPieces ==
  ASSUME FileInv, NEW n \in Nat, NEW s \in Seq(Nat), NEW t \in Seq(Nat),
         contents' = contents \o s, buf_' = t, Len(t) <= BufferSize,
         Len(s) + Len(t) <= Len(buf_) + n,
         lost' \in BOOLEAN, ~lost' => ~lost /\ Len(s) + Len(t) = Len(buf_) + n,
         \A k \in 1 .. Len(s) : s[k] = Given(Len(contents) + k),
         \A k \in 1 .. Len(t) : t[k] = Given(Len(contents) + Len(s) + k)
  PROVE  Moved(n)
<1>1. PICK c \in Nat, b \in Nat, a \in Nat :
        /\ Len(contents) = c /\ Len(buf_) = b /\ Appends = a /\ Total = c + b
        /\ contents \in Seq(Nat)
  BY Lengths
<1>2. PICK ls \in Nat, lt \in Nat : Len(s) = ls /\ Len(t) = lt
  OBVIOUS
<1>3. /\ contents' \in Seq(Nat) /\ Len(contents') = c + ls
      /\ \A k \in 1 .. c + ls : contents'[k] = IF k <= c THEN contents[k] ELSE s[k - c]
  <2>1. /\ contents' \in Seq(Nat) /\ Len(contents') = Len(contents) + Len(s)
        /\ \A k \in 1 .. Len(contents) + Len(s) :
             contents'[k] = IF k <= Len(contents) THEN contents[k] ELSE s[k - Len(contents)]
    BY <1>1, ContentsConcat, Zenon
  <2> QED
    BY <1>1, <1>2, <2>1
<1>4. ASSUME NEW k \in 1 .. c + ls PROVE contents'[k] = Given(k)
  <2>1. CASE k <= c
    BY <1>1, <1>3, <2>1 DEF Given, At
  <2>2. CASE ~(k <= c)
    <3>1. k - c \in 1 .. ls /\ c + (k - c) = k
      BY <2>2
    <3>2. s[k - c] = Given(c + (k - c))
      BY <1>1, <1>2, <3>1
    <3> QED
      BY <1>3, <2>2, <3>1, <3>2
  <2> QED
    BY <2>1, <2>2
<1>5. \A k \in 1 .. Len(buf_') : buf_'[k] = Given(c + ls + k)
  BY <1>1, <1>2
<1>6. /\ c <= c + ls
      /\ c + ls + lt <= c + b + n
      /\ ~lost' => ~lost /\ c + ls + lt = c + b + n
  BY <1>1, <1>2
<1>7. /\ \A k \in 1 .. Len(contents') : contents'[k] = Given(k)
      /\ \A k \in 1 .. Len(buf_') : buf_'[k] = Given(Len(contents') + k)
  BY <1>3, <1>4, <1>5
<1>8. /\ Len(contents) <= Len(contents')
      /\ Len(contents') + Len(buf_') <= Total + n
      /\ ~lost' => ~lost /\ Len(contents') + Len(buf_') = Total + n
  BY <1>1, <1>2, <1>3, <1>6
<1> QED
  BY <1>3, <1>7, <1>8 DEF Moved

\* A first part of a piece, and nothing behind it.
LEMMA MovedPart ==
  ASSUME FileInv, NEW n \in Nat, NEW data \in Seq(Nat), NEW w \in Written(data),
         \A k \in 1 .. Len(data) : data[k] = Given(Len(contents) + k),
         Len(data) <= Len(buf_) + n,
         contents' = contents \o Part(data, w), buf_' = <<>>,
         lost' \in BOOLEAN, ~lost' => ~lost /\ w.ok /\ Len(data) = Len(buf_) + n
  PROVE  Moved(n)
<1>1. PICK m \in Nat, s \in Seq(Nat) :
        /\ Part(data, w) = s /\ Len(s) = m /\ m <= Len(data) /\ (w.ok => m = Len(data))
        /\ \A i \in 1 .. m : s[i] = data[i]
  BY PartOf
<1>2. PICK b \in Nat, d \in Nat : Len(buf_) = b /\ Len(data) = d
  BY Lengths
<1>3. contents' = contents \o s
  BY <1>1
<1>4. \A k \in 1 .. Len(s) : s[k] = Given(Len(contents) + k)
  BY <1>1, <1>2
<1>5. \A k \in 1 .. Len(<<>>) : <<>>[k] = Given(Len(contents) + Len(s) + k)
  OBVIOUS
<1>6. /\ Len(<<>>) <= BufferSize
      /\ Len(s) + Len(<<>>) <= Len(buf_) + n
      /\ ~lost' => ~lost /\ Len(s) + Len(<<>>) = Len(buf_) + n
  BY <1>1, <1>2, WritableFileAssumption
<1>7. <<>> \in Seq(Nat)
  OBVIOUS
<1> QED
  BY <1>3, <1>4, <1>5, <1>6, <1>7, MovedPieces

\* FlushBuffer.
LEMMA BufferMoved ==
  ASSUME FileInv, NEW w \in Written(buf_),
         contents' = contents \o Part(buf_, w), buf_' = AfterFlush(buf_, w),
         lost' \in BOOLEAN, ~lost' => ~lost /\ w.ok
  PROVE  Moved(0)
<1>1. PICK c \in Nat, b \in Nat, a \in Nat :
        /\ Len(contents) = c /\ Len(buf_) = b /\ Appends = a /\ Total = c + b
        /\ buf_ \in Seq(Nat)
  BY Lengths
<1>2. ASSUME NEW k \in 1 .. b PROVE buf_[k] = Given(c + k)
  <2>1. c + k <= c + b /\ ~(c + k <= c) /\ c + k - c = k
    OBVIOUS
  <2> QED
    BY <1>1, <2>1 DEF Given, At
<1>3. \A k \in 1 .. Len(buf_) : buf_[k] = Given(Len(contents) + k)
  BY <1>1, <1>2
<1>4. Len(buf_) <= Len(buf_) + 0 /\ Len(buf_) = Len(buf_) + 0
  BY <1>1
<1>5. buf_' = <<>>
  BY DEF AfterFlush
<1> QED
  BY <1>1, <1>3, <1>4, <1>5, MovedPart

\* The buffer filled up, and the rest of the data.
LEMMA FullOf ==
  ASSUME FileInv, NEW n \in Nat, NEW copy \in Nat, copy <= n
  PROVE  /\ Filled(Piece(n, 0, copy)) \in Seq(Nat)
         /\ Len(Filled(Piece(n, 0, copy))) = Len(buf_) + copy
         /\ \A k \in 1 .. Len(Filled(Piece(n, 0, copy))) :
              Filled(Piece(n, 0, copy))[k] = Given(Len(contents) + k)
<1>1. Appends \in Nat
  BY DEF FileInv, FileType, Appends
<1>2. /\ Piece(n, 0, copy) \in Seq(Nat) /\ Len(Piece(n, 0, copy)) = copy - 0
      /\ \A i \in 1 .. copy - 0 : Piece(n, 0, copy)[i] = Appends + (0 + i)
  <2>1. 0 \in Nat /\ 0 <= copy
    OBVIOUS
  <2> QED
    BY <1>1, <2>1, DataPiece
<1>3. /\ Piece(n, 0, copy) \in Seq(Nat) /\ Len(Piece(n, 0, copy)) = copy
      /\ \A i \in 1 .. copy : Piece(n, 0, copy)[i] = Appends + i
  BY <1>1, <1>2
<1> QED
  BY <1>3, FullPiece

\* What does not fit in the buffer comes right behind it.
LEMMA LeftOf ==
  ASSUME FileInv, NEW n \in Nat, NEW copy \in Nat, copy <= n
  PROVE  /\ Piece(n, copy, n) \in Seq(Nat) /\ Len(Piece(n, copy, n)) = n - copy
         /\ \A k \in 1 .. n - copy :
              Piece(n, copy, n)[k] = Given(Len(contents) + (Len(buf_) + copy) + k)
<1>1. Appends \in Nat
  BY DEF FileInv, FileType, Appends
<1>2. /\ Piece(n, copy, n) \in Seq(Nat) /\ Len(Piece(n, copy, n)) = n - copy
      /\ \A i \in 1 .. n - copy : Piece(n, copy, n)[i] = Appends + (copy + i)
  BY <1>1, DataPiece
<1>3. PICK c \in Nat, b \in Nat, a \in Nat :
        Len(contents) = c /\ Len(buf_) = b /\ Appends = a /\ Total = c + b
  BY Lengths
<1>4. ASSUME NEW k \in 1 .. n - copy PROVE Appends + (copy + k) = Given(c + (b + copy) + k)
  <2>1. ~(c + (b + copy) + k <= c + b) /\ c + (b + copy) + k - (c + b) = copy + k
    OBVIOUS
  <2> QED
    BY <1>3, <2>1 DEF Given
<1> QED
  BY <1>2, <1>3, <1>4

\* A write that succeeds takes all there is; two writes are one of both pieces.
LEMMA WholePart ==
  ASSUME NEW data \in Seq(Nat), NEW w \in Written(data), w.ok
  PROVE  Part(data, w) = data
<1>1. w.n = Len(data)
  BY PartOf
<1> QED
  BY <1>1 DEF Part

\* Putting pieces together is associative.
LEMMA TwoWrites ==
  ASSUME NEW r \in Seq(Nat), NEW s \in Seq(Nat), NEW t \in Seq(Nat)
  PROVE  (r \o s) \o t = r \o (s \o t)
OBVIOUS

\* The same facts of a written part and of two joined pieces, as pieces to pick.
LEMMA PartIs ==
  ASSUME NEW data \in Seq(Nat), NEW w \in Written(data)
  PROVE  \E m \in Nat, r \in Seq(Nat) :
           /\ Part(data, w) = r /\ Len(r) = m /\ m <= Len(data) /\ (w.ok => m = Len(data))
           /\ \A i \in 1 .. m : r[i] = data[i]
<1>1. /\ w.n \in 0 .. Len(data) /\ (w.ok => w.n = Len(data))
      /\ Part(data, w) \in Seq(Nat) /\ Len(Part(data, w)) = w.n
      /\ \A i \in 1 .. w.n : Part(data, w)[i] = data[i]
  BY PartOf, Zenon
<1>2. w.n \in Nat /\ w.n <= Len(data)
  BY <1>1
<1> QED
  BY <1>1, <1>2, Zenon

\* Two pieces put together, as one piece to pick.
LEMMA Joined ==
  ASSUME NEW s \in Seq(Nat), NEW t \in Seq(Nat)
  PROVE  \E r \in Seq(Nat) :
           /\ r = s \o t /\ Len(r) = Len(s) + Len(t)
           /\ \A k \in 1 .. Len(s) + Len(t) :
                r[k] = IF k <= Len(s) THEN s[k] ELSE t[k - Len(s)]
<1>1. PICK r : r = s \o t
  OBVIOUS
<1>2. /\ r \in Seq(Nat) /\ Len(r) = Len(s) + Len(t)
      /\ \A k \in 1 .. Len(s) + Len(t) :
           r[k] = IF k <= Len(s) THEN s[k] ELSE t[k - Len(s)]
  BY <1>1, Concat, Zenon
<1> QED
  BY <1>1, <1>2, Zenon

\* One piece whole and a first part of the next, and nothing behind them.
LEMMA MovedBoth ==
  ASSUME FileInv, NEW n \in Nat, NEW full \in Seq(Nat), NEW left \in Seq(Nat),
         NEW w2 \in Written(left),
         \A k \in 1 .. Len(full) : full[k] = Given(Len(contents) + k),
         \A k \in 1 .. Len(left) : left[k] = Given(Len(contents) + Len(full) + k),
         Len(full) + Len(left) = Len(buf_) + n,
         contents' = (contents \o full) \o Part(left, w2), buf_' = <<>>,
         lost' \in BOOLEAN, ~lost' => ~lost /\ w2.ok
  PROVE  Moved(n)
<1>1. PICK c \in Nat, b \in Nat : Len(contents) = c /\ Len(buf_) = b /\ contents \in Seq(Nat)
  BY Lengths
<1>2. PICK m \in Nat, r \in Seq(Nat) :
        /\ Part(left, w2) = r /\ Len(r) = m /\ m <= Len(left) /\ (w2.ok => m = Len(left))
        /\ \A i \in 1 .. m : r[i] = left[i]
  BY PartIs, Zenon
<1>3. PICK f \in Nat, l \in Nat : Len(full) = f /\ Len(left) = l
  OBVIOUS
<1>4. PICK both \in Seq(Nat) :
        /\ both = full \o r /\ Len(both) = Len(full) + Len(r)
        /\ \A k \in 1 .. Len(full) + Len(r) :
             both[k] = IF k <= Len(full) THEN full[k] ELSE r[k - Len(full)]
  BY Joined, Zenon
<1>5. contents' = contents \o both
  BY <1>1, <1>2, <1>4, TwoWrites
<1>6. /\ Len(both) = f + m
      /\ \A k \in 1 .. f + m : both[k] = IF k <= f THEN full[k] ELSE r[k - f]
  BY <1>2, <1>3, <1>4
<1>7. ASSUME NEW k \in 1 .. f + m PROVE both[k] = Given(c + k)
  <2>1. CASE k <= f
    BY <1>1, <1>3, <1>6, <2>1
  <2>2. CASE ~(k <= f)
    <3>1. k - f \in 1 .. m /\ k - f \in 1 .. l /\ c + f + (k - f) = c + k
      BY <1>2, <1>3, <2>2, SMTT(30)
    <3>2. left[k - f] = Given(c + f + (k - f))
      BY <1>1, <1>3, <3>1
    <3> QED
      BY <1>2, <1>6, <2>2, <3>1, <3>2
  <2> QED
    BY <2>1, <2>2
<1>8. \A k \in 1 .. Len(both) : both[k] = Given(Len(contents) + k)
  BY <1>1, <1>6, <1>7
<1>9. /\ Len(<<>>) <= BufferSize
      /\ Len(both) + Len(<<>>) <= Len(buf_) + n
      /\ ~lost' => ~lost /\ Len(both) + Len(<<>>) = Len(buf_) + n
  BY <1>1, <1>2, <1>3, <1>6, WritableFileAssumption
<1>10. /\ <<>> \in Seq(Nat)
       /\ \A k \in 1 .. Len(<<>>) : <<>>[k] = Given(Len(contents) + Len(both) + k)
  OBVIOUS
<1> QED
  BY <1>5, <1>8, <1>9, <1>10, MovedPieces

\* Append.
LEMMA AppendMoved ==
  ASSUME FileInv, NEW n \in Nat, WFAppend(n)
  PROVE  Moved(n)
<1>1. PICK c \in Nat, b \in Nat, a \in Nat :
        /\ Len(contents) = c /\ Len(buf_) = b /\ Appends = a /\ Total = c + b
        /\ buf_ \in Seq(Nat) /\ contents \in Seq(Nat)
  BY Lengths
<1>2. BufferSize \in Nat \ {0} /\ b <= BufferSize /\ lost \in BOOLEAN
  BY <1>1, WritableFileAssumption DEF FileInv, FileType
<1>3. PICK copy \in Nat :
        /\ copy = IF n <= BufferSize - Len(buf_) THEN n ELSE BufferSize - Len(buf_)
        /\ copy <= n /\ b + copy <= BufferSize
  <2>1. CASE n <= BufferSize - Len(buf_)
    BY <1>1, <1>2, <2>1
  <2>2. CASE ~(n <= BufferSize - Len(buf_))
    <3>1. BufferSize - b \in Nat /\ BufferSize - b <= n /\ b + (BufferSize - b) <= BufferSize
      BY <1>1, <1>2, <2>2
    <3> QED
      BY <1>1, <2>2, <3>1
  <2> QED
    BY <2>1, <2>2
<1> DEFINE full == Filled(Piece(n, 0, copy))
           left == Piece(n, copy, n)
<1>a. 0 + 1 = 1
  OBVIOUS
<1>b. full = buf_ \o SubSeq(Data(n), 1, copy) /\ left = SubSeq(Data(n), copy + 1, n)
  BY <1>a DEF Filled, Piece
<1>5. /\ full \in Seq(Nat) /\ Len(full) = Len(buf_) + copy
      /\ \A k \in 1 .. Len(full) : full[k] = Given(Len(contents) + k)
  BY <1>3, FullOf
<1>6. /\ left \in Seq(Nat) /\ Len(left) = n - copy
      /\ \A k \in 1 .. n - copy : left[k] = Given(Len(contents) + (Len(buf_) + copy) + k)
  BY <1>3, LeftOf
<1> HIDE DEF full, left
<1>4. \/ /\ left = <<>> /\ buf_' = full /\ contents' = contents /\ lost' = lost
      \/ \E w \in Written(full) :
           /\ ~w.ok /\ contents' = contents \o Part(full, w) /\ buf_' = <<>> /\ lost' = TRUE
      \/ \E w \in Written(full) :
           /\ w.ok /\ Len(left) < BufferSize /\ lost' = lost
           /\ contents' = contents \o Part(full, w) /\ buf_' = <<>> \o left
      \/ \E w \in Written(full) : \E w2 \in Written(left) :
           /\ w.ok /\ contents' = contents \o Part(full, w) \o Part(left, w2)
           /\ buf_' = <<>> /\ lost' = (lost \/ ~w2.ok)
  BY <1>2, <1>3, <1>b DEF WFAppend, Failed, AfterFlush
<1>7. \A k \in 1 .. Len(left) : left[k] = Given(Len(contents) + Len(full) + k)
  BY <1>5, <1>6
<1>8. PICK f \in Nat, l \in Nat :
        Len(full) = f /\ Len(left) = l /\ f = b + copy /\ l = n - copy /\ f + l = b + n
  BY <1>1, <1>3, <1>5, <1>6
<1>9. CASE left = <<>> /\ buf_' = full /\ contents' = contents /\ lost' = lost
  <2>1. contents' = contents \o <<>> /\ <<>> \in Seq(Nat) /\ Len(<<>>) = 0
    BY <1>1, <1>9
  <2>2. l = 0
    BY <1>8, <1>9
  <2>3. /\ Len(full) <= BufferSize
        /\ Len(<<>>) + Len(full) <= Len(buf_) + n
        /\ Len(<<>>) + Len(full) = Len(buf_) + n
    BY <1>1, <1>3, <1>8, <2>1, <2>2
  <2>4. /\ \A k \in 1 .. Len(<<>>) : <<>>[k] = Given(Len(contents) + k)
        /\ \A k \in 1 .. Len(full) : full[k] = Given(Len(contents) + Len(<<>>) + k)
    BY <1>1, <1>5, <2>1
  <2> QED
    BY <1>2, <1>5, <1>9, <2>1, <2>3, <2>4, MovedPieces
<1>10. CASE \E w \in Written(full) :
              /\ ~w.ok /\ contents' = contents \o Part(full, w) /\ buf_' = <<>> /\ lost' = TRUE
  <2>1. Len(full) <= Len(buf_) + n
    BY <1>1, <1>8
  <2> QED
    BY <1>5, <1>10, <2>1, MovedPart
<1>11. CASE \E w \in Written(full) :
              /\ w.ok /\ Len(left) < BufferSize /\ lost' = lost
              /\ contents' = contents \o Part(full, w) /\ buf_' = <<>> \o left
  <2>1. contents' = contents \o full
    BY <1>5, <1>11, WholePart
  <2>2. buf_' = left
    BY <1>6, <1>11
  <2>3. /\ Len(left) <= BufferSize
        /\ Len(full) + Len(left) <= Len(buf_) + n
        /\ Len(full) + Len(left) = Len(buf_) + n
    BY <1>1, <1>2, <1>8, <1>11
  <2>4. lost' \in BOOLEAN /\ lost' = lost
    BY <1>2, <1>11
  <2> QED
    BY <1>5, <1>6, <1>7, <2>1, <2>2, <2>3, <2>4, MovedPieces
<1>12. CASE \E w \in Written(full) : \E w2 \in Written(left) :
              /\ w.ok /\ contents' = contents \o Part(full, w) \o Part(left, w2)
              /\ buf_' = <<>> /\ lost' = (lost \/ ~w2.ok)
  <2>1. PICK w2 \in Written(left) :
          /\ contents' = (contents \o full) \o Part(left, w2)
          /\ buf_' = <<>> /\ lost' = (lost \/ ~w2.ok)
    BY <1>5, <1>12, WholePart
  <2>2. lost' \in BOOLEAN /\ (~lost' => ~lost /\ w2.ok)
    BY <1>2, <2>1
  <2>3. Len(full) + Len(left) = Len(buf_) + n
    BY <1>1, <1>8
  <2> QED
    BY <1>5, <1>6, <1>7, <2>1, <2>2, <2>3, MovedBoth
<1> QED
  BY <1>4, <1>9, <1>10, <1>11, <1>12

-----------------------------------------------------------------------------
(* The steps. *)

\* A step that gives the file n more bytes, keeps the synced part and syncs nothing.
LEMMA KeptByMove ==
  ASSUME FileInv, NEW n \in Nat, Moved(n),
         names' = names \o [i \in 1 .. n |-> created], created' = created,
         is_manifest_' = is_manifest_,
         on_disk' \in Nat, on_disk <= on_disk', on_disk' <= Len(contents'),
         entries_on_disk' \in Nat, entries_on_disk <= entries_on_disk',
         entries_on_disk' <= created,
         sync_ok' = sync_ok
  PROVE  FileInv'
<1>1. /\ OrderInv'
      /\ names' \in Seq(Nat) /\ Len(names') = Len(names) + n
      /\ \A b \in 1 .. Len(names) : names'[b] = names[b]
      /\ \A k \in 1 .. Len(contents) : contents'[k] = contents[k]
  BY MovedOrder, Zenon
<1>2. PICK l \in Nat, c \in Nat :
        /\ Len(names) = l /\ Len(contents) = c /\ sync_ok \in Nat /\ sync_ok <= l
        /\ on_disk \in Nat /\ on_disk <= c /\ entries_on_disk \in Nat
        /\ created \in Nat /\ is_manifest_ \in BOOLEAN
        /\ names \in Seq(Nat)
  BY DEF FileInv, FileType
<1>3. FileType'
  <2>1. sync_ok' \in Nat /\ sync_ok' <= Len(names')
    BY <1>1, <1>2
  <2>2. /\ contents' \in Seq(Nat) /\ buf_' \in Seq(Nat) /\ Len(buf_') <= BufferSize
        /\ lost' \in BOOLEAN
    BY DEF Moved
  <2> QED
    BY <1>1, <1>2, <2>1, <2>2 DEF FileType
<1>4. SyncedBytesStay'
  <2>1. ASSUME NEW b \in 1 .. sync_ok
        PROVE  /\ b <= on_disk' /\ contents'[b] = b
               /\ is_manifest_ => names'[b] <= entries_on_disk'
    <3>1. b <= on_disk /\ contents[b] = b /\ (is_manifest_ => names[b] <= entries_on_disk)
      BY DEF FileInv, SyncedBytesStay
    <3>2. b \in 1 .. Len(contents) /\ b \in 1 .. Len(names) /\ b <= on_disk'
      BY <1>2, <3>1
    <3>3. names[b] \in Nat
      BY <1>2, <3>2
    <3>4. is_manifest_ => names[b] <= entries_on_disk'
      BY <1>2, <3>1, <3>3
    <3> QED
      BY <1>1, <3>1, <3>2, <3>4
  <2> QED
    BY <2>1 DEF SyncedBytesStay
<1> QED
  BY <1>1, <1>3, <1>4 DEF FileInv

\* A step that is given nothing.
LEMMA NothingNamed ==
  ASSUME FileInv, names' = names
  PROVE  names' = names \o [i \in 1 .. 0 |-> created]
<1>1. [i \in 1 .. 0 |-> created] = <<>>
  OBVIOUS
<1>2. names \o <<>> = names
  BY DEF FileInv, FileType
<1> QED
  BY <1>1, <1>2

\* What may be used of the types.
LEMMA Types ==
  ASSUME FileInv
  PROVE  /\ is_manifest_ \in BOOLEAN /\ lost \in BOOLEAN
         /\ on_disk \in Nat /\ on_disk <= Len(contents)
         /\ created \in Nat /\ entries_on_disk \in Nat /\ entries_on_disk <= created
         /\ Len(contents) \in Nat /\ names \in Seq(Nat) /\ Len(names) \in Nat
         /\ sync_ok \in Nat /\ sync_ok <= Len(names)
BY DEF FileInv, FileType

\* PosixWritableFile::Append.
LEMMA AppendKeeps ==
  ASSUME FileInv, NEW n \in AppendSizes, WFAppend(n)
  PROVE  FileInv'
<1>1. n \in Nat
  BY WritableFileAssumption
<1>2. Moved(n)
  BY <1>1, AppendMoved
<1>3. /\ names' = names \o [i \in 1 .. n |-> created] /\ created' = created
      /\ is_manifest_' = is_manifest_ /\ on_disk' = on_disk
      /\ entries_on_disk' = entries_on_disk /\ sync_ok' = sync_ok
  BY DEF WFAppend
<1>4. Len(contents') \in Nat /\ Len(contents) <= Len(contents')
  BY <1>2 DEF Moved
<1>5. /\ on_disk' \in Nat /\ on_disk <= on_disk' /\ on_disk' <= Len(contents')
      /\ entries_on_disk' \in Nat /\ entries_on_disk <= entries_on_disk'
      /\ entries_on_disk' <= created
  BY <1>3, <1>4, Types
<1> QED
  BY <1>1, <1>2, <1>3, <1>5, KeptByMove

\* FlushBuffer, called by Flush, Close or a Sync that fails later.
LEMMA FlushKeeps ==
  ASSUME FileInv, NEW w \in Written(buf_),
         contents' = contents \o Part(buf_, w), buf_' = AfterFlush(buf_, w),
         lost' = (lost \/ ~w.ok),
         is_manifest_' = is_manifest_, created' = created, names' = names,
         on_disk' = on_disk, sync_ok' = sync_ok,
         entries_on_disk' \in {entries_on_disk, created}
  PROVE  FileInv'
<1>1. lost' \in BOOLEAN /\ (~lost' => ~lost /\ w.ok)
  BY Types
<1>2. Moved(0)
  BY <1>1, BufferMoved, Zenon
<1>3. names' = names \o [i \in 1 .. 0 |-> created]
  BY NothingNamed, Zenon
<1>4. Len(contents') \in Nat /\ Len(contents) <= Len(contents')
  BY <1>2 DEF Moved
<1>5. /\ on_disk' \in Nat /\ on_disk <= on_disk' /\ on_disk' <= Len(contents')
      /\ entries_on_disk' \in Nat /\ entries_on_disk <= entries_on_disk'
      /\ entries_on_disk' <= created
  BY <1>4, Types
<1>6. 0 \in Nat
  OBVIOUS
<1> QED
  BY <1>2, <1>3, <1>5, <1>6, KeptByMove, Zenon

\* A step that changes nothing of what the invariant reads, or makes a file.
LEMMA SameKeeps ==
  ASSUME FileInv,
         UNCHANGED <<is_manifest_, buf_, contents, on_disk, entries_on_disk, names, lost,
                     sync_ok>>,
         created' \in Nat, created <= created'
  PROVE  FileInv'
<1>1. FileType'
  BY DEF FileInv, FileType
<1>2. Total' = Total /\ Appends' = Appends /\ \A k : At(k)' = At(k)
  BY DEF Total, Appends, At
<1>3. ASSUME ~lost' PROVE \A b \in 1 .. Appends' : names'[b] <= created'
  <2>1. \A b \in 1 .. Len(names) : names[b] <= created /\ names[b] \in Nat
    BY <1>3 DEF FileInv, FileType, OrderInv, Appends
  <2> QED
    BY <1>2, <2>1, Types DEF Appends
<1>4. OrderInv'
  BY <1>2, <1>3 DEF FileInv, OrderInv
<1>5. SyncedBytesStay'
  BY DEF FileInv, SyncedBytesStay
<1> QED
  BY <1>1, <1>4, <1>5 DEF FileInv

\* A Sync that returns OK.
LEMMA SyncKeeps ==
  ASSUME FileInv, NEW w \in Written(buf_), w.ok,
         contents' = contents \o Part(buf_, w), buf_' = AfterFlush(buf_, w),
         lost' = lost, is_manifest_' = is_manifest_, created' = created, names' = names,
         on_disk' = Len(contents'), sync_ok' = IF lost THEN sync_ok ELSE Appends,
         entries_on_disk' = SyncDirIfManifest
  PROVE  FileInv'
<1>1. lost' \in BOOLEAN /\ (~lost' => ~lost /\ w.ok)
  BY Types
<1>2. Moved(0)
  BY <1>1, BufferMoved, Zenon
<1>3. names' = names \o [i \in 1 .. 0 |-> created]
  BY NothingNamed, Zenon
<1>4. 0 \in Nat
  OBVIOUS
<1>5. OrderInv' /\ \A k \in 1 .. Len(contents) : contents'[k] = contents[k]
  BY <1>2, <1>3, <1>4, MovedOrder, Zenon
<1>6. /\ contents' \in Seq(Nat) /\ Len(contents') \in Nat /\ Len(contents) <= Len(contents')
      /\ buf_' = <<>>
  BY <1>2 DEF Moved, AfterFlush
<1>7. /\ entries_on_disk' \in Nat /\ entries_on_disk <= entries_on_disk'
      /\ entries_on_disk' <= created /\ (is_manifest_ => entries_on_disk' = created)
  BY Types DEF SyncDirIfManifest
<1>8. FileType'
  <2>1. sync_ok' \in Nat /\ sync_ok' <= Len(names')
    BY Types DEF Appends
  <2>2. buf_' \in Seq(Nat) /\ Len(buf_') <= BufferSize
    BY <1>2 DEF Moved
  <2>3. on_disk' \in Nat /\ on_disk' <= Len(contents')
    BY <1>6
  <2> QED
    BY <1>1, <1>6, <1>7, <2>1, <2>2, <2>3, Types DEF FileType
<1>9. ASSUME NEW b \in 1 .. sync_ok'
      PROVE  /\ b <= on_disk' /\ contents'[b] = b
             /\ is_manifest_ => names'[b] <= entries_on_disk'
  <2>1. CASE lost
    <3>1. b <= on_disk /\ contents[b] = b /\ (is_manifest_ => names[b] <= entries_on_disk)
      BY <2>1 DEF FileInv, SyncedBytesStay
    <3>2. b \in 1 .. Len(contents) /\ b \in 1 .. Len(names) /\ b <= on_disk'
      <4>1. sync_ok' = sync_ok /\ b \in 1 .. sync_ok
        BY <2>1
      <4>2. /\ sync_ok \in Nat /\ sync_ok <= Len(names) /\ Len(names) \in Nat
            /\ on_disk \in Nat /\ on_disk <= Len(contents) /\ Len(contents) \in Nat
        BY Types
      <4>3. on_disk' \in Nat /\ on_disk <= on_disk'
        BY <1>6, <4>2
      <4> QED
        BY <3>1, <4>1, <4>2, <4>3
    <3>3. names[b] \in Nat
      BY <3>2, Types
    <3>4. is_manifest_ => names[b] <= entries_on_disk'
      BY <1>7, <3>1, <3>3, Types
    <3> QED
      BY <1>5, <3>1, <3>2, <3>4
  <2>2. CASE ~lost
    <3>1. Total' = Appends' /\ \A k \in 1 .. Total' : At(k)' = k
      BY <1>5, <2>2 DEF OrderInv
    <3>2. Total' = Len(contents') /\ Appends' = Appends
      <4>1. Total' = Len(contents') + Len(buf_') /\ Len(buf_') = 0
        BY <1>6 DEF Total
      <4> QED
        BY <1>6, <4>1 DEF Appends
    <3>3. b \in 1 .. Appends
      BY <2>2
    <3>4. b <= on_disk' /\ b \in 1 .. Len(contents')
      <4>1. Len(contents') = Appends
        BY <3>1, <3>2
      <4>2. b \in 1 .. Len(contents')
        BY <3>3, <4>1
      <4> QED
        BY <1>6, <4>2
    <3>5. contents'[b] = b
      BY <3>1, <3>2, <3>4 DEF At
    <3>6. names[b] <= created
      BY <2>2, <3>3 DEF FileInv, OrderInv
    <3> QED
      BY <1>7, <3>4, <3>5, <3>6
  <2> QED
    BY <2>1, <2>2, Types
<1>10. SyncedBytesStay'
  BY <1>9 DEF SyncedBytesStay
<1> QED
  BY <1>5, <1>8, <1>10 DEF FileInv

\* A crash of the machine keeps the synced bytes and the entries of the files.
LEMMA CrashKeeps ==
  ASSUME FileInv, MachineCrash
  PROVE  FileInv'
<1>1. PICK m \in on_disk .. Len(contents), k \in entries_on_disk .. created :
        /\ contents' = SubSeq(contents, 1, m) /\ on_disk' = m
        /\ created' = k /\ entries_on_disk' = k
  BY DEF MachineCrash
<1>2. /\ m \in Nat /\ m <= Len(contents) /\ on_disk <= m
      /\ k \in Nat /\ entries_on_disk <= k /\ k <= created
  BY Types
<1>3. /\ contents' \in Seq(Nat) /\ Len(contents') = m
      /\ \A i \in 1 .. m : contents'[i] = contents[i]
  BY <1>1, <1>2 DEF FileInv, FileType
<1>4. /\ buf_' = <<>> /\ lost' = TRUE
      /\ is_manifest_' = is_manifest_ /\ names' = names /\ sync_ok' = sync_ok
  BY DEF MachineCrash
<1>5. FileType'
  <2>1. buf_' \in Seq(Nat) /\ Len(buf_') <= BufferSize
    BY <1>4, WritableFileAssumption
  <2> QED
    BY <1>1, <1>2, <1>3, <1>4, <2>1, Types DEF FileType
<1>6. Total' = m /\ Appends' = Appends /\ \A i \in 1 .. m : At(i)' = contents[i]
  <2>1. Len(buf_') = 0
    BY <1>4
  <2> QED
    BY <1>2, <1>3, <1>4, <2>1 DEF Total, Appends, At
<1>7. /\ \A i \in 1 .. m : contents[i] <= Appends
      /\ \A i, j \in 1 .. m : i < j => contents[i] < contents[j]
  <2>1. ASSUME NEW i \in 1 .. m PROVE i \in 1 .. Total /\ At(i) = contents[i]
    <3>1. PICK c \in Nat, b \in Nat : Len(contents) = c /\ Total = c + b
      BY Lengths
    <3> QED
      BY <1>2, <3>1 DEF At
  <2> QED
    BY <2>1 DEF FileInv, OrderInv
<1>8. OrderInv'
  BY <1>4, <1>6, <1>7 DEF OrderInv
<1>9. ASSUME NEW b \in 1 .. sync_ok
      PROVE  /\ b <= on_disk' /\ contents'[b] = b
             /\ is_manifest_ => names[b] <= entries_on_disk'
  <2>1. b <= on_disk /\ contents[b] = b /\ (is_manifest_ => names[b] <= entries_on_disk)
    BY DEF FileInv, SyncedBytesStay
  <2>2. b \in 1 .. m /\ b \in 1 .. Len(names) /\ b <= on_disk'
    BY <1>1, <1>2, <2>1, Types
  <2>3. names[b] \in Nat
    BY <2>2, Types
  <2>4. is_manifest_ => names[b] <= entries_on_disk'
    BY <1>1, <1>2, <2>1, <2>3, Types
  <2> QED
    BY <1>3, <2>1, <2>2, <2>4
<1>10. SyncedBytesStay'
  BY <1>4, <1>9 DEF SyncedBytesStay
<1> QED
  BY <1>5, <1>8, <1>10 DEF FileInv

-----------------------------------------------------------------------------
(* The theorems. *)

\* The first state satisfies the invariant and every step keeps it.
LEMMA FileInit ==
  ASSUME WFInit
  PROVE  FileInv
<1>1. is_manifest_ \in BOOLEAN
  BY WritableFileAssumption DEF WFInit
<1>2. Total = 0 /\ Appends = 0
  BY DEF WFInit, Total, Appends
<1>3. FileType
  <2>1. <<>> \in Seq(Nat) /\ Len(<<>>) = 0 /\ 0 \in Nat /\ 0 <= 0
    OBVIOUS
  <2>2. 0 <= BufferSize
    BY WritableFileAssumption
  <2> QED
    BY <1>1, <2>1, <2>2 DEF WFInit, FileType
<1>4. OrderInv
  <2>1. \A k \in 1 .. 0 : FALSE
    OBVIOUS
  <2> QED
    BY <1>2, <2>1 DEF OrderInv
<1>5. SyncedBytesStay
  BY DEF WFInit, SyncedBytesStay
<1> QED
  BY <1>3, <1>4, <1>5 DEF FileInv

\* Every step of the file, of its directory and of the machine.
LEMMA FileNext ==
  ASSUME FileInv, [WFNext]_wfvars
  PROVE  FileInv'
<1>1. ASSUME NEW n \in AppendSizes, WFAppend(n) PROVE FileInv'
  BY <1>1, AppendKeeps
<1>2. CASE WFFlush
  BY <1>2, FlushKeeps DEF WFFlush, Failed, rest
<1>3. CASE WFSync
  <2>1. CASE UNCHANGED <<is_manifest_, buf_, contents, on_disk, entries_on_disk, names,
                         lost, sync_ok, created>>
    BY <2>1, SameKeeps, Types
  <2>2. ASSUME NEW w \in Written(buf_), NEW synced \in BOOLEAN,
               UNCHANGED <<is_manifest_, created, names>>,
               entries_on_disk' = SyncDirIfManifest,
               contents' = contents \o Part(buf_, w), buf_' = AfterFlush(buf_, w),
               IF w.ok /\ synced
               THEN /\ on_disk' = Len(contents') /\ lost' = lost
                    /\ sync_ok' = IF lost THEN sync_ok ELSE Appends
               ELSE lost' = (lost \/ ~w.ok) /\ on_disk' = on_disk /\ sync_ok' = sync_ok
        PROVE  FileInv'
    <3>1. CASE w.ok /\ synced
      BY <2>2, <3>1, SyncKeeps
    <3>2. CASE ~(w.ok /\ synced)
      <4>1. entries_on_disk' \in {entries_on_disk, created}
        BY <2>2, Types DEF SyncDirIfManifest
      <4> QED
        BY <2>2, <3>2, <4>1, FlushKeeps
    <3> QED
      BY <3>1, <3>2
  <2> QED
    BY <1>3, <2>1, <2>2 DEF WFSync, rest, WrittenBySync, SyncOutcomes
<1>4. CASE WFClose
  BY <1>4, FlushKeeps DEF WFClose, Failed, rest
<1>5. CASE NewAppendableFile
  BY <1>5, SameKeeps, Types DEF NewAppendableFile, rest
<1>6. CASE CreateFile
  BY <1>6, SameKeeps, Types DEF CreateFile
<1>7. CASE MachineCrash
  BY <1>7, CrashKeeps
<1>8. CASE UNCHANGED wfvars
  BY <1>8, SameKeeps, Types DEF wfvars
<1> QED
  BY <1>1, <1>2, <1>3, <1>4, <1>5, <1>6, <1>7, <1>8 DEF WFNext

\* The file and the buffer behind it, as one sequence.
LEMMA AscendingOrder ==
  ASSUME FileInv
  PROVE  ContentsFollowAppends
<1>1. PICK c \in Nat, b \in Nat, a \in Nat :
        /\ Len(contents) = c /\ Len(buf_) = b /\ Appends = a /\ Total = c + b
        /\ contents \in Seq(Nat) /\ buf_ \in Seq(Nat)
  BY Lengths
<1>2. PICK all \in Seq(Nat) :
        /\ all = contents \o buf_ /\ Len(all) = Len(contents) + Len(buf_)
        /\ \A k \in 1 .. Len(contents) + Len(buf_) :
             all[k] = IF k <= Len(contents) THEN contents[k] ELSE buf_[k - Len(contents)]
  BY <1>1, Joined, Zenon
<1>3. Len(all) = Total /\ \A k \in 1 .. Total : all[k] = At(k)
  BY <1>1, <1>2 DEF At
<1>4. Ascending(all)
  <2>1. ASSUME NEW i \in 1 .. Len(all) - 1 PROVE all[i] < all[i + 1]
    <3>1. i \in 1 .. Total /\ i + 1 \in 1 .. Total /\ i < i + 1
      BY <1>1, <1>3
    <3>2. At(i) < At(i + 1)
      BY <3>1 DEF FileInv, OrderInv
    <3> QED
      BY <1>3, <3>1, <3>2
  <2> QED
    BY <2>1 DEF Ascending
<1>5. ASSUME ~lost PROVE all = [i \in 1 .. Appends |-> i]
  <2>1. Total = Appends /\ \A k \in 1 .. Total : At(k) = k
    BY <1>5 DEF FileInv, OrderInv
  <2>2. Len(all) = a /\ \A k \in 1 .. a : all[k] = k
    BY <1>1, <1>3, <2>1
  <2>3. all = [i \in 1 .. a |-> i]
    BY <2>2
  <2> QED
    BY <1>1, <2>3
<1> QED
  BY <1>2, <1>4, <1>5 DEF ContentsFollowAppends

\* The invariant holds in every state.
LEMMA FileInvariant == WFSpec => []FileInv
<1>1. WFInit => FileInv
  BY FileInit
<1>2. FileInv /\ [WFNext]_wfvars => FileInv'
  BY FileNext
<1> QED
  BY <1>1, <1>2, PTL DEF WFSpec

\* Whatever the size of the buffer and of the appended pieces, and whatever
\* writes and syncs fail and the machine loses, the file and the buffer behind
\* it hold the appended bytes once each and in order, and all of them as long
\* as none was lost (PosixWritableFile::Append, FlushBuffer, Sync, Close).
THEOREM BytesInOrder == WFSpec => []ContentsFollowAppends
<1>1. FileInv => ContentsFollowAppends
  BY AscendingOrder
<1> QED
  BY <1>1, FileInvariant, PTL

\* What was appended before a Sync that returned OK with no byte lost stays in
\* the file through every later failure and crash, and with it the directory
\* entries of the files a MANIFEST may name (PosixWritableFile::Sync).
THEOREM SyncedBytesKept == WFSpec => []SyncedBytesStay
<1>1. FileInv => SyncedBytesStay
  BY DEF FileInv
<1> QED
  BY <1>1, FileInvariant, PTL

=============================================================================
