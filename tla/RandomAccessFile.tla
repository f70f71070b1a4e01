-------------------------- MODULE RandomAccessFile -------------------------
(***************************************************************************)
(* Reading a file: Read of PosixRandomAccessFile, of its direct I/O twin,  *)
(* of PosixMmapReadableFile and of PosixSequentialFile                     *)
(* (leveldb/util/env_posix.cc, leveldb/util/read_buffer.cc), as functions  *)
(* of the file's contents, and the check of the length that ReadBlock      *)
(* (leveldb/table/format.cc) makes of what it gets.                        *)
(***************************************************************************)
EXTENDS Integers, Sequences

CONSTANT Alignment   \* of direct I/O: 512 bytes, or the size of a page

ASSUME AlignmentAssumption == Alignment \in Nat \ {0}

garbage == 0         \* a byte of a buffer that nothing was read into

Refused == [ok |-> FALSE, data |-> <<>>]

ReadOK(data) == [ok |-> TRUE, data |-> data]

\* pread(2): the bytes from offset on, fewer than n at the end of the file.
pread(file, n, offset) ==
  SubSeq(file, offset + 1, IF offset + n <= Len(file) THEN offset + n ELSE Len(file))

PreadRead(file, offset, n) == ReadOK(pread(file, n, offset))

\* Outside the mapping is EINVAL.
MmapRead(file, offset, n) ==
  IF offset + n > Len(file) THEN Refused
  ELSE ReadOK(SubSeq(file, offset + 1, offset + n))

-----------------------------------------------------------------------------
(* Direct I/O reads aligned ranges. *)

GetBeforeAlignedValue(val) == val - (val % Alignment)

\* Mutant: an aligned value is not left alone, and another is not rounded up.
GetAfterAlignedValueDown(val) == val - (val % Alignment)

GetAfterAlignedValue(val) ==
  val + (IF val % Alignment = 0 THEN 0 ELSE Alignment - (val % Alignment))

NewAlignedData(offset, n) ==
  LET aligned_offset == GetBeforeAlignedValue(offset)
      user_offset    == offset - aligned_offset
  IN  [offset |-> aligned_offset, user_offset |-> user_offset,
       size |-> GetAfterAlignedValue(n + user_offset)]

\* The buffer after a pread into it; the result is n bytes of the buffer, also
\* when fewer were read.
DirectRead(file, offset, n) ==
  LET data == NewAlignedData(offset, n)
      got  == pread(file, data.size, data.offset)
      buf  == [i \in 1 .. data.size |-> IF i <= Len(got) THEN got[i] ELSE garbage]
      Byte(i) == IF i \in DOMAIN buf THEN buf[i] ELSE garbage
  IN  ReadOK([i \in 1 .. n |-> Byte(data.user_offset + i)])

-----------------------------------------------------------------------------
\* PosixSequentialFile::Read from position pos on.
SequentialRead(file, pos, n) == pread(file, n, pos)

\* All that a reader gets who asks for n bytes (n > 0) until there are none.
ReadAll(file, n) ==
  LET from[pos \in 0 .. Len(file) + n] ==
        LET piece == SequentialRead(file, pos, n)
        IN  IF piece = <<>> THEN <<>> ELSE piece \o from[pos + Len(piece)]
  IN  from[0]

\* ReadBlock: "truncated block read" unless all n bytes came.
Accepted(r, n) == r.ok /\ Len(r.data) = n

=============================================================================
