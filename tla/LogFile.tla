------------------------------ MODULE LogFile ------------------------------
(***************************************************************************)
(* The log format (leveldb/db/log_writer.cc, leveldb/db/log_reader.cc):    *)
(* records cut into fragments that do not cross the blocks of the file,    *)
(* written by a writer whose appends may fail and which goes on after a    *)
(* failure, and read back with checksums.                                  *)
(*                                                                         *)
(* A byte is the fragment it belongs to and its place in it, header first. *)
(* The checksum of a fragment is right when all its bytes are there; what  *)
(* the header of anything else says its length is does not matter, as the  *)
(* reader drops the rest of the block either way.                          *)
(***************************************************************************)
EXTENDS Integers, Sequences, FiniteSets, SequencesExt

CONSTANTS
  LogBlockSize,    \* log::kBlockSize
  HeaderSize,      \* log::kHeaderSize
  RecordSizes,     \* sizes of records
  MaxRecords,      \* bound: calls of AddRecord
  MaxLogFaults,    \* bound: appends that fail
  MaxLogCrashes    \* bound: crashes

ASSUME LogAssumption ==
  /\ {HeaderSize, MaxRecords} \subseteq Nat \ {0}
  /\ LogBlockSize \in Nat /\ LogBlockSize > HeaderSize
  /\ RecordSizes \cup {MaxLogFaults, MaxLogCrashes} \subseteq Nat

VARIABLES
  log_file,       \* the bytes of the file
  block_offset_,  \* the writer's place in its block
  records,        \* the number of records AddRecord was called with
  safe,           \* ghost: where each record ends that was added without an error
                  \* to an undamaged log
  damaged,        \* ghost: an append has failed, or the tail is torn
  log_faults, log_crashes

lgvars == <<log_file, block_offset_, records, safe, damaged, log_faults, log_crashes>>

Bytes(f, n) == [i \in 1 .. n |-> [of |-> f, at |-> i]]

ZeroFragment == [rec |-> 0, index |-> 0, type |-> "zero", length |-> 0]

-----------------------------------------------------------------------------
(* Writer. *)

\* Mutant: a block is left only when it is full.
NeedsNewBlockLate(offset) == offset = LogBlockSize

\* There is no room for a header.
NeedsNewBlock(offset) == LogBlockSize - offset < HeaderSize

\* The type of a fragment: whether it begins and ends its record.
TypeOf(begin, end) ==
  IF begin THEN IF end THEN "full" ELSE "first" ELSE IF end THEN "last" ELSE "middle"

\* The fragments of a record of which left bytes remain, from a place in a block
\* on: the bytes each adds to the file, zeros before it included, and the place
\* after it.
RECURSIVE Fragments(_, _, _, _)
Fragments(rec, index, left, offset) ==
  LET new    == NeedsNewBlock(offset)
      start  == IF new THEN 0 ELSE offset
      avail  == LogBlockSize - start - HeaderSize
      length == IF left < avail THEN left ELSE avail
      f      == [rec |-> rec, index |-> index,
                 type |-> TypeOf(index = 1, left = length), length |-> length]
      piece  == [bytes |-> Bytes(ZeroFragment, IF new THEN LogBlockSize - offset ELSE 0)
                             \o Bytes(f, HeaderSize + length),
                 offset |-> start + HeaderSize + length]
  IN  <<piece>> \o (IF left = length THEN <<>>
                    ELSE Fragments(rec, index + 1, left - length, piece.offset))

\* The bytes of the first k fragments.
FirstBytes(fs, k) == FoldLeft(LAMBDA s, f : s \o f.bytes, <<>>, SubSeq(fs, 1, k))

\* All of the record is written; or writing fragment k fails with n bytes of it in
\* the file, zeros before it included as they are buffered with it, and
\* block_offset_ counts it as written.
AddRecord(size) ==
  LET fs == Fragments(records + 1, 1, size, block_offset_)
  IN  /\ records < MaxRecords /\ records' = records + 1
      /\ \/ /\ log_file' = log_file \o FirstBytes(fs, Len(fs))
            /\ block_offset_' = fs[Len(fs)].offset
            /\ safe' = IF damaged THEN safe ELSE Append(safe, Len(log_file'))
            /\ UNCHANGED <<damaged, log_faults>>
         \/ /\ log_faults < MaxLogFaults /\ log_faults' = log_faults + 1
            /\ \E k \in 1 .. Len(fs) : \E n \in 0 .. Len(fs[k].bytes) - 1 :
                 /\ log_file' = log_file \o FirstBytes(fs, k - 1)
                                  \o SubSeq(fs[k].bytes, 1, n)
                 /\ block_offset_' = fs[k].offset
            /\ damaged' = TRUE
            /\ UNCHANGED safe
      /\ UNCHANGED log_crashes

\* A crash cuts the file anywhere; a new Writer goes on at its end (reuse_logs).
CrashAndReopen ==
  /\ log_crashes < MaxLogCrashes /\ log_crashes' = log_crashes + 1
  /\ \E n \in 0 .. Len(log_file) :
       /\ log_file' = SubSeq(log_file, 1, n)
       /\ block_offset_' = n % LogBlockSize
       /\ safe' = SelectSeq(safe, LAMBDA end : end <= n)
       /\ damaged' = (damaged \/ n \notin {0} \cup {safe[i] : i \in DOMAIN safe})
  /\ UNCHANGED <<records, log_faults>>

LGInit ==
  /\ log_file = <<>> /\ block_offset_ = 0 /\ records = 0
  /\ safe = <<>> /\ damaged = FALSE
  /\ log_faults = 0 /\ log_crashes = 0

LGNext ==
  \/ \E size \in RecordSizes : AddRecord(size)
  \/ CrashAndReopen

LGSpec == LGInit /\ [][LGNext]_lgvars

-----------------------------------------------------------------------------
(* Reader.  r: the bytes not yet read, the buffer, the fragments collected *)
(* of a record, whether it is in one, and the records returned so far.     *)

NewReader == [rest |-> log_file, buffer |-> <<>>, scratch |-> <<>>,
              in_fragmented_record |-> FALSE, out |-> <<>>]

\* The next block; at the end of the file there are fewer bytes, then none.
NextBlock(r) ==
  LET n == IF Len(r.rest) < LogBlockSize THEN Len(r.rest) ELSE LogBlockSize
  IN  [r EXCEPT !.buffer = SubSeq(r.rest, 1, n), !.rest = SubSeq(@, n + 1, Len(@))]

\* The fragment at the beginning of the buffer: its length is good and its
\* checksum right.
Whole(buffer) ==
  LET f == buffer[1].of
  IN  /\ f.rec # 0 /\ HeaderSize + f.length <= Len(buffer)
      /\ SubSeq(buffer, 1, HeaderSize + f.length) = Bytes(f, HeaderSize + f.length)

ReturnRecord(r, fragments) ==
  [r EXCEPT !.out = Append(@, fragments), !.scratch = <<>>, !.in_fragmented_record = FALSE]

\* A fragment out of its place is reported and passed over.
OnFragment(r, f) ==
  CASE f.type = "full"  -> ReturnRecord(r, <<f>>)
    [] f.type = "first" -> [r EXCEPT !.scratch = <<f>>, !.in_fragmented_record = TRUE]
    [] f.type = "middle" /\ r.in_fragmented_record -> [r EXCEPT !.scratch = Append(@, f)]
    [] f.type = "last" /\ r.in_fragmented_record -> ReturnRecord(r, Append(r.scratch, f))
    [] OTHER -> r

\* Mutant: the fragments before a bad one are kept.
OnBadRecordKeepsScratch(r) == [r EXCEPT !.buffer = <<>>]

\* kBadRecord: the rest of the block is dropped, and with it the record begun.
OnBadRecord(r) ==
  [r EXCEPT !.buffer = <<>>, !.scratch = <<>>, !.in_fragmented_record = FALSE]

RECURSIVE ReadRecords(_)
ReadRecords(r) ==
  CASE Len(r.buffer) < HeaderSize ->
         IF r.rest = <<>> THEN r.out ELSE ReadRecords(NextBlock(r))
    [] ~Whole(r.buffer) -> ReadRecords(OnBadRecord(r))
    [] OTHER ->
         LET f == r.buffer[1].of
         IN  ReadRecords(OnFragment([r EXCEPT !.buffer =
                           SubSeq(@, HeaderSize + f.length + 1, Len(@))], f))

-----------------------------------------------------------------------------
\* The reader returns only records that were given to the writer, each whole,
\* in their order and once, although writing went on behind failed appends with
\* a block_offset_ that no longer fits the file, and behind a torn tail
\* (Reader::ReadRecord, ReadPhysicalRecord); and every record added before the
\* first failure, and still in the file, is read, whatever is behind it
\* (Writer::AddRecord).
RecordsReadBack ==
  LET out == ReadRecords(NewReader)
  IN  /\ \A i \in DOMAIN out : \A j \in DOMAIN out[i] :
           LET f == out[i][j]
           IN  /\ f.rec = out[i][1].rec /\ f.index = j
               /\ (j = Len(out[i]) <=> f.type \in {"full", "last"})
      /\ \A i \in 1 .. Len(out) - 1 : out[i][1].rec < out[i + 1][1].rec
      /\ Len(out) >= Len(safe)

=============================================================================
