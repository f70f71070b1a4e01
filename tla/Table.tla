------------------------------- MODULE Table -------------------------------
(***************************************************************************)
(* A table file: TableBuilder writes it (leveldb/table/table_builder.cc),  *)
(* Table reads it (leveldb/table/table.cc).  Entries arrive in order and   *)
(* are cut into data blocks; an index entry per block separates it from    *)
(* the next; the filter block tells which blocks need not be read.         *)
(*                                                                         *)
(* An entry is its internal key.  Sizes are in small units; the stored     *)
(* size of a block is whatever compression makes of it.                    *)
(***************************************************************************)
EXTENDS FilterBlock, FiniteSets

CONSTANTS
  UserKeys,       \* a range of naturals
  MaxSequence,    \* kMaxSequenceNumber; entries have smaller numbers
  EntrySizes,     \* bytes an entry adds to its block
  BlockSize,      \* options.block_size
  TrailerSize,    \* kBlockTrailerSize
  MaxEntries      \* bound: calls of Add

ASSUME TableConstantsAssumption ==
  /\ UserKeys \subseteq Nat
  /\ {MaxSequence, BlockSize, TrailerSize, MaxEntries} \subseteq Nat \ {0}
  /\ EntrySizes \subseteq Nat \ {0}

Key   == [user : UserKeys, seq : 1 .. MaxSequence]
Entry == [user : UserKeys, seq : 1 .. MaxSequence - 1]

VARIABLES
  rep,      \* TableBuilder::Rep
  blocks,   \* the data blocks appended to the file, by their offset
  closed,   \* Finish or Abandon has been called
  table,    \* the rest of the file once Finish returned OK
  added     \* ghost: the entries Add was called with, in order

vars == <<rep, blocks, closed, table, added>>

NoTable == [written |-> FALSE]

-----------------------------------------------------------------------------
(* The order of internal keys, and the keys that go into the index.        *)

\* User keys in order, and the versions of one from the newest down.
Before(a, b) == a.user < b.user \/ (a.user = b.user /\ a.seq > b.seq)

\* Mutant: any larger key will do, as after the last block.
FindAnySuccessor(start, limit) ==
  {start} \cup [user : {u \in UserKeys : start.user < u}, seq : {MaxSequence}]

\* Which of these it is depends on the bytes of the keys.
FindShortestSeparator(start, limit) ==
  {start} \cup [user : {u \in UserKeys : start.user < u /\ u < limit.user},
                seq  : {MaxSequence}]

FindShortSuccessor(key) ==
  {key} \cup [user : {u \in UserKeys : key.user < u}, seq : {MaxSequence}]

-----------------------------------------------------------------------------
(* TableBuilder.  A call has a set of outcomes: the separator it chooses,  *)
(* the size a block compresses to, and the file operation that fails.      *)

EmptyRep ==
  [status |-> "ok", offset |-> 0, data_block |-> <<>>, size |-> 0,
   index_block |-> <<>>, last_key |-> <<>>, pending_index_entry |-> FALSE,
   pending_handle |-> 0, filter_block |-> StartBlock(EmptyBuilder, 0)]

Init ==
  /\ rep = EmptyRep
  /\ blocks = <<>>
  /\ closed = FALSE
  /\ table = NoTable
  /\ added = <<>>

\* A block is stored compressed if that saves an eighth of it.
StoredSizes(n) == {n} \cup {c \in 1 .. n : c < n - n \div 8}

AddIndexEntry(r, key) ==
  [r EXCEPT !.index_block = Append(@, [key |-> key, handle |-> r.pending_handle]),
            !.pending_index_entry = FALSE]

\* WriteBlock of the data block, of which n bytes are stored.
WrittenBlock(r, n) ==
  [r EXCEPT !.pending_handle = r.offset, !.offset = @ + n + TrailerSize,
            !.data_block = <<>>, !.size = 0]

FailedBlock(r) ==
  [r EXCEPT !.pending_handle = r.offset, !.status = "error",
            !.data_block = <<>>, !.size = 0]

\* Mutant: the filter block is told where the block began, not where it ended.
FlushedOldOffset(r, status) ==
  [r EXCEPT !.status = status, !.pending_index_entry = TRUE,
            !.filter_block = StartBlock(@, r.pending_handle)]

\* The end of Flush when the block was written: status is that of file->Flush.
Flushed(r, status) ==
  [r EXCEPT !.status = status, !.pending_index_entry = TRUE,
            !.filter_block = StartBlock(@, r.offset)]

NeedsFlush(r) == r.status = "ok" /\ r.data_block # <<>>

FlushOutcomes(r) ==
  IF ~NeedsFlush(r) THEN {r}
  ELSE {[FailedBlock(r) EXCEPT !.filter_block = StartBlock(@, r.offset)]}
       \cup {Flushed(WrittenBlock(r, n), status) :
               n \in StoredSizes(r.size), status \in {"ok", "error"}}

\* The data blocks in the file after a flush of r that led to r1.
BlocksAfterFlush(r, r1) ==
  IF NeedsFlush(r) /\ r1.pending_index_entry
  THEN [o \in DOMAIN blocks \cup {r.offset} |->
          IF o = r.offset THEN r.data_block ELSE blocks[o]]
  ELSE blocks

\* Add up to the flush: the index entry due, the filter, the data block.
Appended(r, key, size) ==
  [r EXCEPT !.filter_block = AddKey(@, key), !.last_key = <<key>>,
            !.data_block = Append(@, key), !.size = @ + size]

IndexOutcomes(r, key) ==
  IF ~r.pending_index_entry THEN {r}
  ELSE {AddIndexEntry(r, sep) : sep \in FindShortestSeparator(r.last_key[1], key)}

\* Entries come from a sorted iterator.
Add(key, size) ==
  /\ ~closed /\ Len(added) < MaxEntries
  /\ added # <<>> => Before(Last(added), key)
  /\ added' = Append(added, key)
  /\ IF rep.status # "ok"
     THEN UNCHANGED <<rep, blocks>>
     ELSE \E r0 \in IndexOutcomes(rep, key) :
            LET r == Appended(r0, key, size)
            IN  IF r.size >= BlockSize
                THEN \E r1 \in FlushOutcomes(r) :
                       rep' = r1 /\ blocks' = BlocksAfterFlush(r, r1)
                ELSE rep' = r /\ UNCHANGED blocks
  /\ UNCHANGED <<closed, table>>

FinalIndex(r) ==
  IF ~r.pending_index_entry THEN {r}
  ELSE {AddIndexEntry(r, key) : key \in FindShortSuccessor(r.last_key[1])}

\* Flush; then filter block, metaindex block, index block and footer, any of
\* which may fail to be written.
TableBuilderFinish ==
  /\ ~closed
  /\ closed' = TRUE
  /\ \E r \in FlushOutcomes(rep) :
       /\ blocks' = BlocksAfterFlush(rep, r)
       /\ \/ /\ r.status = "ok"
             /\ \E r1 \in FinalIndex(r) :
                  /\ rep' = r1
                  /\ table' = [written |-> TRUE, index |-> r1.index_block,
                               filter |-> Finish(r.filter_block)]
          \/ /\ rep' = [r EXCEPT !.status = "error"]
             /\ UNCHANGED table
  /\ UNCHANGED added

Abandon ==
  /\ ~closed
  /\ closed' = TRUE
  /\ UNCHANGED <<rep, blocks, table, added>>

Next ==
  \/ \E key \in Entry, size \in EntrySizes : Add(key, size)
  \/ TableBuilderFinish
  \/ Abandon

Spec == Init /\ [][Next]_vars

-----------------------------------------------------------------------------
(* Table. *)

FirstOf(s) == IF s = <<>> THEN <<>> ELSE <<Head(s)>>

\* The entry of a block an iterator stands on after Seek(key), or none, as a
\* sequence.
Seek(entries, key) == FirstOf(SelectSeq(entries, LAMBDA e : ~Before(e, key)))

\* use_filter: Open could read the filter block.
InternalGet(key, use_filter) ==
  LET iiter == SelectSeq(table.index, LAMBDA e : ~Before(e.key, key))
  IN  IF iiter = <<>> THEN <<>>
      ELSE LET handle == Head(iiter).handle
           IN  IF use_filter /\ ~KeyMayMatch(table.filter, handle, key)
               THEN <<>>
               ELSE Seek(blocks[handle], key)

\* SaveValue: an entry of another user key is no answer.
Get(key, use_filter) ==
  SelectSeq(InternalGet(key, use_filter), LAMBDA e : e.user = key.user)

-----------------------------------------------------------------------------
\* A table whose Finish returned OK answers every lookup at every sequence
\* number with the newest version not after it, although the versions of a
\* key may be split between blocks, several blocks may share a filter, a
\* filter may be empty and an index key may be no key of the table; and it
\* does so whether or not the filter block could be read (TableBuilder::Add,
\* Flush and Finish against Table::InternalGet).
LookupsMatchEntries ==
  table.written =>
    \A key \in Key : \A use_filter \in BOOLEAN :
      Get(key, use_filter) =
        FirstOf(SelectSeq(added, LAMBDA e : e.user = key.user /\ e.seq <= key.seq))

=============================================================================
