--------------------------------- MODULE Scan -------------------------------
(***************************************************************************)
(* Iterating while the memtable grows: a thread moves a DBIter over the    *)
(* memtable of module MemTable, an immutable one and the files of a        *)
(* version.  Its sequence number is the last one that was published when   *)
(* it was made (DBImpl::NewIterator in leveldb/db/db_impl.cc).  Readers    *)
(* change nothing that others see, so there is one at a time.              *)
(***************************************************************************)
EXTENDS DBIter, MemTable

CONSTANTS
  Contents      \* bound: what imm_ and the version may hold

NoIter == [sequence |-> -1]

VARIABLES
  content,        \* [imm, files, history]: what the writes come on top of
  iter,           \* the DBIter
  expected        \* ghost: the user key the last move should have led to

vars == <<content, memvars, iter, expected>>

History == content.history \o added
src     == [lists |-> <<list>> \o content.imm, files |-> content.files]

Init ==
  /\ content \in Contents
  /\ last_sequence = Len(content.history)
  /\ MemInit
  /\ iter = NoIter /\ expected = NoKey

-----------------------------------------------------------------------------
(* The iterator.                                                           *)

VisibleKeys(s) ==
  {k \in Keys : LET n == Newest(History, k, s) IN n # 0 /\ History[n].type = "value"}

SmallestIn(S) == IF S = {} THEN NoKey ELSE CHOOSE k \in S : \A l \in S : k <= l
LargestIn(S)  == IF S = {} THEN NoKey ELSE CHOOSE k \in S : \A l \in S : k >= l

NewIterator ==
  /\ get = NoGet /\ iter = NoIter
  /\ iter' = NewDBIterator(src, last_sequence)
  /\ expected' = NoKey
  /\ UNCHANGED <<content, memvars>>

MoveTo(it, key) ==
  /\ iter # NoIter
  /\ iter' = it /\ expected' = key
  /\ UNCHANGED <<content, memvars>>

Seek(k) ==
  MoveTo(IterSeek(src, iter, k), SmallestIn({l \in VisibleKeys(iter.sequence) : l >= k}))
SeekToFirst ==
  MoveTo(IterSeekToFirst(src, iter), SmallestIn(VisibleKeys(iter.sequence)))
SeekToLast ==
  MoveTo(IterSeekToLast(src, iter), LargestIn(VisibleKeys(iter.sequence)))
CallNext ==
  /\ iter # NoIter /\ iter.valid
  /\ LET at == IterKey(src, iter)
     IN MoveTo(IterNext(src, iter), SmallestIn({l \in VisibleKeys(iter.sequence) : l > at}))
CallPrev ==
  /\ iter # NoIter /\ iter.valid
  /\ LET at == IterKey(src, iter)
     IN MoveTo(IterPrev(src, iter), LargestIn({l \in VisibleKeys(iter.sequence) : l < at}))

-----------------------------------------------------------------------------
Next ==
  \/ Write /\ UNCHANGED <<content, iter, expected>>
  \/ iter = NoIter /\ Lookup /\ UNCHANGED <<content, iter, expected>>
  \/ NewIterator
  \/ \E k \in Keys : Seek(k)
  \/ SeekToFirst \/ SeekToLast \/ CallNext \/ CallPrev

Spec == Init /\ [][Next]_vars

-----------------------------------------------------------------------------
(* Properties.                                                             *)

\* Whatever moves came before and whatever was added meanwhile, the iterator
\* is at the key the last move should have led to, with its newest visible
\* value, unless status() reports that a block could not be read (DBIter,
\* MergingIterator, TwoLevelIterator and Block::Iter together).
IteratorFollowsHistory ==
  iter # NoIter /\ IterStatusOK(src, iter) =>
    IF expected = NoKey THEN ~iter.valid
    ELSE /\ iter.valid
         /\ IterKey(src, iter) = expected
         /\ IterValue(src, iter) = Newest(History, expected, iter.sequence)

=============================================================================
