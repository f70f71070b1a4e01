---------------------------- MODULE BlockIterator ---------------------------
(***************************************************************************)
(* Block::Iter, the cursor over one block of a table                       *)
(* (leveldb/table/block.cc).  A block is a sequence of entries in order,   *)
(* of which some are restart points, where a key is stored whole; an       *)
(* offset is the position of an entry, and the restart array lies behind   *)
(* the last.  ok is FALSE for a block that cannot be read: the cursor over *)
(* it is NewErrorIterator's, which is never valid.                         *)
(*                                                                         *)
(* A cursor has current_, restart_index_ and next, the end of value_,      *)
(* where ParseNextKey starts.                                              *)
(***************************************************************************)
EXTENDS Integers, Sequences

Less(a, b) == a.key < b.key \/ (a.key = b.key /\ a.seq > b.seq)

restarts_(b)           == Len(b.entries) + 1
num_restarts_(b)       == Len(b.restarts)
GetRestartPoint(b, i)  == b.restarts[i + 1]

NewIter(b) == [current |-> restarts_(b), next |-> restarts_(b), restart_index |-> num_restarts_(b)]

Valid(b, it)    == it.current < restarts_(b)
CurKey(b, it)   == b.entries[it.current]
StatusOK(b, it) == b.ok

SeekToRestartPoint(b, it, i) == [it EXCEPT !.restart_index = i, !.next = GetRestartPoint(b, i)]

\* ParseNextKey until an entry is among those wanted or the block ends.
ParseUntil(b, it, wanted) ==
  LET at    == wanted \cap it.next .. Len(b.entries)
      q     == CHOOSE p \in at : \A r \in at : p <= r
      index == CHOOSE i \in it.restart_index .. num_restarts_(b) - 1 :
                 /\ i + 1 < num_restarts_(b) => GetRestartPoint(b, i + 1) >= q
                 /\ \A j \in it.restart_index + 1 .. i : GetRestartPoint(b, j) < q
  IN IF at = {} THEN NewIter(b) ELSE [current |-> q, next |-> q + 1, restart_index |-> index]

Next(b, it) == ParseUntil(b, it, DOMAIN b.entries)

Prev(b, it) ==
  LET before == {i \in 0 .. it.restart_index : GetRestartPoint(b, i) < it.current}
      index  == CHOOSE i \in before : \A j \in before : j <= i
  IN IF before = {} THEN NewIter(b)
     ELSE ParseUntil(b, SeekToRestartPoint(b, it, index),
                     {q \in DOMAIN b.entries : q + 1 >= it.current})

\* The last restart point of left .. right with a key below target, or left.
RestartBelow(b, left, right, target) ==
  LET search[l, r \in 0 .. num_restarts_(b) - 1] ==
        IF l >= r THEN l
        ELSE LET mid == (l + r + 1) \div 2
             IN IF Less(b.entries[GetRestartPoint(b, mid)], target)
                THEN search[mid, r] ELSE search[l, mid - 1]
  IN search[left, right]

\* Mutant: the current position is kept whenever its restart block is the one.
SeekFromHere(b, it, target) ==
  LET left == RestartBelow(b, 0, num_restarts_(b) - 1, target)
  IN IF ~b.ok THEN it
     ELSE ParseUntil(b, IF left = it.restart_index THEN it ELSE SeekToRestartPoint(b, it, left),
                     {q \in DOMAIN b.entries : ~Less(b.entries[q], target)})

\* A cursor that is already scanning starts from where it is.
Seek(b, it, target) ==
  LET here  == Valid(b, it)
      below == here /\ Less(CurKey(b, it), target)
      above == here /\ Less(target, CurKey(b, it))
      left  == RestartBelow(b, IF below THEN it.restart_index ELSE 0,
                               IF above THEN it.restart_index ELSE num_restarts_(b) - 1, target)
  IN IF ~b.ok \/ (here /\ ~below /\ ~above) THEN it
     ELSE ParseUntil(b, IF below /\ left = it.restart_index THEN it
                        ELSE SeekToRestartPoint(b, it, left),
                     {q \in DOMAIN b.entries : ~Less(b.entries[q], target)})

SeekToFirst(b, it) ==
  IF ~b.ok THEN it ELSE ParseUntil(b, SeekToRestartPoint(b, it, 0), DOMAIN b.entries)

SeekToLast(b, it) ==
  IF ~b.ok THEN it
  ELSE ParseUntil(b, SeekToRestartPoint(b, it, num_restarts_(b) - 1),
                  {q \in DOMAIN b.entries : q + 1 >= restarts_(b)})

=============================================================================
