-------------------------------- MODULE DBIter ------------------------------
(***************************************************************************)
(* DBIter (leveldb/db/db_iter.cc): one cursor over user keys, made of the  *)
(* merge of everything a database holds, as of a sequence number.          *)
(*                                                                         *)
(* A cursor has iter_ and sequence_, direction_, valid_, saved_key_        *)
(* (NoKey: cleared) and saved_value_; a value is the sequence number that  *)
(* stored it.  The key in saved_key_ after a forward move is scratch space *)
(* and is left out.  Read sampling is an action of Compactions.            *)
(***************************************************************************)
EXTENDS InternalIterators

NewDBIterator(src, sequence) ==
  [iter |-> NewMerging(src), sequence |-> sequence, direction |-> "forward", valid |-> FALSE,
   saved_key |-> NoKey, saved_value |-> 0]

IterKey(src, it)      == IF it.direction = "forward" THEN MergeKey(src, it.iter).key ELSE it.saved_key
IterValue(src, it)    == IF it.direction = "forward" THEN MergeKey(src, it.iter).seq ELSE it.saved_value
IterStatusOK(src, it) == MergeOK(src, it.iter)

Invalid(it) == [it EXCEPT !.valid = FALSE, !.saved_key = NoKey]

\* Mutant: entries newer than the sequence number are not passed over.
FindAnyNextUserEntry(src, it, skipping, skip) ==
  IF MergeValid(it.iter) THEN [it EXCEPT !.valid = TRUE, !.saved_key = NoKey] ELSE Invalid(it)

\* Forward to the first entry that is visible, no deletion and not hidden.
RECURSIVE FindNextUserEntry(_, _, _, _)
FindNextUserEntry(src, it, skipping, skip) ==
  LET e       == MergeKey(src, it.iter)
      visible == e.seq <= it.sequence
      deletes == visible /\ e.type = "deletion"
  IN IF ~MergeValid(it.iter) THEN Invalid(it)
     ELSE IF visible /\ ~deletes /\ ~(skipping /\ e.key <= skip)
          THEN [it EXCEPT !.valid = TRUE, !.saved_key = NoKey]
     ELSE FindNextUserEntry(src, [it EXCEPT !.iter = MergeNext(src, @)],
                            skipping \/ deletes, IF deletes THEN e.key ELSE skip)

\* Backward past the entries of one user key; value_type is that of the last
\* visible one.
RECURSIVE PastUserKey(_, _, _)
PastUserKey(src, it, value_type) ==
  LET e     == MergeKey(src, it.iter)
      Saving == IF e.seq > it.sequence THEN it
                ELSE IF e.type = "deletion" THEN [it EXCEPT !.saved_key = NoKey, !.saved_value = 0]
                ELSE [it EXCEPT !.saved_key = e.key, !.saved_value = e.seq]
  IN IF \/ ~MergeValid(it.iter)
        \/ e.seq <= it.sequence /\ value_type # "deletion" /\ e.key < it.saved_key
     THEN <<it, value_type>>
     ELSE PastUserKey(src, [Saving EXCEPT !.iter = MergePrev(src, @)],
                      IF e.seq > it.sequence THEN value_type ELSE e.type)

FindPrevUserEntry(src, it) ==
  LET end == PastUserKey(src, it, "deletion")
  IN IF end[2] = "deletion"
     THEN [Invalid(end[1]) EXCEPT !.saved_value = 0, !.direction = "forward"]
     ELSE [end[1] EXCEPT !.valid = TRUE]

\* Next is called when the cursor is valid; so is Prev.
IterNext(src, it) ==
  LET skip == IterKey(src, it)
      iter == IF it.direction = "forward" THEN MergeNext(src, it.iter)
              ELSE IF ~MergeValid(it.iter) THEN MergeSeekToFirst(src, it.iter)
              ELSE MergeNext(src, it.iter)
      at   == [it EXCEPT !.iter = iter, !.direction = "forward"]
  IN IF ~MergeValid(iter) THEN Invalid(at) ELSE FindNextUserEntry(src, at, TRUE, skip)

\* Back to the first entry of another user key, which may be none.
RECURSIVE BeforeKey(_, _, _)
BeforeKey(src, iter, key) ==
  LET at == MergePrev(src, iter)
  IN IF ~MergeValid(at) \/ MergeKey(src, at).key < key THEN at ELSE BeforeKey(src, at, key)

IterPrev(src, it) ==
  LET key == IterKey(src, it)
      at  == [it EXCEPT !.iter = BeforeKey(src, @, key), !.saved_key = key]
  IN IF it.direction = "reverse" THEN FindPrevUserEntry(src, it)
     ELSE IF ~MergeValid(at.iter) THEN [Invalid(at) EXCEPT !.saved_value = 0]
     ELSE FindPrevUserEntry(src, [at EXCEPT !.direction = "reverse"])

FirstFrom(src, it, iter) ==
  LET at == [it EXCEPT !.iter = iter, !.direction = "forward", !.saved_key = NoKey, !.saved_value = 0]
  IN IF MergeValid(iter) THEN FindNextUserEntry(src, at, FALSE, NoKey) ELSE [at EXCEPT !.valid = FALSE]

IterSeek(src, it, target) ==
  FirstFrom(src, it, MergeSeek(src, it.iter, [key |-> target, seq |-> it.sequence]))

IterSeekToFirst(src, it) == FirstFrom(src, it, MergeSeekToFirst(src, it.iter))

IterSeekToLast(src, it) ==
  FindPrevUserEntry(src, [it EXCEPT !.iter = MergeSeekToLast(src, @), !.direction = "reverse",
                                    !.saved_value = 0])

=============================================================================
