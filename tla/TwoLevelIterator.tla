-------------------------- MODULE TwoLevelIterator --------------------------
(***************************************************************************)
(* The cursors of leveldb/include/leveldb/iterator.h below the merge.  A   *)
(* source is what a cursor ranges over; its kind says which Iterator it    *)
(* is:                                                                     *)
(*   "list"   a memtable (SkipList), the cursor is a node;                 *)
(*   "block"  a block (BlockIterator);                                     *)
(*   "files"  the files of a level (Version::LevelFileNumIterator in       *)
(*            leveldb/db/version_set.cc), the cursor is a position from 0; *)
(*   "two"    an index over data (leveldb/table/two_level_iterator.cc):    *)
(*            a table is an index block over blocks, a level is a list of  *)
(*            files over tables.  The cursor has index_iter_, data_iter_   *)
(*            (<<>>: nullptr), data_block_handle_ and status_.ok().        *)
(***************************************************************************)
EXTENDS VersionSet, SkipList

Blk == INSTANCE BlockIterator

TwoLevel(index, data) == [kind |-> "two", index |-> index, data |-> data]

\* Version::NewConcatenatingIterator.
LevelSource(files) ==
  TwoLevel([kind |-> "files", files |-> files], [i \in DOMAIN files |-> files[i].table])

RECURSIVE CursorNew(_), CursorValid(_, _), CursorKey(_, _), CursorOK(_, _)

CursorNew(src) ==
  CASE src.kind = "list"  -> Null
    [] src.kind = "block" -> Blk!NewIter(src)
    [] src.kind = "files" -> Len(src.files)
    [] src.kind = "two"   -> [index |-> CursorNew(src.index), data |-> <<>>, handle |-> 0, ok |-> TRUE]

CursorValid(src, it) ==
  CASE src.kind = "list"  -> it # Null
    [] src.kind = "block" -> Blk!Valid(src, it)
    [] src.kind = "files" -> it < Len(src.files)
    [] src.kind = "two"   -> it.data # <<>> /\ CursorValid(src.data[it.handle], it.data[1])

\* The entry the cursor is at.
CursorKey(src, it) ==
  CASE src.kind = "list"  -> it
    [] src.kind = "block" -> Blk!CurKey(src, it)
    [] src.kind = "two"   -> CursorKey(src.data[it.handle], it.data[1])

\* The data an index cursor refers to: the block, or the file, of its position.
Handle(index, it) == IF index.kind = "block" THEN it.current ELSE it + 1

\* SaveError keeps the first error of the data cursors.
NoError(src, it) == it.ok /\ (it.data = <<>> \/ CursorOK(src.data[it.handle], it.data[1]))

CursorOK(src, it) ==
  CASE src.kind = "block" -> Blk!StatusOK(src, it)
    [] src.kind = "two"   -> CursorOK(src.index, it.index) /\ NoError(src, it)
    [] OTHER                -> TRUE

-----------------------------------------------------------------------------
(* TwoLevelIterator, over the operations of the cursors it is made of.     *)

RECURSIVE CursorSeek(_, _, _), CursorSeekToFirst(_, _), CursorSeekToLast(_, _),
          CursorNext(_, _), CursorPrev(_, _)

\* Mutant: the error of a cursor that is replaced is forgotten.
ForgetDataIterator(src, it, data) == [it EXCEPT !.data = data]

SetDataIterator(src, it, data) == [it EXCEPT !.data = data, !.ok = NoError(src, it)]

InitDataBlock(src, it) ==
  LET handle == Handle(src.index, it.index)
  IN IF ~CursorValid(src.index, it.index) THEN SetDataIterator(src, it, <<>>)
     ELSE IF it.data # <<>> /\ it.handle = handle THEN it
     ELSE [SetDataIterator(src, it, <<CursorNew(src.data[handle])>>) EXCEPT !.handle = handle]

\* Index to a new place, and the data cursor of that place to a position in it.
Moved(src, it, index, Position(_, _)) ==
  LET at == InitDataBlock(src, [it EXCEPT !.index = index])
  IN IF at.data = <<>> THEN at ELSE [at EXCEPT !.data = <<Position(src.data[at.handle], @[1])>>]

RECURSIVE SkipEmptyDataBlocksForward(_, _), SkipEmptyDataBlocksBackward(_, _)

SkipEmptyDataBlocksForward(src, it) ==
  IF CursorValid(src, it) THEN it
  ELSE IF ~CursorValid(src.index, it.index) THEN SetDataIterator(src, it, <<>>)
  ELSE SkipEmptyDataBlocksForward(src, Moved(src, it, CursorNext(src.index, it.index), CursorSeekToFirst))

SkipEmptyDataBlocksBackward(src, it) ==
  IF CursorValid(src, it) THEN it
  ELSE IF ~CursorValid(src.index, it.index) THEN SetDataIterator(src, it, <<>>)
  ELSE SkipEmptyDataBlocksBackward(src, Moved(src, it, CursorPrev(src.index, it.index), CursorSeekToLast))

TwoLevelSeek(src, it, target) ==
  SkipEmptyDataBlocksForward(src,
    Moved(src, it, CursorSeek(src.index, it.index, target), LAMBDA s, d : CursorSeek(s, d, target)))

TwoLevelSeekToFirst(src, it) ==
  SkipEmptyDataBlocksForward(src,
    Moved(src, it, CursorSeekToFirst(src.index, it.index), CursorSeekToFirst))

TwoLevelSeekToLast(src, it) ==
  SkipEmptyDataBlocksBackward(src,
    Moved(src, it, CursorSeekToLast(src.index, it.index), CursorSeekToLast))

TwoLevelNext(src, it) ==
  SkipEmptyDataBlocksForward(src, [it EXCEPT !.data = <<CursorNext(src.data[it.handle], @[1])>>])

TwoLevelPrev(src, it) ==
  SkipEmptyDataBlocksBackward(src, [it EXCEPT !.data = <<CursorPrev(src.data[it.handle], @[1])>>])

-----------------------------------------------------------------------------
(* The virtual functions of Iterator.                                      *)

CursorSeek(src, it, target) ==
  CASE src.kind = "list"  -> ListSeek(src.list, target)
    [] src.kind = "block" -> Blk!Seek(src, it, target)
    [] src.kind = "files" -> FindFile(src.files, target)
    [] src.kind = "two"   -> TwoLevelSeek(src, it, target)

CursorSeekToFirst(src, it) ==
  CASE src.kind = "list"  -> ListSeekToFirst(src.list)
    [] src.kind = "block" -> Blk!SeekToFirst(src, it)
    [] src.kind = "files" -> 0
    [] src.kind = "two"   -> TwoLevelSeekToFirst(src, it)

CursorSeekToLast(src, it) ==
  CASE src.kind = "list"  -> ListSeekToLast(src.list)
    [] src.kind = "block" -> Blk!SeekToLast(src, it)
    [] src.kind = "files" -> IF src.files = <<>> THEN 0 ELSE Len(src.files) - 1
    [] src.kind = "two"   -> TwoLevelSeekToLast(src, it)

CursorNext(src, it) ==
  CASE src.kind = "list"  -> ListNext(src.list, it)
    [] src.kind = "block" -> Blk!Next(src, it)
    [] src.kind = "files" -> it + 1
    [] src.kind = "two"   -> TwoLevelNext(src, it)

CursorPrev(src, it) ==
  CASE src.kind = "list"  -> ListPrev(src.list, it)
    [] src.kind = "block" -> Blk!Prev(src, it)
    [] src.kind = "files" -> IF it = 0 THEN Len(src.files) ELSE it - 1
    [] src.kind = "two"   -> TwoLevelPrev(src, it)

=============================================================================
