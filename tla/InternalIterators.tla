-------------------------- MODULE InternalIterators -------------------------
(***************************************************************************)
(* The merge of everything a database holds (leveldb/table/merger.cc, and  *)
(* its children: DBImpl::NewInternalIterator in leveldb/db/db_impl.cc,     *)
(* Version::AddIterators in leveldb/db/version_set.cc).                    *)
(*                                                                         *)
(* src has the lists of mem_ and imm_, and the files of a version, each    *)
(* with the table it holds.                                                *)
(***************************************************************************)
EXTENDS TwoLevelIterator

\* What the children of the merge range over.
Children(src) ==
  LET levels == SelectSeq([l \in 1 .. NumLevels - 1 |-> src.files[l]], LAMBDA files : files # <<>>)
  IN [i \in DOMAIN src.lists |-> [kind |-> "list", list |-> src.lists[i]]]
       \o [i \in DOMAIN src.files[0] |-> src.files[0][i].table]
       \o [i \in DOMAIN levels |-> LevelSource(levels[i])]

-----------------------------------------------------------------------------
(* MergingIterator.  current is the position of a child, 0 for nullptr.    *)

NewMerging(src) ==
  LET cs == Children(src)
  IN [children |-> [i \in DOMAIN cs |-> CursorNew(cs[i])], current |-> 0, direction |-> "forward"]

MergeValid(it)    == it.current # 0
MergeKey(src, it) == CursorKey(Children(src)[it.current], it.children[it.current])
MergeOK(src, it)  == \A i \in DOMAIN it.children : CursorOK(Children(src)[i], it.children[i])

\* The keys of the children that are valid.
ChildKeys(src, it) ==
  LET cs    == Children(src)
      valid == {i \in DOMAIN cs : CursorValid(cs[i], it.children[i])}
  IN [i \in valid |-> CursorKey(cs[i], it.children[i])]

\* FindSmallest takes the first of equal children, FindLargest the last.
Smallest(keys) ==
  IF DOMAIN keys = {} THEN 0
  ELSE CHOOSE i \in DOMAIN keys : \A j \in DOMAIN keys :
         ~Less(keys[j], keys[i]) /\ (j < i => Less(keys[i], keys[j]))

Largest(keys) ==
  IF DOMAIN keys = {} THEN 0
  ELSE CHOOSE i \in DOMAIN keys : \A j \in DOMAIN keys :
         ~Less(keys[i], keys[j]) /\ (j > i => Less(keys[j], keys[i]))

FindSmallest(src, it) ==
  [it EXCEPT !.current = Smallest(ChildKeys(src, it)), !.direction = "forward"]
FindLargest(src, it) ==
  [it EXCEPT !.current = Largest(ChildKeys(src, it)), !.direction = "reverse"]

AllChildren(src, it, Op(_, _)) ==
  LET cs == Children(src) IN [it EXCEPT !.children = [i \in DOMAIN cs |-> Op(cs[i], @[i])]]

OtherChildren(src, it, Op(_, _)) ==
  [AllChildren(src, it, Op) EXCEPT !.children[it.current] = it.children[it.current]]

MergeSeek(src, it, target) ==
  FindSmallest(src, AllChildren(src, it, LAMBDA c, s : CursorSeek(c, s, target)))
MergeSeekToFirst(src, it) == FindSmallest(src, AllChildren(src, it, CursorSeekToFirst))
MergeSeekToLast(src, it)  == FindLargest(src, AllChildren(src, it, CursorSeekToLast))

\* A child that a Seek to key led to at, one past key or one before it.
NextAfter(c, at, key) ==
  IF CursorValid(c, at) /\ ~Less(key, CursorKey(c, at)) THEN CursorNext(c, at) ELSE at
LastBefore(c, at) == IF CursorValid(c, at) THEN CursorPrev(c, at) ELSE CursorSeekToLast(c, at)

\* All other children behind, or before, key(), when the direction changes.
Behind(src, it, key) ==
  IF it.direction = "forward" THEN it
  ELSE OtherChildren(src, it, LAMBDA c, s : NextAfter(c, CursorSeek(c, s, key), key))

\* Mutant: the other children stay where they are.
NotBefore(src, it, key) == it

Before(src, it, key) ==
  IF it.direction = "reverse" THEN it
  ELSE OtherChildren(src, it, LAMBDA c, s : LastBefore(c, CursorSeek(c, s, key)))

MergeNext(src, it) ==
  FindSmallest(src, [Behind(src, it, MergeKey(src, it)) EXCEPT
                       !.children[it.current] = CursorNext(Children(src)[it.current], @)])

MergePrev(src, it) ==
  FindLargest(src, [Before(src, it, MergeKey(src, it)) EXCEPT
                      !.children[it.current] = CursorPrev(Children(src)[it.current], @)])

=============================================================================
