------------------------------ MODULE SkipList ------------------------------
(***************************************************************************)
(* The list of a memtable (leveldb/db/skiplist.h).  A list is its nodes    *)
(* with their pointers per level, from 0, and the values max_height_ has   *)
(* had: a reader may still see an old one.  A node is its key, an entry.   *)
(***************************************************************************)
EXTENDS Integers, Sequences, FiniteSets

Node(t) == [key |-> 0, seq |-> 0, type |-> t]
head_   == Node("head")
Null    == Node("nullptr")
Uninitialized == Node("uninitialized")

\* A list of head_ alone.
NewList(kMaxHeight) ==
  [next |-> [n \in {head_} |-> [l \in 0 .. kMaxHeight - 1 |-> Null]], heights |-> {1}]

GetMaxHeight(list) == CHOOSE h \in list.heights : \A g \in list.heights : g <= h

KeyBefore(a, b) == a.key < b.key \/ (a.key = b.key /\ a.seq > b.seq)

\* key is after node n; nullptr is after every key.
KeyIsAfterNode(key, n) == n # Null /\ KeyBefore(n, key)

\* The node on each level from which a search goes down: the loop of
\* FindGreaterOrEqual, FindLessThan and FindLast.
Descent(list, Before(_)) ==
  LET walk[n \in DOMAIN list.next, l \in 0 .. GetMaxHeight(list)] ==
        LET next == list.next[n][l]
        IN IF next # Null /\ Before(next) THEN walk[next, l] ELSE n
      prev[l \in 0 .. GetMaxHeight(list)] ==
        IF l = GetMaxHeight(list) THEN head_ ELSE walk[prev[l + 1], l]
  IN prev

FindPrev(list, key)           == Descent(list, LAMBDA n : KeyBefore(n, key))
FindGreaterOrEqual(list, key) == list.next[FindPrev(list, key)[0]][0]
FindLessThan(list, key)       == FindPrev(list, key)[0]
FindLast(list)                == Descent(list, LAMBDA n : TRUE)[0]

-----------------------------------------------------------------------------
(* SkipList::Iterator.  A cursor is its node.                              *)

HeadToNull(n)             == IF n = head_ THEN Null ELSE n
ListNext(list, n)         == list.next[n][0]
ListPrev(list, n)         == HeadToNull(FindLessThan(list, n))
ListSeek(list, target)    == FindGreaterOrEqual(list, target)
ListSeekToFirst(list)     == list.next[head_][0]
ListSeekToLast(list)      == HeadToNull(FindLast(list))

-----------------------------------------------------------------------------
(* Insert, in the steps a reader can tell apart, after its search.         *)

\* prev of a node of this height: above the levels the search has been
\* through, the node follows the head.
PrevForHeight(list, prev, height) ==
  [l \in 0 .. height - 1 |-> IF l < GetMaxHeight(list) THEN prev[l] ELSE head_]

RaiseHeight(list, height) ==
  IF height > GetMaxHeight(list) THEN [list EXCEPT !.heights = @ \cup {height}] ELSE list

\* The pointers of a new node are uninitialized memory.
NewNode(list, ins) ==
  IF ins.key \in DOMAIN list.next THEN list.next[ins.key]
  ELSE [l \in 0 .. ins.height - 1 |-> Uninitialized]

\* Mutant: a node is published with null pointers of its own.
LinkWithoutNext(list, ins) ==
  [list EXCEPT !.next = [n \in DOMAIN list.next \cup {ins.key} |->
    CASE n = ins.key             -> [l \in 0 .. ins.height - 1 |-> Null]
      [] n = ins.prev[ins.level] -> [list.next[n] EXCEPT ![ins.level] = ins.key]
      [] OTHER                   -> list.next[n]]]

\* The new node on its next level: first its own pointer, then the one to it.
Link(list, ins) ==
  LET prev == ins.prev[ins.level]
  IN [list EXCEPT !.next = [n \in DOMAIN list.next \cup {ins.key} |->
       CASE n = ins.key -> [NewNode(list, ins) EXCEPT ![ins.level] = list.next[prev][ins.level]]
         [] n = prev    -> [list.next[prev] EXCEPT ![ins.level] = ins.key]
         [] OTHER       -> list.next[n]]]

=============================================================================
