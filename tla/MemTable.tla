------------------------------ MODULE MemTable ------------------------------
(***************************************************************************)
(* A memtable that is read while it grows.  One thread, at the head of the *)
(* queue of writers, adds the entries of a batch to the skip list          *)
(* (MemTable::Add, leveldb/db/memtable.cc), link by link and without a     *)
(* lock against readers, and publishes their sequence numbers when all of  *)
(* them are in it (DBImpl::Write, leveldb/db/db_impl.cc).  Another looks   *)
(* up a key (MemTable::Get), pointer by pointer, with the last sequence    *)
(* number that was published when it started (DBImpl::Get).  Lookups       *)
(* change nothing that others see, so there is one at a time.  A write     *)
(* that fails before it reaches the memtable is left to module DBImpl.     *)
(***************************************************************************)
EXTENDS SkipList

CONSTANTS
  kMaxHeight,   \* of the skip list
  UserKeys,     \* the user keys
  Added         \* bound: the <<key, type>> each entry may have, in turn

ASSUME MemTableAssumption ==
  /\ kMaxHeight \in Nat \ {0}
  /\ UserKeys \subseteq Nat

NoInsert == [step |-> "none"]
NoGet    == [level |-> -1]

VARIABLES
  list,           \* table_ of mem_
  adding,         \* the Insert in progress
  added,          \* ghost: the entries of mem_, in the order of Add
  last_sequence,  \* VersionSet::last_sequence_
  get             \* MemTable::Get in progress, or its result

memvars == <<list, adding, added, last_sequence, get>>

MemInit ==
  /\ list = NewList(kMaxHeight)
  /\ adding = NoInsert
  /\ added = <<>>
  /\ last_sequence \in Nat
  /\ get = NoGet

-----------------------------------------------------------------------------
(* The writer.                                                             *)

\* The sequence number of the last entry added.
Sequence == IF added = <<>> THEN last_sequence ELSE added[Len(added)].seq

\* Insert starts as a search from the head, at the maximum height.
StartAdd(k, t) ==
  LET e == [key |-> k, seq |-> Sequence + 1, type |-> t]
  IN /\ adding = NoInsert
     /\ Len(added) < Len(Added) /\ <<k, t>> \in Added[Len(added) + 1]
     /\ adding' = [step |-> "search", key |-> e, x |-> head_, level |-> GetMaxHeight(list) - 1,
                   prev |-> [l \in 0 .. kMaxHeight - 1 |-> Uninitialized]]
     /\ added' = Append(added, e)
     /\ UNCHANGED <<list, last_sequence, get>>

\* Mutant: the search forgets the nodes it went down from.
InsertSearchWithoutPrev ==
  LET next == list.next[adding.x][adding.level]
  IN /\ adding.step = "search" /\ adding.level >= 0
     /\ adding' = IF KeyIsAfterNode(adding.key, next) THEN [adding EXCEPT !.x = next]
                  ELSE [adding EXCEPT !.level = @ - 1, !.prev[adding.level] = head_]
     /\ UNCHANGED <<list, added, last_sequence, get>>

\* FindGreaterOrEqual for Insert, one pointer at a time.
InsertSearch ==
  LET next == list.next[adding.x][adding.level]
  IN /\ adding.step = "search" /\ adding.level >= 0
     /\ adding' = IF KeyIsAfterNode(adding.key, next) THEN [adding EXCEPT !.x = next]
                  ELSE [adding EXCEPT !.level = @ - 1, !.prev[adding.level] = adding.x]
     /\ UNCHANGED <<list, added, last_sequence, get>>

\* RandomHeight, and the maximum height raised to it.
InsertHeight(height) ==
  /\ adding.step = "search" /\ adding.level < 0
  /\ adding' = [step |-> "link", key |-> adding.key, height |-> height, level |-> 0,
                prev |-> PrevForHeight(list, adding.prev, height)]
  /\ list' = RaiseHeight(list, height)
  /\ UNCHANGED <<added, last_sequence, get>>

LinkLevel ==
  /\ adding.step = "link"
  /\ list' = Link(list, adding)
  /\ adding' = IF adding.level + 1 = adding.height THEN NoInsert
               ELSE [adding EXCEPT !.level = @ + 1]
  /\ UNCHANGED <<added, last_sequence, get>>

\* The batch is in the memtable: SetLastSequence.
Publish ==
  /\ adding = NoInsert /\ last_sequence < Sequence
  /\ last_sequence' = Sequence
  /\ UNCHANGED <<list, adding, added, get>>

Write ==
  \/ \E k \in UserKeys, t \in {"value", "deletion"} : StartAdd(k, t)
  \/ InsertSearch
  \/ \E h \in 1 .. kMaxHeight : InsertHeight(h)
  \/ LinkLevel
  \/ Publish

-----------------------------------------------------------------------------
(* MemTable::Get.                                                          *)

\* A reader may see any value max_height_ has had.
StartGet(k, height) ==
  /\ get = NoGet
  /\ get' = [key |-> k, seq |-> last_sequence, x |-> head_, level |-> height - 1, result |-> Null]
  /\ UNCHANGED <<list, adding, added, last_sequence>>

\* FindGreaterOrEqual, one pointer at a time.
GetSearch ==
  LET next == list.next[get.x][get.level]
  IN /\ get # NoGet /\ get.level >= 0
     /\ get' = IF KeyIsAfterNode(get, next) THEN [get EXCEPT !.x = next]
               ELSE [get EXCEPT !.level = @ - 1, !.result = IF get.level = 0 THEN next ELSE Null]
     /\ UNCHANGED <<list, adding, added, last_sequence>>

EndGet ==
  /\ get # NoGet /\ get.level < 0
  /\ get' = NoGet
  /\ UNCHANGED <<list, adding, added, last_sequence>>

Lookup ==
  \/ \E k \in UserKeys : \E h \in list.heights : StartGet(k, h)
  \/ GetSearch
  \/ EndGet

MemNext == Write \/ Lookup

MemSpec == MemInit /\ [][MemNext]_memvars

-----------------------------------------------------------------------------
\* The newest entry of a key that a sequence number can see, 0 for none.
Newest(entries, k, s) ==
  LET seen == {i \in DOMAIN entries : entries[i].key = k /\ entries[i].seq <= s}
  IN IF seen = {} THEN 0 ELSE entries[CHOOSE i \in seen : \A j \in seen : j <= i].seq

\* A lookup that runs while entries are being linked finds the newest version
\* its sequence number can see: nothing that was published is missed, and no
\* newer version gets in its way (MemTable::Get, SkipList::Insert).
GetFindsPublished ==
  get # NoGet /\ get.level < 0 =>
    (IF get.result # Null /\ get.result.key = get.key THEN get.result.seq ELSE 0)
      = Newest(added, get.key, get.seq)

=============================================================================
