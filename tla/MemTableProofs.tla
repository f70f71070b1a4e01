--------------------------- MODULE MemTableProofs ---------------------------
(***************************************************************************)
(* Proof that a lookup in a memtable that is being written finds the       *)
(* newest version it may see (module MemTable).                            *)
(***************************************************************************)
EXTENDS MemTable, TLAPS

Level  == 0 .. kMaxHeight - 1
Entry  == [key : UserKeys, seq : Nat, type : {"value", "deletion"}]
Linked == Entry \cup {head_}

\* n comes before the key k; the head is before every key.
Precedes(n, k) == n = head_ \/ KeyBefore(n, k)

\* The nodes that can be reached on level l.
In(lst, l) == {n \in DOMAIN lst.next : l \in DOMAIN lst.next[n] /\ lst.next[n][l] # Uninitialized}

\* The pointer of n on level l leads to the next node of that level.
Leads(lst, n, l) ==
  LET m == lst.next[n][l]
  IN  /\ m = Null \/ (m \in In(lst, l) /\ m # head_ /\ Precedes(n, m))
      /\ \A k \in In(lst, l) : k # head_ /\ Precedes(n, k) => m # Null /\ ~KeyBefore(k, m)

\* A list: every pointer leads to the next node of its level, and the nodes of
\* a level are on all levels below it.
ListInv(lst) ==
  /\ lst = [next |-> lst.next, heights |-> lst.heights]
  /\ DOMAIN lst.next \subseteq Linked /\ head_ \in DOMAIN lst.next
  /\ lst.heights \subseteq 1 .. kMaxHeight
  /\ \E h \in lst.heights : \A g \in lst.heights : g <= h
  /\ \A n \in DOMAIN lst.next : \E h \in 1 .. kMaxHeight :
       DOMAIN lst.next[n] = 0 .. h - 1
  /\ \A l \in Level : head_ \in In(lst, l)
  /\ \A n \in DOMAIN lst.next : n \in In(lst, 0)
  /\ \A l \in Level : \A n \in In(lst, l) : Leads(lst, n, l)
  /\ \A l, m \in Level : l <= m => In(lst, m) \subseteq In(lst, l)
  /\ \A l \in Level : l >= GetMaxHeight(lst) => In(lst, l) = {head_}

\* The node after which a key goes on level l.
GoesAfter(lst, p, key, l) ==
  /\ p \in In(lst, l) /\ Precedes(p, key)
  /\ lst.next[p][l] = Null \/ KeyBefore(key, lst.next[p][l])

\* The entry being added is the last one, not yet published; until it is linked
\* it is in no list.
SearchInv ==
  /\ adding = [step |-> "search", key |-> adding.key, x |-> adding.x, level |-> adding.level,
               prev |-> adding.prev]
  /\ added # <<>> /\ adding.key = added[Len(added)] /\ adding.key \notin DOMAIN list.next
  /\ adding.level \in -1 .. GetMaxHeight(list) - 1
  /\ DOMAIN adding.prev = Level
  /\ adding.level >= 0 => adding.x \in In(list, adding.level) /\ Precedes(adding.x, adding.key)
  /\ \A l \in Level : adding.level < l /\ l < GetMaxHeight(list) =>
       GoesAfter(list, adding.prev[l], adding.key, l)

LinkInv ==
  /\ adding = [step |-> "link", key |-> adding.key, height |-> adding.height,
               level |-> adding.level, prev |-> adding.prev]
  /\ added # <<>> /\ adding.key = added[Len(added)]
  /\ adding.height \in 1 .. GetMaxHeight(list) /\ adding.level \in 0 .. adding.height - 1
  /\ adding.level = 0 => adding.key \notin DOMAIN list.next
  /\ adding.level > 0 => /\ adding.key \in DOMAIN list.next
                         /\ DOMAIN list.next[adding.key] = 0 .. adding.height - 1
  /\ \A l \in Level : adding.key \in In(list, l) <=> l < adding.level
  /\ \A l \in adding.level .. adding.height - 1 :
       GoesAfter(list, adding.prev[l], adding.key, l)

\* The entries in the list.
Complete == {added[k] : k \in DOMAIN added} \ (IF adding = NoInsert THEN {} ELSE {adding.key})

WriterInv ==
  /\ added \in Seq(Entry)
  /\ \A k, l \in DOMAIN added : k < l => added[k].seq < added[l].seq
  /\ last_sequence \in Nat /\ Sequence \in Nat /\ last_sequence <= Sequence
  /\ ListInv(list)
  /\ \/ adding = NoInsert
     \/ /\ adding.key.seq > last_sequence
        /\ IF adding.step = "search" THEN SearchInv ELSE LinkInv
  /\ DOMAIN list.next \ {head_} \subseteq {added[k] : k \in DOMAIN added}
  /\ Complete \subseteq DOMAIN list.next

\* The search has passed no entry it may see.
GetInv ==
  \/ get = NoGet
  \/ /\ get = [key |-> get.key, seq |-> get.seq, x |-> get.x, level |-> get.level,
               result |-> get.result]
     /\ get.key \in UserKeys /\ get.seq \in Nat /\ get.seq <= last_sequence
     /\ get.level \in -1 .. kMaxHeight - 1
     /\ get.level >= 0 => get.x \in In(list, get.level) /\ Precedes(get.x, get)
     /\ get.level < 0 =>
          /\ get.result = Null \/ (get.result \in In(list, 0) /\ get.result # head_
                                     /\ ~KeyBefore(get.result, get))
          /\ \A k \in In(list, 0) : k # head_ /\ k.seq <= get.seq /\ ~KeyBefore(k, get) =>
               get.result # Null /\ ~KeyBefore(k, get.result)

MemInv == WriterInv /\ GetInv

-----------------------------------------------------------------------------
(* The order of entries. *)

IsKey(a) == a.key \in Nat /\ a.seq \in Nat

\* KeyBefore orders keys first by user key and then from new to old.
LEMMA KeyOrder ==
  ASSUME NEW a, NEW b, NEW c, IsKey(a), IsKey(b), IsKey(c)
  PROVE  /\ ~KeyBefore(a, a)
         /\ KeyBefore(a, b) => ~KeyBefore(b, a)
         /\ KeyBefore(a, b) /\ KeyBefore(b, c) => KeyBefore(a, c)
         /\ ~KeyBefore(b, a) /\ KeyBefore(b, c) => KeyBefore(a, c)
         /\ KeyBefore(a, b) /\ ~KeyBefore(c, b) => KeyBefore(a, c)
         /\ a.seq # b.seq => KeyBefore(a, b) \/ KeyBefore(b, a)
  BY DEF IsKey, KeyBefore

\* Entries are keys, and none of the special nodes.
LEMMA EntryFacts ==
  ASSUME NEW e \in Entry
  PROVE  IsKey(e) /\ e # head_ /\ e # Null /\ e # Uninitialized
<1>1. e.key \in UserKeys /\ e.seq \in Nat /\ e.type \in {"value", "deletion"}
  BY DEF Entry
<1>2. head_.type = "head" /\ Null.type = "nullptr" /\ Uninitialized.type = "uninitialized"
  BY DEF head_, Null, Uninitialized, Node
<1>3. e.type # "head" /\ e.type # "nullptr" /\ e.type # "uninitialized"
  BY <1>1
<1>4. e # head_ /\ e # Null /\ e # Uninitialized
  BY <1>2, <1>3
<1> QED BY <1>1, <1>4, MemTableAssumption DEF IsKey

\* The special nodes differ.
LEMMA SpecialNodes ==
  /\ head_ # Null /\ head_ # Uninitialized /\ Null # Uninitialized
  /\ head_ \notin Entry /\ Null \notin Linked /\ Uninitialized \notin Linked
  BY EntryFacts DEF head_, Null, Uninitialized, Node, Linked

\* The maximum height is the greatest value it has had.
LEMMA MaxHeight ==
  ASSUME NEW lst, ListInv(lst)
  PROVE  /\ GetMaxHeight(lst) \in lst.heights /\ GetMaxHeight(lst) \in 1 .. kMaxHeight
         /\ \A g \in lst.heights : g <= GetMaxHeight(lst)
<1>1. \E h \in lst.heights : \A g \in lst.heights : g <= h
  BY DEF ListInv
<1>2. GetMaxHeight(lst) \in lst.heights /\ \A g \in lst.heights : g <= GetMaxHeight(lst)
  BY <1>1 DEF GetMaxHeight
<1> QED BY <1>2 DEF ListInv

\* A pointer that can be read leads to a node that is linked there, or nowhere.
LEMMA PointerTypes ==
  ASSUME NEW lst, ListInv(lst), NEW l \in Level, NEW n \in In(lst, l)
  PROVE  /\ n \in DOMAIN lst.next /\ n \in Linked /\ l \in DOMAIN lst.next[n]
         /\ n # head_ => n \in Entry /\ IsKey(n)
         /\ lst.next[n][l] # Null => lst.next[n][l] \in In(lst, l) /\ lst.next[n][l] \in Entry
         /\ lst.next[n][l] # Uninitialized
<1>1. n \in DOMAIN lst.next /\ l \in DOMAIN lst.next[n] /\ lst.next[n][l] # Uninitialized
  BY DEF In
<1>2. n \in Linked
  BY <1>1 DEF ListInv
<1>3. ASSUME lst.next[n][l] # Null
      PROVE  lst.next[n][l] \in In(lst, l) /\ lst.next[n][l] \in Entry
  <2>1. lst.next[n][l] \in In(lst, l) /\ lst.next[n][l] # head_
    BY <1>3 DEF ListInv, Leads
  <2>2. lst.next[n][l] \in DOMAIN lst.next
    BY <2>1 DEF In
  <2> QED BY <2>1, <2>2 DEF ListInv, Linked
<1> QED BY <1>1, <1>2, <1>3, EntryFacts DEF Linked

-----------------------------------------------------------------------------
(* A search: what FindGreaterOrEqual knows of its node. *)

\* One step to the right, or down, of a search for a key.
LEMMA SearchMove ==
  ASSUME NEW lst, ListInv(lst), NEW l \in Level, NEW x \in In(lst, l), NEW key, IsKey(key),
         Precedes(x, key)
  PROVE  /\ KeyIsAfterNode(key, lst.next[x][l]) =>
              lst.next[x][l] \in In(lst, l) /\ Precedes(lst.next[x][l], key)
         /\ ~KeyIsAfterNode(key, lst.next[x][l]) =>
              \A k \in In(lst, l) : k # head_ /\ ~KeyBefore(k, key) =>
                /\ lst.next[x][l] # Null /\ ~KeyBefore(k, lst.next[x][l])
         /\ ~KeyIsAfterNode(key, lst.next[x][l]) =>
              lst.next[x][l] = Null \/ (lst.next[x][l] \in In(lst, l) /\ lst.next[x][l] # head_
                                          /\ ~KeyBefore(lst.next[x][l], key))
         /\ l > 0 => x \in In(lst, l - 1)
<1> DEFINE m == lst.next[x][l]
<1>1. m = Null \/ (m \in In(lst, l) /\ m \in Entry /\ m # head_)
  BY PointerTypes, EntryFacts
<1>2. Leads(lst, x, l)
  BY DEF ListInv
<1>3. ASSUME NEW k \in In(lst, l), k # head_, ~KeyBefore(k, key)
      PROVE  m # Null /\ ~KeyBefore(k, m)
  <2>1. IsKey(k)
    BY <1>3, PointerTypes
  <2>2. Precedes(x, k)
    <3>1. CASE x = head_
      BY <3>1 DEF Precedes
    <3>2. CASE x # head_
      <4>1. IsKey(x) /\ KeyBefore(x, key)
        BY <3>2, PointerTypes DEF Precedes
      <4> QED BY <1>3, <2>1, <4>1, KeyOrder DEF Precedes
    <3> QED BY <3>1, <3>2
  <2> QED BY <1>2, <1>3, <2>2 DEF Leads
<1>4. ASSUME l > 0 PROVE x \in In(lst, l - 1)
  <2>1. l - 1 \in Level /\ l - 1 <= l
    BY <1>4, MemTableAssumption DEF Level
  <2> QED BY <2>1 DEF ListInv
<1> QED BY <1>1, <1>3, <1>4 DEF KeyIsAfterNode, Precedes

-----------------------------------------------------------------------------
(* One level of a node is linked. *)

\* Entries of the list are told apart by their sequence numbers.
DistinctSeqs(S) == \A a, b \in S : a # b => a.seq # b.seq

\* What Link changes: the pointer of the node before and the one of the new
\* node, on one level.
LinksOne(lst, ins, new) ==
  LET l == ins.level
      p == ins.prev[l]
  IN /\ new = [next |-> new.next, heights |-> lst.heights]
     /\ new.heights = lst.heights
     /\ DOMAIN new.next = DOMAIN lst.next \cup {ins.key}
     /\ DOMAIN new.next[ins.key] = 0 .. ins.height - 1
     /\ \A n \in DOMAIN lst.next : DOMAIN new.next[n] = DOMAIN lst.next[n]
     /\ \A n : n \in In(new, l) <=> n \in In(lst, l) \/ n = ins.key
     /\ \A m \in Level : m # l => \A n : n \in In(new, m) <=> n \in In(lst, m)
     /\ new.next[p][l] = ins.key /\ new.next[ins.key][l] = lst.next[p][l]
     /\ \A m \in Level : \A n \in In(lst, m) :
          ~(m = l /\ n = p) => new.next[n][m] = lst.next[n][m]

\* Link does that.
LEMMA LinkEffect ==
  ASSUME NEW lst, ListInv(lst), NEW ins, NEW l \in Level,
         ins.level = l, ins.height \in 1 .. kMaxHeight, l < ins.height, ins.key \in Entry,
         l = 0 => ins.key \notin DOMAIN lst.next,
         l > 0 => ins.key \in DOMAIN lst.next
                  /\ DOMAIN lst.next[ins.key] = 0 .. ins.height - 1,
         \A m \in Level : ins.key \in In(lst, m) <=> m < l,
         ins.prev[l] \in In(lst, l)
  PROVE  LinksOne(lst, ins, Link(lst, ins))
<1> DEFINE new == Link(lst, ins)
<1> DEFINE e == ins.key
           p == ins.prev[l]
           N == DOMAIN lst.next
           f == [n \in N \cup {e} |->
                   CASE n = e   -> [NewNode(lst, ins) EXCEPT ![l] = lst.next[p][l]]
                     [] n = p   -> [lst.next[p] EXCEPT ![l] = e]
                     [] OTHER   -> lst.next[n]]
<1>1. lst = [next |-> lst.next, heights |-> lst.heights]
  BY DEF ListInv
<1>2. new = [next |-> f, heights |-> lst.heights]
  <2>1. new = [lst EXCEPT !.next = f]
    BY DEF Link
  <2> HIDE DEF f, new
  <2> QED BY <1>1, <2>1
<1> HIDE DEF new
<1>3. new.next = f /\ new.heights = lst.heights
  BY <1>2
<1>4. p \in N /\ p # e /\ l \in DOMAIN lst.next[p] /\ lst.next[p][l] # Uninitialized
  BY DEF In, Level
<1>5. /\ DOMAIN NewNode(lst, ins) = 0 .. ins.height - 1
      /\ e \in N => NewNode(lst, ins) = lst.next[e]
      /\ e \notin N => \A m \in 0 .. ins.height - 1 : NewNode(lst, ins)[m] = Uninitialized
  <2>1. CASE e \in N
    <3>1. l > 0
      BY <2>1 DEF Level
    <3> QED BY <2>1, <3>1 DEF NewNode
  <2>2. CASE e \notin N
    BY <2>2 DEF NewNode
  <2> QED BY <2>1, <2>2
<1> DEFINE g == [NewNode(lst, ins) EXCEPT ![l] = lst.next[p][l]]
           q == [lst.next[p] EXCEPT ![l] = e]
<1>6. f[e] = g /\ f[p] = q /\ \A n \in N : n # e /\ n # p => f[n] = lst.next[n]
  BY <1>4
<1>7. DOMAIN f = N \cup {e}
  OBVIOUS
<1>8. /\ DOMAIN g = 0 .. ins.height - 1
      /\ g[l] = lst.next[p][l]
      /\ \A m \in 0 .. ins.height - 1 : m # l => g[m] = NewNode(lst, ins)[m]
  BY <1>5 DEF Level
<1>9. /\ DOMAIN q = DOMAIN lst.next[p] /\ q[l] = e
      /\ \A m \in DOMAIN lst.next[p] : m # l => q[m] = lst.next[p][m]
  BY <1>4
<1> HIDE DEF f, g, q, N, p, e
<1>10. \A n \in N : DOMAIN f[n] = DOMAIN lst.next[n]
  <2> SUFFICES ASSUME NEW n \in N PROVE DOMAIN f[n] = DOMAIN lst.next[n]
    OBVIOUS
  <2>1. CASE n = e
    BY <1>5, <1>6, <1>8, <2>1
  <2>2. CASE n = p
    BY <1>6, <1>9, <2>2
  <2>3. CASE n # e /\ n # p
    BY <1>6, <2>3
  <2> QED BY <2>1, <2>2, <2>3
<1>11. e \in Entry /\ e # Uninitialized
  BY EntryFacts DEF e
<1>12. \A m \in Level : \A n \in N : n # e /\ (n # p \/ m # l) /\ m \in DOMAIN lst.next[n] =>
         f[n][m] = lst.next[n][m]
  BY <1>6, <1>9
<1>13. \A m \in Level : m # l /\ m \in 0 .. ins.height - 1 =>
         f[e][m] = IF e \in N THEN lst.next[e][m] ELSE Uninitialized
  BY <1>5, <1>6, <1>8
<1>14. \A n : n \in In(new, l) <=> n \in In(lst, l) \/ n = e
  <2>1. e \in In(new, l)
    BY <1>3, <1>4, <1>6, <1>7, <1>8 DEF In, Level
  <2>2. p \in In(new, l) /\ p \in In(lst, l)
    BY <1>3, <1>4, <1>6, <1>7, <1>9, <1>11 DEF In, p, N
  <2>3. ASSUME NEW n, n # e, n # p PROVE n \in In(new, l) <=> n \in In(lst, l)
    BY <1>3, <1>6, <1>7, <2>3 DEF In, N
  <2> QED BY <2>1, <2>2, <2>3
<1>15. ASSUME NEW m \in Level, m # l PROVE \A n : n \in In(new, m) <=> n \in In(lst, m)
  <2>1. e \in In(new, m) <=> e \in In(lst, m)
    <3>1. CASE e \in N
      <4>1. DOMAIN lst.next[e] = 0 .. ins.height - 1
        BY <1>5, <3>1
      <4> QED BY <1>3, <1>6, <1>7, <1>8, <1>13, <1>15, <3>1, <4>1 DEF In, N
    <3>2. CASE e \notin N
      BY <1>3, <1>6, <1>7, <1>8, <1>13, <1>15, <3>2 DEF In, N
    <3> QED BY <3>1, <3>2
  <2>2. ASSUME NEW n, n # e PROVE n \in In(new, m) <=> n \in In(lst, m)
    BY <1>3, <1>7, <1>10, <1>12, <1>15, <2>2 DEF In, N
  <2> QED BY <2>1, <2>2
<1>16. new.next[p][l] = e /\ new.next[e][l] = lst.next[p][l]
  BY <1>3, <1>6, <1>8, <1>9
<1>17. ASSUME NEW m \in Level, NEW n \in In(lst, m), ~(m = l /\ n = p)
       PROVE  new.next[n][m] = lst.next[n][m]
  <2>1. n \in N /\ m \in DOMAIN lst.next[n]
    BY DEF In, N
  <2>2. CASE n # e
    BY <1>3, <1>12, <1>17, <2>1, <2>2
  <2>3. CASE n = e
    <3>1. m # l
      BY <2>3 DEF e, Level
    <3>2. m \in 0 .. ins.height - 1
      BY <1>5, <2>1, <2>3
    <3> QED BY <1>3, <1>13, <2>1, <2>3, <3>1, <3>2
  <2> QED BY <2>2, <2>3
<1>18. new = [next |-> new.next, heights |-> lst.heights]
  BY <1>2, <1>3
<1> QED BY <1>3, <1>6, <1>7, <1>8, <1>10, <1>14, <1>15, <1>16, <1>17, <1>18 DEF LinksOne, e, p, N, new

\* A list remains a list when a node is linked where it belongs.
LEMMA LinkKeepsList ==
  ASSUME NEW lst, ListInv(lst), NEW ins, NEW l \in Level,
         ins.level = l, ins.height \in 1 .. GetMaxHeight(lst), l < ins.height, ins.key \in Entry,
         l = 0 => ins.key \notin DOMAIN lst.next,
         l > 0 => ins.key \in DOMAIN lst.next
                  /\ DOMAIN lst.next[ins.key] = 0 .. ins.height - 1,
         \A m \in Level : ins.key \in In(lst, m) <=> m < l,
         GoesAfter(lst, ins.prev[l], ins.key, l),
         DistinctSeqs((DOMAIN lst.next \ {head_}) \cup {ins.key}),
         NEW new, new = Link(lst, ins)
  PROVE  ListInv(new) /\ GetMaxHeight(new) = GetMaxHeight(lst)
<1> DEFINE e == ins.key
           p == ins.prev[l]
           N == DOMAIN lst.next
           s == lst.next[p][l]
<1>h. ins.height \in 1 .. kMaxHeight
  BY MaxHeight, MemTableAssumption
<1>p. p \in In(lst, l) /\ Precedes(p, e) /\ (s = Null \/ KeyBefore(e, s))
  BY DEF GoesAfter
<1>0. LinksOne(lst, ins, new)
  BY <1>h, <1>p, LinkEffect
<1>1. /\ new = [next |-> new.next, heights |-> lst.heights]
      /\ new.heights = lst.heights
      /\ DOMAIN new.next = N \cup {e}
      /\ DOMAIN new.next[e] = 0 .. ins.height - 1
      /\ \A n \in N : DOMAIN new.next[n] = DOMAIN lst.next[n]
  BY <1>0 DEF LinksOne
<1>2. /\ In(new, l) = In(lst, l) \cup {e}
      /\ \A m \in Level : m # l => In(new, m) = In(lst, m)
      /\ new.next[p][l] = e /\ new.next[e][l] = s
      /\ \A m \in Level : \A n \in In(lst, m) :
           ~(m = l /\ n = p) => new.next[n][m] = lst.next[n][m]
  BY <1>0 DEF LinksOne
<1>e. e \in Entry /\ IsKey(e) /\ e # head_ /\ e # Null
  BY EntryFacts
<1>l. e \notin In(lst, l)
  BY DEF Level
<1>d. \A a \in N : a # head_ /\ a # e => a.seq # e.seq
  BY DEF DistinctSeqs
<1>dd. \A a, b \in N : a # head_ /\ b # head_ /\ a # b => a.seq # b.seq
  BY DEF DistinctSeqs
<1> HIDE DEF e, p, N, s
<1>3. GetMaxHeight(new) = GetMaxHeight(lst)
  BY <1>1 DEF GetMaxHeight
<1>4. \A m \in Level : In(lst, m) \subseteq N
  BY DEF In, N
<1>5. \A n \in In(lst, l) : n # head_ => IsKey(n) /\ n \in N
  BY <1>4, PointerTypes
<1>s. s = Null \/ (s \in In(lst, l) /\ s # head_ /\ IsKey(s) /\ Precedes(p, s))
  <2>1. Leads(lst, p, l)
    BY <1>p DEF ListInv
  <2> QED BY <2>1, <1>5 DEF Leads, s
<1>6. ASSUME NEW m \in Level, m # l, NEW n \in In(new, m) PROVE Leads(new, n, m)
  <2>1. n \in In(lst, m) /\ new.next[n][m] = lst.next[n][m] /\ In(new, m) = In(lst, m)
    BY <1>2, <1>6
  <2>2. Leads(lst, n, m)
    BY <2>1 DEF ListInv
  <2> QED BY <2>1, <2>2 DEF Leads
<1>7. Leads(new, e, l)
  <2>1. s = Null \/ (s \in In(new, l) /\ s # head_ /\ Precedes(e, s))
    BY <1>2, <1>p, <1>s DEF Precedes
  <2>2. ASSUME NEW k \in In(new, l), k # head_, Precedes(e, k)
        PROVE  s # Null /\ ~KeyBefore(k, s)
    <3>1. KeyBefore(e, k) /\ k # e
      BY <1>e, <2>2, KeyOrder DEF Precedes
    <3>2. k \in In(lst, l) /\ IsKey(k)
      BY <1>2, <1>5, <2>2, <3>1
    <3>3. Precedes(p, k)
      <4>1. CASE p = head_
        BY <4>1 DEF Precedes
      <4>2. CASE p # head_
        BY <1>5, <1>e, <1>p, <3>1, <3>2, <4>2, KeyOrder DEF Precedes
      <4> QED BY <4>1, <4>2
    <3> QED BY <1>p, <2>2, <3>2, <3>3 DEF ListInv, Leads, s
  <2> QED BY <1>2, <2>1, <2>2 DEF Leads
<1>8. Leads(new, p, l)
  <2>1. ASSUME NEW k \in In(new, l), k # head_, Precedes(p, k)
        PROVE  e # Null /\ ~KeyBefore(k, e)
    <3>1. CASE k = e
      BY <1>e, <3>1, KeyOrder
    <3>2. CASE k # e
      <4>1. k \in In(lst, l) /\ IsKey(k)
        BY <1>2, <1>5, <2>1, <3>2
      <4>2. s # Null /\ ~KeyBefore(k, s)
        BY <1>p, <2>1, <4>1 DEF ListInv, Leads, s
      <4>3. KeyBefore(e, k)
        BY <1>e, <1>p, <1>s, <4>1, <4>2, KeyOrder
      <4> QED BY <1>e, <4>1, <4>3, KeyOrder
    <3> QED BY <3>1, <3>2
  <2> QED BY <1>2, <1>e, <1>p, <2>1 DEF Leads
<1>9. ASSUME NEW n \in In(new, l), n # e, n # p PROVE Leads(new, n, l)
  <2> DEFINE m == lst.next[n][l]
  <2>1. n \in In(lst, l) /\ new.next[n][l] = m
    BY <1>2, <1>9
  <2>2. Leads(lst, n, l)
    BY <2>1 DEF ListInv
  <2>3. m = Null \/ (m \in In(new, l) /\ m # head_ /\ Precedes(n, m))
    BY <1>2, <2>2 DEF Leads
  <2>4. ASSUME Precedes(n, e) PROVE m # Null /\ ~KeyBefore(e, m)
    <3>1. CASE p # head_ /\ Precedes(n, p)
      <4>1. m # Null /\ ~KeyBefore(p, m)
        BY <1>p, <2>2, <3>1 DEF Leads
      <4>2. IsKey(m) /\ IsKey(p) /\ KeyBefore(p, e)
        BY <1>2, <1>5, <1>e, <1>p, <2>3, <3>1, <4>1 DEF Precedes
      <4> QED BY <1>e, <4>1, <4>2, KeyOrder
    <3>2. CASE n # head_ /\ Precedes(p, n)
      <4>1. s # Null /\ ~KeyBefore(n, s)
        BY <1>p, <2>1, <3>2 DEF ListInv, Leads, s
      <4>2. IsKey(n) /\ KeyBefore(n, e) /\ KeyBefore(e, s) /\ IsKey(s)
        BY <1>5, <1>p, <1>s, <2>1, <2>4, <3>2, <4>1 DEF Precedes
      <4> QED BY <1>e, <4>1, <4>2, KeyOrder
    <3>3. CASE n # head_ /\ p # head_
      <4>1. n.seq # p.seq /\ IsKey(n) /\ IsKey(p)
        BY <1>5, <1>9, <1>dd, <1>p, <2>1, <3>3
      <4>2. KeyBefore(n, p) \/ KeyBefore(p, n)
        BY <4>1, KeyOrder
      <4> QED BY <3>1, <3>2, <3>3, <4>2 DEF Precedes
    <3> QED BY <1>9, <3>1, <3>2, <3>3 DEF Precedes
  <2>5. \A k \in In(new, l) : k # head_ /\ Precedes(n, k) => m # Null /\ ~KeyBefore(k, m)
    BY <1>2, <2>2, <2>4 DEF Leads
  <2> QED BY <2>1, <2>3, <2>5 DEF Leads
<1>10. \A m \in Level : \A n \in In(new, m) : Leads(new, n, m)
  BY <1>6, <1>7, <1>8, <1>9
<1>11. \A m, k \in Level : m <= k => In(new, k) \subseteq In(new, m)
  <2> SUFFICES ASSUME NEW m \in Level, NEW k \in Level, m <= k
               PROVE  In(new, k) \subseteq In(new, m)
    OBVIOUS
  <2>1. In(lst, k) \subseteq In(lst, m)
    BY DEF ListInv
  <2>2. CASE k # l
    BY <1>2, <2>1, <2>2
  <2>3. CASE k = l
    <3>1. CASE m = l
      BY <2>3, <3>1
    <3>2. CASE m < l
      <4>1. e \in In(lst, m)
        BY <3>2 DEF e
      <4> QED BY <1>2, <2>1, <2>3, <3>2, <4>1
    <3> QED BY <2>3, <3>1, <3>2 DEF Level
  <2> QED BY <2>2, <2>3
<1>12. \A n \in DOMAIN new.next : n \in In(new, 0)
  <2>0. 0 \in Level
    BY MemTableAssumption DEF Level
  <2>1. \A n \in N : n \in In(lst, 0)
    BY DEF ListInv, N
  <2>2. CASE l = 0
    BY <1>1, <1>2, <2>1, <2>2
  <2>3. CASE l # 0
    <3>1. l > 0 /\ e \in In(lst, 0)
      BY <2>0, <2>3 DEF e, Level
    <3> QED BY <1>1, <1>2, <2>0, <2>1, <2>3, <3>1
  <2> QED BY <2>2, <2>3
<1>13. \A m \in Level : m >= GetMaxHeight(new) => In(new, m) = {head_}
  <2>1. GetMaxHeight(lst) \in 1 .. kMaxHeight /\ l < GetMaxHeight(lst)
    BY MaxHeight DEF Level
  <2>2. \A m \in Level : m >= GetMaxHeight(lst) => In(lst, m) = {head_} /\ m # l
    BY <2>1 DEF ListInv, Level
  <2> QED BY <1>2, <1>3, <2>2
<1>14. \A m \in Level : head_ \in In(new, m)
  BY <1>2 DEF ListInv
<1>15. \A n \in DOMAIN new.next : \E h \in 1 .. kMaxHeight : DOMAIN new.next[n] = 0 .. h - 1
  <2>1. \A n \in N : \E h \in 1 .. kMaxHeight : DOMAIN lst.next[n] = 0 .. h - 1
    BY DEF ListInv, N
  <2> QED BY <1>1, <1>h, <2>1
<1>16. DOMAIN new.next \subseteq Linked /\ head_ \in DOMAIN new.next
  BY <1>1, <1>e DEF ListInv, Linked, N
<1>17. new.heights \subseteq 1 .. kMaxHeight /\ \E h \in new.heights : \A g \in new.heights : g <= h
  BY <1>1 DEF ListInv
<1>18. new = [next |-> new.next, heights |-> new.heights]
  BY <1>1
<1> QED BY <1>3, <1>10, <1>11, <1>12, <1>13, <1>14, <1>15, <1>16, <1>17, <1>18 DEF ListInv

-----------------------------------------------------------------------------
(* The steps. *)

AddedSet == {added[k] : k \in DOMAIN added}

\* The entries added are told apart by their sequence numbers, and Sequence is
\* the greatest of these.
LEMMA AddedFacts ==
  ASSUME WriterInv
  PROVE  /\ Len(added) \in Nat /\ DOMAIN added = 1 .. Len(added)
         /\ AddedSet \subseteq Entry /\ DistinctSeqs(AddedSet)
         /\ \A k \in DOMAIN added : added[k].seq <= Sequence
         /\ added # <<>> => added[Len(added)] \in AddedSet
<1>1. Len(added) \in Nat /\ DOMAIN added = 1 .. Len(added) /\ \A k \in DOMAIN added : added[k] \in Entry
  BY DEF WriterInv
<1>2. \A k \in DOMAIN added : added[k].seq \in Nat
  BY <1>1 DEF Entry
<1>3. DistinctSeqs(AddedSet)
  <2> SUFFICES ASSUME NEW k \in DOMAIN added, NEW l \in DOMAIN added, added[k] # added[l]
               PROVE  added[k].seq # added[l].seq
    BY DEF DistinctSeqs, AddedSet
  <2>1. k < l \/ l < k
    BY <1>1
  <2> QED BY <1>2, <2>1 DEF WriterInv
<1>4. ASSUME NEW k \in DOMAIN added PROVE added[k].seq <= Sequence
  <2>1. added # <<>> /\ Len(added) \in DOMAIN added /\ (k = Len(added) \/ k < Len(added))
    BY <1>1
  <2>2. Sequence = added[Len(added)].seq
    BY <2>1 DEF Sequence
  <2>3. added[k].seq \in Nat /\ added[Len(added)].seq \in Nat
    BY <1>2, <2>1
  <2>4. k < Len(added) => added[k].seq < added[Len(added)].seq
    BY <2>1 DEF WriterInv
  <2> QED BY <2>1, <2>2, <2>3, <2>4
<1>5. added # <<>> => Len(added) \in DOMAIN added
  BY <1>1 DEF WriterInv
<1> QED BY <1>1, <1>3, <1>4, <1>5 DEF AddedSet

\* The entry being added.
LEMMA AddingFacts ==
  ASSUME WriterInv, adding # NoInsert
  PROVE  /\ adding.key \in Entry /\ IsKey(adding.key) /\ adding.key \in AddedSet
         /\ adding.key.seq > last_sequence
         /\ DistinctSeqs((DOMAIN list.next \ {head_}) \cup {adding.key})
         /\ SearchInv \/ LinkInv
<1>1. adding.key.seq > last_sequence /\ (SearchInv \/ LinkInv)
  BY DEF WriterInv
<1>2. added # <<>> /\ adding.key = added[Len(added)]
  BY <1>1 DEF SearchInv, LinkInv
<1>3. adding.key \in AddedSet /\ adding.key \in Entry
  BY <1>2, AddedFacts
<1>4. DistinctSeqs((DOMAIN list.next \ {head_}) \cup {adding.key})
  <2>1. (DOMAIN list.next \ {head_}) \cup {adding.key} \subseteq AddedSet
    BY <1>3 DEF WriterInv, AddedSet
  <2>2. DistinctSeqs(AddedSet)
    BY AddedFacts
  <2> HIDE DEF AddedSet
  <2> QED BY <2>1, <2>2 DEF DistinctSeqs
<1> QED BY <1>1, <1>3, <1>4, EntryFacts

\* A memtable starts with the head alone.
LEMMA MemInitInv == MemInit => MemInv
<1> SUFFICES ASSUME MemInit PROVE MemInv
  OBVIOUS
<1>1. /\ list = NewList(kMaxHeight) /\ adding = NoInsert /\ added = <<>>
      /\ last_sequence \in Nat /\ get = NoGet
  BY DEF MemInit
<1>2. kMaxHeight \in Nat \ {0}
  BY MemTableAssumption
<1>3. /\ list = [next |-> list.next, heights |-> list.heights] /\ list.heights = {1}
      /\ DOMAIN list.next = {head_} /\ DOMAIN list.next[head_] = Level
      /\ \A l \in Level : list.next[head_][l] = Null
  BY <1>1 DEF NewList, Level
<1>4. \A l \in Level : In(list, l) = {head_}
  BY <1>3, SpecialNodes DEF In
<1>5. 0 \in Level
  BY <1>2 DEF Level
<1>6. \A l \in Level : Leads(list, head_, l)
  BY <1>3, <1>4 DEF Leads
<1>7. \E h \in list.heights : \A g \in list.heights : g <= h
  BY <1>3
<1>8. list.heights \subseteq 1 .. kMaxHeight
  BY <1>2, <1>3
<1>9. \A n \in DOMAIN list.next : \E h \in 1 .. kMaxHeight : DOMAIN list.next[n] = 0 .. h - 1
  BY <1>2, <1>3 DEF Level
<1>10. ListInv(list)
  BY <1>3, <1>4, <1>5, <1>6, <1>7, <1>8, <1>9 DEF ListInv, Linked
<1>11. added \in Seq(Entry) /\ DOMAIN added = {}
  BY <1>1
<1>12. Sequence = last_sequence
  BY <1>1 DEF Sequence
<1>13. WriterInv
  BY <1>1, <1>3, <1>10, <1>11, <1>12 DEF WriterInv, Complete
<1> QED BY <1>1, <1>13 DEF MemInv, GetInv

\* MemTable::Add: a new entry, with a sequence number of its own.
LEMMA StartAddKeeps ==
  ASSUME MemInv, NEW k \in UserKeys, NEW t \in {"value", "deletion"}, StartAdd(k, t)
  PROVE  MemInv'
<1>0. WriterInv /\ GetInv /\ ListInv(list)
  BY DEF MemInv, WriterInv
<1>1. PICK e : e = [key |-> k, seq |-> Sequence + 1, type |-> t]
  OBVIOUS
<1>2. /\ adding = NoInsert /\ added' = Append(added, e)
      /\ adding' = [step |-> "search", key |-> e, x |-> head_, level |-> GetMaxHeight(list) - 1,
                    prev |-> [l \in 0 .. kMaxHeight - 1 |-> Uninitialized]]
      /\ list' = list /\ last_sequence' = last_sequence /\ get' = get
  BY <1>1 DEF StartAdd
<1>3. Sequence \in Nat /\ last_sequence \in Nat /\ last_sequence <= Sequence /\ added \in Seq(Entry)
  BY <1>0 DEF WriterInv
<1>4. e \in Entry /\ e.seq = Sequence + 1
  BY <1>1, <1>3 DEF Entry
<1>5. Len(added) \in Nat /\ DOMAIN added = 1 .. Len(added) /\ \A i \in DOMAIN added : added[i].seq <= Sequence
  BY <1>0, AddedFacts
<1>6. /\ added' \in Seq(Entry) /\ Len(added') = Len(added) + 1 /\ DOMAIN added' = 1 .. Len(added) + 1
      /\ added'[Len(added) + 1] = e /\ \A i \in DOMAIN added : added'[i] = added[i]
      /\ added' # <<>>
  BY <1>2, <1>3, <1>4
<1>7. \A i \in DOMAIN added : added[i].seq \in Nat
  <2>1. \A i \in DOMAIN added : added[i] \in Entry
    BY <1>3
  <2> QED BY <2>1 DEF Entry
<1>8. \A i, j \in DOMAIN added' : i < j => added'[i].seq < added'[j].seq
  <2> SUFFICES ASSUME NEW i \in DOMAIN added', NEW j \in DOMAIN added', i < j
               PROVE  added'[i].seq < added'[j].seq
    OBVIOUS
  <2>1. i \in DOMAIN added
    BY <1>5, <1>6
  <2>2. CASE j \in DOMAIN added
    BY <1>0, <1>6, <2>1, <2>2 DEF WriterInv
  <2>3. CASE j = Len(added) + 1
    BY <1>3, <1>4, <1>5, <1>6, <1>7, <2>1, <2>3
  <2> QED BY <1>5, <1>6, <2>2, <2>3
<1>9. Sequence' = Sequence + 1
  BY <1>4, <1>6 DEF Sequence
<1>10. {added'[i] : i \in DOMAIN added'} = AddedSet \cup {e}
  <2>1. \A i \in DOMAIN added' : added'[i] \in AddedSet \cup {e}
    BY <1>5, <1>6 DEF AddedSet
  <2>2. \A n \in AddedSet \cup {e} : \E i \in DOMAIN added' : n = added'[i]
    <3>1. ASSUME NEW i \in DOMAIN added PROVE \E j \in DOMAIN added' : added[i] = added'[j]
      BY <1>5, <1>6
    <3>2. Len(added) + 1 \in DOMAIN added' /\ e = added'[Len(added) + 1]
      BY <1>5, <1>6
    <3> QED BY <3>1, <3>2 DEF AddedSet
  <2> QED BY <2>1, <2>2
<1>11. DOMAIN list.next \ {head_} \subseteq AddedSet /\ AddedSet \subseteq DOMAIN list.next
  BY <1>0, <1>2 DEF WriterInv, Complete, AddedSet
<1>12. e \notin AddedSet /\ e \notin DOMAIN list.next
  <2>1. e \notin AddedSet
    BY <1>3, <1>4, <1>5, <1>7 DEF AddedSet
  <2> QED BY <1>4, <1>11, <2>1, EntryFacts
<1>13. GetMaxHeight(list) \in 1 .. kMaxHeight
  BY <1>0, MaxHeight
<1>14. /\ adding'.step = "search" /\ adding'.key = e /\ adding'.x = head_
       /\ adding'.level = GetMaxHeight(list) - 1 /\ DOMAIN adding'.prev = Level
  BY <1>2 DEF Level
<1>15. SearchInv'
  <2>1. adding' = [step |-> "search", key |-> adding'.key, x |-> adding'.x,
                   level |-> adding'.level, prev |-> adding'.prev]
    BY <1>2
  <2>2. GetMaxHeight(list) - 1 \in Level /\ head_ \in In(list, GetMaxHeight(list) - 1)
    <3>1. GetMaxHeight(list) - 1 \in Level
      BY <1>13, MemTableAssumption DEF Level
    <3> QED BY <1>0, <3>1 DEF ListInv
  <2>3. \A l \in Level : ~(adding'.level < l /\ l < GetMaxHeight(list))
    BY <1>13, <1>14 DEF Level
  <2> QED
    BY <1>2, <1>6, <1>12, <1>13, <1>14, <2>1, <2>2, <2>3, MemTableAssumption DEF SearchInv, Precedes
<1>16. adding' # NoInsert /\ adding'.key.seq > last_sequence
  BY <1>3, <1>4, <1>14 DEF NoInsert
<1>17. Complete' = AddedSet
  <2>1. Complete' = {added'[i] : i \in DOMAIN added'} \ {e}
    BY <1>14, <1>16 DEF Complete
  <2> QED BY <1>10, <1>12, <2>1
<1>18. WriterInv'
  <2>1. {added'[i] : i \in DOMAIN added'} = AddedSet \cup {e}
    BY <1>10
  <2> HIDE DEF AddedSet
  <2> QED BY <1>0, <1>2, <1>3, <1>6, <1>8, <1>9, <1>11, <1>14, <1>15, <1>16, <1>17, <2>1 DEF WriterInv
<1>19. GetInv'
  BY <1>0, <1>2 DEF GetInv
<1> QED BY <1>18, <1>19 DEF MemInv

\* A step of Insert's search.
LEMMA InsertSearchKeeps ==
  ASSUME MemInv, InsertSearch
  PROVE  MemInv'
<1>0. WriterInv /\ GetInv /\ ListInv(list)
  BY DEF MemInv, WriterInv
<1>1. PICK x, l, key, prev :
        x = adding.x /\ l = adding.level /\ key = adding.key /\ prev = adding.prev
  OBVIOUS
<1> DEFINE next == list.next[x][l]
<1>2. /\ adding.step = "search" /\ l >= 0
      /\ adding' = IF KeyIsAfterNode(key, next) THEN [adding EXCEPT !.x = next]
                   ELSE [adding EXCEPT !.level = @ - 1, !.prev[l] = x]
      /\ list' = list /\ added' = added /\ last_sequence' = last_sequence /\ get' = get
  BY <1>1 DEF InsertSearch
<1>3. adding # NoInsert
  BY <1>2 DEF NoInsert
<1>4. SearchInv
  BY <1>0, <1>2, <1>3 DEF WriterInv
<1>5. /\ adding = [step |-> "search", key |-> key, x |-> x, level |-> l, prev |-> prev]
      /\ added # <<>> /\ key = added[Len(added)] /\ key \notin DOMAIN list.next
      /\ l \in -1 .. GetMaxHeight(list) - 1 /\ DOMAIN prev = Level
      /\ x \in In(list, l) /\ Precedes(x, key)
      /\ \A m \in Level : l < m /\ m < GetMaxHeight(list) => GoesAfter(list, prev[m], key, m)
  BY <1>1, <1>2, <1>4 DEF SearchInv
<1>6. GetMaxHeight(list) \in 1 .. kMaxHeight
  BY <1>0, MaxHeight
<1>7. l \in Level /\ l \in Int /\ l < GetMaxHeight(list)
  BY <1>2, <1>5, <1>6, MemTableAssumption DEF Level
<1>8. key \in Entry /\ IsKey(key) /\ key.seq > last_sequence
      /\ DistinctSeqs((DOMAIN list.next \ {head_}) \cup {key})
  BY <1>0, <1>1, <1>3, AddingFacts
<1>9. /\ KeyIsAfterNode(key, next) => next \in In(list, l) /\ Precedes(next, key)
      /\ ~KeyIsAfterNode(key, next) =>
           next = Null \/ (next \in In(list, l) /\ next # head_ /\ ~KeyBefore(next, key))
      /\ l > 0 => x \in In(list, l - 1)
  BY <1>0, <1>5, <1>7, <1>8, SearchMove
<1> HIDE DEF next
<1>10. ASSUME KeyIsAfterNode(key, next)
       PROVE  adding'.step = "search" /\ adding'.key = key /\ SearchInv'
  <2>1. adding' = [step |-> "search", key |-> key, x |-> next, level |-> l, prev |-> prev]
    BY <1>2, <1>5, <1>10
  <2>2. adding'.step = "search" /\ adding'.key = key /\ adding'.x = next /\ adding'.level = l /\ adding'.prev = prev
    BY <2>1
  <2>3. SearchInv'
    BY <1>2, <1>5, <1>9, <1>10, <2>1, <2>2 DEF SearchInv
  <2> QED BY <2>2, <2>3
<1>11. ASSUME ~KeyIsAfterNode(key, next)
       PROVE  adding'.step = "search" /\ adding'.key = key /\ SearchInv'
  <2> DEFINE newprev == [prev EXCEPT ![l] = x]
  <2>1. adding' = [step |-> "search", key |-> key, x |-> x, level |-> l - 1, prev |-> newprev]
    BY <1>2, <1>5, <1>11
  <2>2. /\ adding'.step = "search" /\ adding'.key = key /\ adding'.x = x
        /\ adding'.level = l - 1 /\ adding'.prev = newprev
    BY <2>1
  <2>3. DOMAIN newprev = Level /\ newprev[l] = x /\ \A m \in Level : m # l => newprev[m] = prev[m]
    BY <1>5, <1>7
  <2> HIDE DEF newprev
  <2>4. GoesAfter(list, x, key, l)
    <3>1. CASE next = Null
      BY <1>5, <3>1 DEF GoesAfter, next
    <3>2. CASE next # Null
      <4>1. next \in In(list, l) /\ next # head_ /\ ~KeyBefore(next, key)
        BY <1>9, <1>11, <3>2
      <4>2. next \in DOMAIN list.next /\ IsKey(next)
        BY <1>0, <1>7, <4>1, PointerTypes
      <4>3. next.seq # key.seq
        BY <1>5, <1>8, <4>1, <4>2 DEF DistinctSeqs
      <4>4. KeyBefore(key, next)
        BY <1>8, <4>1, <4>2, <4>3, KeyOrder
      <4> QED BY <1>5, <4>4 DEF GoesAfter, next
    <3> QED BY <3>1, <3>2
  <2>5. \A m \in Level : l - 1 < m /\ m < GetMaxHeight(list) => GoesAfter(list, newprev[m], key, m)
    <3> SUFFICES ASSUME NEW m \in Level, l - 1 < m, m < GetMaxHeight(list)
                 PROVE  GoesAfter(list, newprev[m], key, m)
      OBVIOUS
    <3>1. m = l \/ l < m
      BY <1>7 DEF Level
    <3> QED BY <1>5, <1>7, <2>3, <2>4, <3>1
  <2>6. l - 1 \in -1 .. GetMaxHeight(list) - 1 /\ (l - 1 >= 0 => l > 0)
    BY <1>2, <1>6, <1>7
  <2>7. SearchInv'
    BY <1>2, <1>5, <1>9, <2>1, <2>2, <2>3, <2>5, <2>6 DEF SearchInv
  <2> QED BY <2>2, <2>7
<1>12. adding'.step = "search" /\ adding'.key = key /\ SearchInv'
  BY <1>10, <1>11
<1>13. adding' # NoInsert
  BY <1>12 DEF NoInsert
<1>14. Complete' = Complete
  BY <1>1, <1>2, <1>3, <1>12, <1>13 DEF Complete
<1>15. Sequence' = Sequence
  BY <1>2 DEF Sequence
<1>16. WriterInv'
  BY <1>0, <1>2, <1>8, <1>12, <1>13, <1>14, <1>15 DEF WriterInv
<1>17. GetInv'
  BY <1>0, <1>2 DEF GetInv
<1> QED BY <1>16, <1>17 DEF MemInv

\* Raising the maximum height changes no pointer.
LEMMA RaiseKeepsList ==
  ASSUME NEW lst, ListInv(lst), NEW h \in 1 .. kMaxHeight, NEW new, new = RaiseHeight(lst, h)
  PROVE  /\ ListInv(new) /\ new.next = lst.next /\ \A l : In(new, l) = In(lst, l)
         /\ lst.heights \subseteq new.heights
         /\ h <= GetMaxHeight(new) /\ GetMaxHeight(lst) <= GetMaxHeight(new)
<1>1. /\ GetMaxHeight(lst) \in lst.heights /\ GetMaxHeight(lst) \in 1 .. kMaxHeight
      /\ \A g \in lst.heights : g <= GetMaxHeight(lst)
  BY MaxHeight
<1>2. CASE ~(h > GetMaxHeight(lst))
  BY <1>1, <1>2 DEF RaiseHeight
<1>3. CASE h > GetMaxHeight(lst)
  <2>1. lst = [next |-> lst.next, heights |-> lst.heights]
    BY DEF ListInv
  <2>2. new = [lst EXCEPT !.heights = @ \cup {h}]
    BY <1>3 DEF RaiseHeight
  <2>3. new = [next |-> lst.next, heights |-> lst.heights \cup {h}]
    BY <2>1, <2>2
  <2>4. new.next = lst.next /\ new.heights = lst.heights \cup {h}
    BY <2>3
  <2>5. \A l : In(new, l) = In(lst, l)
    BY <2>4 DEF In
  <2>6. lst.heights \subseteq 1 .. kMaxHeight
    BY DEF ListInv
  <2>7. \A g \in new.heights : g <= h
    BY <1>1, <1>3, <2>4, <2>6
  <2>8. GetMaxHeight(new) \in new.heights /\ \A g \in new.heights : g <= GetMaxHeight(new)
    BY <2>4, <2>7 DEF GetMaxHeight
  <2>9. GetMaxHeight(new) = h
    BY <2>4, <2>6, <2>7, <2>8
  <2>10. \A l \in Level : \A n \in In(new, l) : Leads(new, n, l)
    BY <2>4, <2>5 DEF ListInv, Leads
  <2>11. \A l \in Level : l >= GetMaxHeight(new) => In(new, l) = {head_}
    BY <1>1, <1>3, <2>5, <2>9 DEF ListInv, Level
  <2>12. ListInv(new)
    BY <2>3, <2>4, <2>5, <2>6, <2>7, <2>10, <2>11 DEF ListInv
  <2> QED BY <1>1, <1>3, <2>4, <2>5, <2>9, <2>12
<1> QED BY <1>2, <1>3

\* The height of the new node.
LEMMA InsertHeightKeeps ==
  ASSUME MemInv, NEW h \in 1 .. kMaxHeight, InsertHeight(h)
  PROVE  MemInv'
<1>0. WriterInv /\ GetInv /\ ListInv(list)
  BY DEF MemInv, WriterInv
<1>1. PICK key, prev, np : key = adding.key /\ prev = adding.prev /\ np = PrevForHeight(list, prev, h)
  OBVIOUS
<1>2. /\ adding.step = "search" /\ adding.level < 0 /\ list' = RaiseHeight(list, h)
      /\ adding' = [step |-> "link", key |-> key, height |-> h, level |-> 0, prev |-> np]
      /\ added' = added /\ last_sequence' = last_sequence /\ get' = get
  BY <1>1 DEF InsertHeight
<1>3. adding # NoInsert /\ SearchInv
  BY <1>0, <1>2 DEF WriterInv, NoInsert
<1>4. /\ added # <<>> /\ key = added[Len(added)] /\ key \notin DOMAIN list.next
      /\ adding.level \in Int
      /\ \A m \in Level : adding.level < m /\ m < GetMaxHeight(list) => GoesAfter(list, prev[m], key, m)
  BY <1>1, <1>3 DEF SearchInv
<1>5. /\ ListInv(list') /\ list'.next = list.next /\ \A l : In(list', l) = In(list, l)
      /\ h <= GetMaxHeight(list')
  BY <1>0, <1>2, RaiseKeepsList
<1>6. /\ adding'.step = "link" /\ adding'.key = key /\ adding'.height = h /\ adding'.level = 0
      /\ adding'.prev = np /\ adding' # NoInsert
  BY <1>2 DEF NoInsert
<1>7. key \in Entry /\ key.seq > last_sequence
  BY <1>0, <1>1, <1>3, AddingFacts
<1>8. \A l \in 0 .. h - 1 : GoesAfter(list', np[l], key, l)
  <2> SUFFICES ASSUME NEW l \in 0 .. h - 1 PROVE GoesAfter(list', np[l], key, l)
    OBVIOUS
  <2>0. l \in Level /\ adding.level < l
    BY <1>2, <1>4, MemTableAssumption DEF Level
  <2>1. CASE l < GetMaxHeight(list)
    <3>1. np[l] = prev[l]
      BY <1>1, <2>1 DEF PrevForHeight
    <3>2. GoesAfter(list, np[l], key, l)
      BY <1>4, <2>0, <2>1, <3>1
    <3> QED BY <1>5, <3>2 DEF GoesAfter
  <2>2. CASE ~(l < GetMaxHeight(list))
    <3>1. np[l] = head_
      BY <1>1, <2>2 DEF PrevForHeight
    <3>2. GetMaxHeight(list) \in Int /\ l >= GetMaxHeight(list)
      BY <1>0, <2>2, MaxHeight
    <3>3. In(list, l) = {head_}
      BY <1>0, <2>0, <3>2 DEF ListInv
    <3>4. list.next[head_][l] = Null
      BY <1>0, <2>0, <3>3, PointerTypes, EntryFacts
    <3> QED BY <1>5, <3>1, <3>3, <3>4 DEF GoesAfter, Precedes
  <2> QED BY <2>1, <2>2
<1>9. \A l \in Level : key \notin In(list, l)
  BY <1>4 DEF In
<1>10. LinkInv'
  <2>1. adding' = [step |-> "link", key |-> adding'.key, height |-> adding'.height,
                   level |-> adding'.level, prev |-> adding'.prev]
    BY <1>2, <1>6
  <2>2. h \in 1 .. GetMaxHeight(list') /\ 0 \in 0 .. h - 1
    BY <1>5, MaxHeight
  <2>3. \A l \in Level : ~(l < 0)
    BY DEF Level
  <2> QED BY <1>2, <1>4, <1>5, <1>6, <1>8, <1>9, <2>1, <2>2, <2>3 DEF LinkInv
<1>11. Complete' = Complete
  BY <1>1, <1>2, <1>3, <1>6 DEF Complete
<1>12. Sequence' = Sequence
  BY <1>2 DEF Sequence
<1>13. WriterInv'
  BY <1>0, <1>2, <1>5, <1>6, <1>7, <1>10, <1>11, <1>12 DEF WriterInv
<1>14. GetInv'
  BY <1>0, <1>2, <1>5 DEF GetInv
<1> QED BY <1>13, <1>14 DEF MemInv

\* A level of the new node is linked.
LEMMA LinkLevelKeeps ==
  ASSUME MemInv, LinkLevel
  PROVE  MemInv'
<1>0. WriterInv /\ GetInv /\ ListInv(list)
  BY DEF MemInv, WriterInv
<1>1. PICK ins, key, h, l, prev :
        ins = adding /\ key = adding.key /\ h = adding.height /\ l = adding.level /\ prev = adding.prev
  OBVIOUS
<1>2. /\ adding.step = "link" /\ list' = Link(list, ins)
      /\ adding' = IF l + 1 = h THEN NoInsert ELSE [adding EXCEPT !.level = @ + 1]
      /\ added' = added /\ last_sequence' = last_sequence /\ get' = get
  BY <1>1 DEF LinkLevel
<1>3. adding # NoInsert /\ LinkInv
  BY <1>0, <1>2 DEF WriterInv, NoInsert
<1>4. /\ adding = [step |-> "link", key |-> key, height |-> h, level |-> l, prev |-> prev]
      /\ added # <<>> /\ key = added[Len(added)]
      /\ h \in 1 .. GetMaxHeight(list) /\ l \in 0 .. h - 1
      /\ l = 0 => key \notin DOMAIN list.next
      /\ l > 0 => key \in DOMAIN list.next /\ DOMAIN list.next[key] = 0 .. h - 1
      /\ \A m \in Level : key \in In(list, m) <=> m < l
      /\ \A m \in l .. h - 1 : GoesAfter(list, prev[m], key, m)
  BY <1>1, <1>3 DEF LinkInv
<1>5. ins.key = key /\ ins.height = h /\ ins.level = l /\ ins.prev = prev
  BY <1>1
<1>6. GetMaxHeight(list) \in 1 .. kMaxHeight
  BY <1>0, MaxHeight
<1>7. l \in Level /\ l \in Int /\ h \in Int /\ l < h /\ h \in 1 .. kMaxHeight
  BY <1>4, <1>6, MemTableAssumption DEF Level
<1>8. /\ key \in Entry /\ IsKey(key) /\ key.seq > last_sequence /\ key \in AddedSet
      /\ DistinctSeqs((DOMAIN list.next \ {head_}) \cup {key})
  BY <1>0, <1>1, <1>3, AddingFacts
<1>9. GoesAfter(list, prev[l], key, l)
  BY <1>4, <1>7
<1>10. ListInv(list') /\ GetMaxHeight(list') = GetMaxHeight(list)
  BY <1>0, <1>2, <1>4, <1>5, <1>7, <1>8, <1>9, LinkKeepsList
<1>11. LinksOne(list, ins, list')
  <2>1. prev[l] \in In(list, l)
    BY <1>9 DEF GoesAfter
  <2> QED BY <1>0, <1>2, <1>4, <1>5, <1>7, <1>8, <2>1, LinkEffect
<1>12. /\ DOMAIN list'.next = DOMAIN list.next \cup {key}
       /\ DOMAIN list'.next[key] = 0 .. h - 1
       /\ In(list', l) = In(list, l) \cup {key}
       /\ \A m \in Level : m # l => In(list', m) = In(list, m)
       /\ \A m \in Level : \A n \in In(list, m) :
            ~(m = l /\ n = prev[l]) => list'.next[n][m] = list.next[n][m]
  BY <1>5, <1>11 DEF LinksOne
<1>13. \A m \in Level : key \in In(list', m) <=> m < l + 1
  <2> SUFFICES ASSUME NEW m \in Level PROVE key \in In(list', m) <=> m < l + 1
    OBVIOUS
  <2>1. CASE m = l
    BY <1>7, <1>12, <2>1
  <2>2. CASE m # l
    BY <1>4, <1>7, <1>12, <2>2 DEF Level
  <2> QED BY <2>1, <2>2
<1>14. ASSUME l + 1 # h
       PROVE  adding' # NoInsert /\ adding'.step = "link" /\ adding'.key = key /\ LinkInv'
  <2>1. adding' = [step |-> "link", key |-> key, height |-> h, level |-> l + 1, prev |-> prev]
    BY <1>2, <1>4, <1>14
  <2>2. /\ adding'.step = "link" /\ adding'.key = key /\ adding'.height = h
        /\ adding'.level = l + 1 /\ adding'.prev = prev
    BY <2>1
  <2>3. l + 1 \in 0 .. h - 1 /\ l + 1 > 0
    BY <1>4, <1>7, <1>14
  <2>4. \A m \in l + 1 .. h - 1 : GoesAfter(list', prev[m], key, m)
    <3> SUFFICES ASSUME NEW m \in l + 1 .. h - 1 PROVE GoesAfter(list', prev[m], key, m)
      OBVIOUS
    <3>1. m \in Level /\ m # l /\ m \in l .. h - 1
      BY <1>7, MemTableAssumption DEF Level
    <3>2. GoesAfter(list, prev[m], key, m)
      BY <1>4, <3>1
    <3> QED BY <1>12, <3>1, <3>2 DEF GoesAfter
  <2>5. LinkInv'
    BY <1>2, <1>4, <1>10, <1>12, <1>13, <2>1, <2>2, <2>3, <2>4 DEF LinkInv
  <2> QED BY <2>2, <2>5 DEF NoInsert
<1>15. l + 1 = h => adding' = NoInsert
  BY <1>2
<1>16. Sequence' = Sequence
  BY <1>2 DEF Sequence
<1>17. DOMAIN list'.next \ {head_} \subseteq AddedSet
  BY <1>0, <1>8, <1>12 DEF WriterInv, AddedSet
<1>18. Complete' \subseteq DOMAIN list'.next
  <2>1. AddedSet \ {key} \subseteq DOMAIN list.next
    BY <1>0, <1>1, <1>3 DEF WriterInv, Complete, AddedSet
  <2>2. Complete' \subseteq AddedSet
    BY <1>2 DEF Complete, AddedSet
  <2> QED BY <1>12, <2>1, <2>2
<1>19. WriterInv'
  <2>1. DOMAIN list'.next \ {head_} \subseteq {added'[k] : k \in DOMAIN added'}
    BY <1>2, <1>17 DEF AddedSet
  <2> QED BY <1>0, <1>2, <1>8, <1>10, <1>14, <1>15, <1>16, <1>18, <2>1 DEF WriterInv
<1>20. GetInv'
  <2>1. \A m \in Level : In(list, m) \subseteq In(list', m)
    BY <1>12
  <2>2. 0 \in Level
    BY MemTableAssumption DEF Level
  <2>3. \A k \in In(list', 0) : k \in In(list, 0) \/ k = key
    BY <1>7, <1>12, <2>2
  <2>4. CASE get = NoGet
    BY <1>2, <2>4 DEF GetInv
  <2>5. CASE get # NoGet
    <3>1. get.seq \in Nat /\ get.seq <= last_sequence /\ get.level \in -1 .. kMaxHeight - 1
      BY <1>0, <2>5 DEF GetInv
    <3>2. ~(key.seq <= get.seq)
      BY <1>0, <1>8, <3>1 DEF IsKey, WriterInv
    <3>3. get.level >= 0 => get.level \in Level
      BY <3>1, MemTableAssumption DEF Level
    <3> QED BY <1>0, <1>2, <2>1, <2>2, <2>3, <2>5, <3>2, <3>3 DEF GetInv
  <2> QED BY <2>4, <2>5
<1> QED BY <1>19, <1>20 DEF MemInv

\* The batch is published.
LEMMA PublishKeeps ==
  ASSUME MemInv, Publish
  PROVE  MemInv'
<1>0. WriterInv /\ GetInv
  BY DEF MemInv
<1>1. /\ adding = NoInsert /\ last_sequence < Sequence /\ last_sequence' = Sequence
      /\ list' = list /\ adding' = adding /\ added' = added /\ get' = get
  BY DEF Publish
<1>2. Sequence \in Nat /\ last_sequence \in Nat
  BY <1>0 DEF WriterInv
<1>3. added # <<>>
  BY <1>1, <1>2 DEF Sequence
<1>4. Sequence' = Sequence
  BY <1>1, <1>3 DEF Sequence
<1>5. Complete' = Complete
  BY <1>1 DEF Complete
<1>6. WriterInv'
  BY <1>0, <1>1, <1>2, <1>4, <1>5 DEF WriterInv
<1>7. GetInv'
  <2>1. CASE get = NoGet
    BY <1>1, <2>1 DEF GetInv
  <2>2. CASE get # NoGet
    <3>1. get.seq \in Nat /\ get.seq <= last_sequence
      BY <1>0, <2>2 DEF GetInv
    <3>2. get.seq <= last_sequence'
      BY <1>1, <1>2, <3>1
    <3> QED BY <1>0, <1>1, <2>2, <3>2 DEF GetInv
  <2> QED BY <2>1, <2>2
<1> QED BY <1>6, <1>7 DEF MemInv

\* The writer's part of the invariant does not depend on the reader.
LEMMA ReaderKeepsWriter ==
  ASSUME WriterInv, UNCHANGED <<list, adding, added, last_sequence>>
  PROVE  WriterInv'
  BY DEF WriterInv, Complete, Sequence, SearchInv, LinkInv

\* A lookup starts at the head, at any height the list has had.
LEMMA StartGetKeeps ==
  ASSUME MemInv, NEW k \in UserKeys, NEW h \in list.heights, StartGet(k, h)
  PROVE  MemInv'
<1>0. WriterInv /\ ListInv(list) /\ last_sequence \in Nat
  BY DEF MemInv, WriterInv
<1>1. /\ get' = [key |-> k, seq |-> last_sequence, x |-> head_, level |-> h - 1, result |-> Null]
      /\ UNCHANGED <<list, adding, added, last_sequence>>
  BY DEF StartGet
<1>2. /\ get'.key = k /\ get'.seq = last_sequence /\ get'.x = head_ /\ get'.level = h - 1
      /\ get'.result = Null
  BY <1>1
<1>3. h \in 1 .. kMaxHeight
  BY <1>0 DEF ListInv
<1>4. h - 1 \in Level /\ h - 1 \in -1 .. kMaxHeight - 1 /\ ~(h - 1 < 0)
  BY <1>3, MemTableAssumption DEF Level
<1>5. head_ \in In(list, h - 1)
  BY <1>0, <1>4 DEF ListInv
<1>6. get' = [key |-> get'.key, seq |-> get'.seq, x |-> get'.x, level |-> get'.level,
              result |-> get'.result]
  BY <1>1, <1>2
<1>7. GetInv'
  BY <1>0, <1>1, <1>2, <1>4, <1>5, <1>6 DEF GetInv, Precedes
<1> QED BY <1>0, <1>1, <1>7, ReaderKeepsWriter DEF MemInv

\* A step of a lookup's search.
LEMMA GetSearchKeeps ==
  ASSUME MemInv, GetSearch
  PROVE  MemInv'
<1>0. WriterInv /\ GetInv /\ ListInv(list)
  BY DEF MemInv, WriterInv
<1>1. PICK key, seq, x, l, result :
        key = get.key /\ seq = get.seq /\ x = get.x /\ l = get.level /\ result = get.result
  OBVIOUS
<1> DEFINE next == list.next[x][l]
<1>2. /\ get # NoGet /\ l >= 0
      /\ get' = IF KeyIsAfterNode(get, next) THEN [get EXCEPT !.x = next]
                ELSE [get EXCEPT !.level = @ - 1, !.result = IF l = 0 THEN next ELSE Null]
      /\ UNCHANGED <<list, adding, added, last_sequence>>
  BY <1>1 DEF GetSearch
<1>3. /\ get = [key |-> key, seq |-> seq, x |-> x, level |-> l, result |-> result]
      /\ key \in UserKeys /\ seq \in Nat /\ seq <= last_sequence
      /\ l \in -1 .. kMaxHeight - 1 /\ x \in In(list, l) /\ Precedes(x, get)
  BY <1>0, <1>1, <1>2 DEF GetInv
<1>4. l \in Level /\ l \in Int /\ IsKey(get)
  BY <1>1, <1>2, <1>3, MemTableAssumption DEF Level, IsKey
<1>5. /\ KeyIsAfterNode(get, next) => next \in In(list, l) /\ Precedes(next, get)
      /\ ~KeyIsAfterNode(get, next) =>
           \A k \in In(list, l) : k # head_ /\ ~KeyBefore(k, get) => next # Null /\ ~KeyBefore(k, next)
      /\ ~KeyIsAfterNode(get, next) =>
           next = Null \/ (next \in In(list, l) /\ next # head_ /\ ~KeyBefore(next, get))
      /\ l > 0 => x \in In(list, l - 1)
  BY <1>0, <1>3, <1>4, SearchMove
<1> HIDE DEF next
<1>6. ASSUME NEW g, g.key = key, g.seq = seq
      PROVE  \A n : (Precedes(n, g) <=> Precedes(n, get)) /\ (KeyBefore(n, g) <=> KeyBefore(n, get))
  BY <1>1, <1>6 DEF Precedes, KeyBefore
<1>7. CASE KeyIsAfterNode(get, next)
  <2>1. get' = [key |-> key, seq |-> seq, x |-> next, level |-> l, result |-> result]
    BY <1>2, <1>3, <1>7
  <2>2. get'.key = key /\ get'.seq = seq /\ get'.x = next /\ get'.level = l /\ get'.result = result
    BY <2>1
  <2>3. Precedes(next, get')
    BY <1>5, <1>6, <1>7, <2>2
  <2>4. GetInv'
    BY <1>2, <1>3, <1>4, <1>5, <1>7, <2>1, <2>2, <2>3 DEF GetInv
  <2> QED BY <1>0, <1>2, <2>4, ReaderKeepsWriter DEF MemInv
<1>8. CASE ~KeyIsAfterNode(get, next)
  <2> DEFINE r == IF l = 0 THEN next ELSE Null
  <2>1. get' = [key |-> key, seq |-> seq, x |-> x, level |-> l - 1, result |-> r]
    BY <1>2, <1>3, <1>8
  <2>2. get'.key = key /\ get'.seq = seq /\ get'.x = x /\ get'.level = l - 1 /\ get'.result = r
    BY <2>1
  <2>3. \A n : (Precedes(n, get') <=> Precedes(n, get)) /\ (KeyBefore(n, get') <=> KeyBefore(n, get))
    BY <1>6, <2>2
  <2>4. l - 1 >= 0 => x \in In(list, l - 1) /\ Precedes(x, get')
    BY <1>3, <1>4, <1>5, <2>3
  <2>5. ASSUME l - 1 < 0
        PROVE  /\ r = Null \/ (r \in In(list, 0) /\ r # head_ /\ ~KeyBefore(r, get'))
               /\ \A k \in In(list, 0) : k # head_ /\ k.seq <= seq /\ ~KeyBefore(k, get') =>
                    r # Null /\ ~KeyBefore(k, r)
    <3>1. l = 0 /\ r = next
      BY <1>2, <1>4, <2>5
    <3> HIDE DEF r
    <3> QED BY <1>5, <1>8, <2>3, <3>1
  <2>6. l - 1 \in -1 .. kMaxHeight - 1
    BY <1>2, <1>3, MemTableAssumption
  <2> HIDE DEF r
  <2>7. get' = [key |-> get'.key, seq |-> get'.seq, x |-> get'.x, level |-> get'.level,
                result |-> get'.result]
    BY <2>1, <2>2
  <2>8. GetInv'
    BY <1>2, <1>3, <2>2, <2>4, <2>5, <2>6, <2>7 DEF GetInv
  <2> QED BY <1>0, <1>2, <2>8, ReaderKeepsWriter DEF MemInv
<1> QED BY <1>7, <1>8

\* No step of a writer or of a lookup breaks the invariant.
LEMMA MemStep == MemInv /\ [MemNext]_memvars => MemInv'
<1> SUFFICES ASSUME MemInv, [MemNext]_memvars PROVE MemInv'
  OBVIOUS
<1>1. ASSUME NEW k \in UserKeys, NEW t \in {"value", "deletion"}, StartAdd(k, t) PROVE MemInv'
  BY <1>1, StartAddKeeps
<1>2. CASE InsertSearch
  BY <1>2, InsertSearchKeeps
<1>3. ASSUME NEW h \in 1 .. kMaxHeight, InsertHeight(h) PROVE MemInv'
  BY <1>3, InsertHeightKeeps
<1>4. CASE LinkLevel
  BY <1>4, LinkLevelKeeps
<1>5. CASE Publish
  BY <1>5, PublishKeeps
<1>6. ASSUME NEW k \in UserKeys, NEW h \in list.heights, StartGet(k, h) PROVE MemInv'
  BY <1>6, StartGetKeeps
<1>7. CASE GetSearch
  BY <1>7, GetSearchKeeps
<1>8. CASE EndGet
  <2>1. get' = NoGet /\ UNCHANGED <<list, adding, added, last_sequence>>
    BY <1>8 DEF EndGet
  <2> QED BY <2>1, ReaderKeepsWriter DEF MemInv, GetInv
<1>9. CASE UNCHANGED memvars
  <2>1. get' = get /\ UNCHANGED <<list, adding, added, last_sequence>>
    BY <1>9 DEF memvars
  <2> QED BY <2>1, ReaderKeepsWriter DEF MemInv, GetInv
<1> QED BY <1>1, <1>2, <1>3, <1>4, <1>5, <1>6, <1>7, <1>8, <1>9 DEF MemNext, Write, Lookup

\* The first entry at or after (key, seq) is the newest version of the key that
\* seq can see, if it has one.
LEMMA InvFindsNewest == MemInv => GetFindsPublished
<1> SUFFICES ASSUME MemInv, get # NoGet, get.level < 0
             PROVE  (IF get.result # Null /\ get.result.key = get.key THEN get.result.seq ELSE 0)
                      = Newest(added, get.key, get.seq)
  BY DEF GetFindsPublished
<1>0. WriterInv /\ GetInv /\ ListInv(list)
  BY DEF MemInv, WriterInv
<1>1. PICK key, seq, r : key = get.key /\ seq = get.seq /\ r = get.result
  OBVIOUS
<1>2. /\ key \in UserKeys /\ seq \in Nat /\ seq <= last_sequence
      /\ r = Null \/ (r \in In(list, 0) /\ r # head_ /\ ~KeyBefore(r, get))
      /\ \A k \in In(list, 0) : k # head_ /\ k.seq <= seq /\ ~KeyBefore(k, get) =>
           r # Null /\ ~KeyBefore(k, r)
  BY <1>0, <1>1 DEF GetInv
<1>3. key \in Nat /\ IsKey(get)
  BY <1>1, <1>2, MemTableAssumption DEF IsKey
<1>4. /\ Len(added) \in Nat /\ DOMAIN added = 1 .. Len(added)
      /\ AddedSet \subseteq Entry /\ DistinctSeqs(AddedSet)
  BY <1>0, AddedFacts
<1> DEFINE seen == {i \in DOMAIN added : added[i].key = key /\ added[i].seq <= seq}
<1>5. ASSUME NEW i \in seen
      PROVE  /\ added[i] \in Entry /\ IsKey(added[i]) /\ added[i].key = key /\ added[i].seq <= seq
             /\ r # Null /\ ~KeyBefore(added[i], r)
  <2>1. added[i] \in AddedSet /\ added[i] \in Entry
    BY <1>4 DEF AddedSet
  <2>2. IsKey(added[i]) /\ added[i] # head_
    BY <2>1, EntryFacts
  <2>3. adding # NoInsert => added[i] # adding.key
    <3>1. adding # NoInsert => adding.key.seq > last_sequence /\ IsKey(adding.key)
      BY <1>0, AddingFacts
    <3> QED BY <1>0, <1>2, <2>2, <3>1 DEF IsKey, WriterInv
  <2>4. added[i] \in Complete
    BY <2>1, <2>3 DEF Complete, AddedSet
  <2>5. added[i] \in In(list, 0)
    BY <1>0, <2>4 DEF WriterInv, ListInv
  <2>6. ~KeyBefore(added[i], get)
    BY <1>1, <1>2, <2>2 DEF KeyBefore, IsKey
  <2> QED BY <1>2, <2>1, <2>2, <2>5, <2>6
<1>6. ASSUME r # Null
      PROVE  IsKey(r) /\ r \in AddedSet /\ ~KeyBefore(r, get)
  <2>1. 0 \in Level
    BY MemTableAssumption DEF Level
  <2>2. r \in DOMAIN list.next /\ IsKey(r) /\ r # head_
    BY <1>0, <1>2, <1>6, <2>1, PointerTypes
  <2>3. r \in AddedSet
    BY <1>0, <2>2 DEF WriterInv, AddedSet
  <2> QED BY <1>2, <1>6, <2>2, <2>3
<1>7. CASE r # Null /\ r.key = key
  <2>1. PICK i \in DOMAIN added : added[i] = r
    BY <1>6, <1>7 DEF AddedSet
  <2>2. r.seq <= seq /\ r.seq \in Nat
    BY <1>1, <1>2, <1>3, <1>6, <1>7 DEF KeyBefore, IsKey
  <2>3. i \in seen
    BY <1>7, <2>1, <2>2
  <2>4. ASSUME NEW j \in seen PROVE j <= i
    <3>1. added[j].key = key /\ ~KeyBefore(added[j], r) /\ IsKey(added[j])
      BY <1>5
    <3>2. added[j].seq <= r.seq
      BY <1>3, <1>7, <2>2, <3>1 DEF KeyBefore, IsKey
    <3>3. ~(i < j)
      BY <1>0, <2>1, <2>2, <3>1, <3>2 DEF WriterInv, IsKey
    <3> QED BY <1>4, <3>3
  <2>5. (CHOOSE k \in seen : \A j \in seen : j <= k) = i
    <3> DEFINE c == CHOOSE k \in seen : \A j \in seen : j <= k
    <3>1. c \in seen /\ \A j \in seen : j <= c
      BY <2>3, <2>4
    <3> HIDE DEF c
    <3>2. c <= i /\ i <= c /\ c \in Int /\ i \in Int
      BY <1>4, <2>3, <2>4, <3>1
    <3>3. c = i
      BY <3>2
    <3> QED BY <3>3 DEF c
  <2>6. Newest(added, key, seq) = r.seq
    BY <2>1, <2>3, <2>5 DEF Newest
  <2> QED BY <1>1, <1>7, <2>6
<1>8. CASE ~(r # Null /\ r.key = key)
  <2>1. seen = {}
    <3> SUFFICES ASSUME NEW i \in seen PROVE FALSE
      OBVIOUS
    <3>1. added[i].key = key /\ r # Null /\ ~KeyBefore(added[i], r) /\ IsKey(added[i])
      BY <1>5
    <3>2. r.key # key /\ IsKey(r) /\ ~KeyBefore(r, get)
      BY <1>6, <1>8, <3>1
    <3> QED BY <1>1, <1>3, <3>1, <3>2 DEF KeyBefore, IsKey
  <2>2. Newest(added, key, seq) = 0
    BY <2>1 DEF Newest
  <2> QED BY <1>1, <1>8, <2>2
<1> QED BY <1>7, <1>8

\* For every maximum height, set of keys, number of entries and way of drawing
\* heights: a lookup that runs beside SkipList::Insert, with a maximum height
\* that may be stale, returns the newest version of its key that had been
\* published when it started, and nothing if there was none.
THEOREM LookupsFindPublished == MemSpec => []GetFindsPublished
  BY MemInitInv, MemStep, InvFindsNewest, PTL DEF MemSpec

\* The pointer a search is about to read has been written: a reader that sees a
\* new node on one level, and goes down, meets no uninitialized pointer of it
\* (SkipList::Insert links from the bottom up).
ReadsInitialized ==
  /\ adding # NoInsert /\ adding.step = "search" /\ adding.level >= 0 =>
       list.next[adding.x][adding.level] # Uninitialized
  /\ get # NoGet /\ get.level >= 0 => list.next[get.x][get.level] # Uninitialized

\* No search, of a lookup or of Insert, reads an uninitialized pointer.
THEOREM SearchesReadInitialized == MemSpec => []ReadsInitialized
<1>1. MemInv => ReadsInitialized
  <2> SUFFICES ASSUME MemInv PROVE ReadsInitialized
    OBVIOUS
  <2>1. ASSUME adding # NoInsert, adding.step = "search", adding.level >= 0
        PROVE  list.next[adding.x][adding.level] # Uninitialized
    <3>1. SearchInv
      BY <2>1 DEF MemInv, WriterInv
    <3> QED BY <2>1, <3>1 DEF SearchInv, In
  <2>2. ASSUME get # NoGet, get.level >= 0
        PROVE  list.next[get.x][get.level] # Uninitialized
    BY <2>2 DEF MemInv, GetInv, In
  <2> QED BY <2>1, <2>2 DEF ReadsInitialized
<1> QED BY <1>1, MemInitInv, MemStep, PTL DEF MemSpec

=============================================================================
