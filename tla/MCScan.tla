------------------------------- MODULE MCScan -------------------------------
(* TLC instance of Scan. *)
EXTENDS Scan

Put(k) == <<k, "value">>
Del(k) == <<k, "deletion">>

MCMaxBytes == [l \in 1 .. NumLevels - 1 |-> 1]

MCHistory ==
  LET writes == <<Put(1), Put(2), Put(3), Del(2), Put(1)>>
  IN [i \in DOMAIN writes |-> [key |-> writes[i][1], seq |-> i, type |-> writes[i][2]]]

MCAdded == <<{Put(2), Del(3)}, {Put(1), Del(3)}>>

Chunks(s, n) == [i \in 1 .. (Len(s) + n - 1) \div n |-> SubSeq(s, (i - 1) * n + 1, IF i * n < Len(s) THEN i * n ELSE Len(s))]

\* Blocks of two entries, both of them restart points or only the first.
Block(entries, interval, ok) ==
  [kind |-> "block", entries |-> IF ok THEN entries ELSE <<>>, ok |-> ok,
   restarts |-> IF ok THEN SelectSeq([i \in DOMAIN entries |-> i], LAMBDA i : (i - 1) % interval = 0) ELSE <<1>>]

\* An index key is the last of its block, or the first internal key of the
\* next user key, if the next block starts behind that.
Table(entries, size, interval, bad) ==
  LET parts == Chunks(entries, size)
      Sep(i) == LET l == Last(parts[i])
                IN IF i = Len(parts) \/ parts[i + 1][1].key > l.key + 1 THEN SeekKey(l.key + 1)
                   ELSE [key |-> l.key, seq |-> l.seq]
  IN TwoLevel(Block([i \in DOMAIN parts |-> Sep(i)], 1, bad # -1),
              [i \in DOMAIN parts |-> Block(parts[i], interval, bad # i)])

File(n, entries, size, interval, bad) ==
  [number |-> n, smallest |-> entries[1], largest |-> Last(entries),
   file_size |-> Len(entries), table |-> Table(entries, size, interval, bad)]

FullInsert(l, e, h) ==
  LET ins == [key |-> e, height |-> h, prev |-> PrevForHeight(l, FindPrev(l, e), h)]
  IN FoldLeft(LAMBDA acc, i : Link(acc, ins @@ [level |-> i - 1]), RaiseHeight(l, h), [i \in 1 .. h |-> i])

\* The first a entries of the history are in level 1, the next ones up to b in
\* level 0, the others in imm_; bad names a block of the first file of level 1.
Content(a, b, size, interval, bad) ==
  LET Sorted(i, j) == SortedBy({MCHistory[x] : x \in i .. j}, Less)
      level1 == Chunks(Sorted(1, a), 2)
      imm    == Sorted(b + 1, Len(MCHistory))
  IN [history |-> MCHistory,
      files |-> [l \in Levels |->
        CASE l = 0 /\ a < b -> <<File(10, Sorted(a + 1, b), size, interval, 0)>>
          [] l = 1 -> [i \in DOMAIN level1 |-> File(i, level1[i], size, interval, IF i = 1 THEN bad ELSE 0)]
          [] OTHER -> <<>>],
      imm |-> IF imm = <<>> THEN <<>>
              ELSE <<FoldLeft(LAMBDA acc, e : FullInsert(acc, e, 1 + (e.seq % 2)), NewList(kMaxHeight), imm)>>]

MCContents ==
  {Content(a, b, f, f, 0) : a \in {0, 3, 4}, b \in {4, 5}, f \in {1, 2}}
    \cup {Content(3, b, 2, 1, 0) : b \in {4, 5}}
    \cup {Content(5, 5, 1, 1, bad) : bad \in {1, 2, -1}} \cup {Content(3, 5, 1, 1, 1)}

=============================================================================
