--------------------------- MODULE MCCompactions ---------------------------
(* TLC instances of Compactions. *)
EXTENDS Compactions

\* Every level below the last holds one file before it is too large.
MCMaxBytes == [l \in 1 .. NumLevels - 1 |-> IF l = 1 THEN 2 ELSE 4]

MCRanges == {<<l, NoKey, NoKey>> : l \in {0, 1}}

Put(k) == <<k, "value">>
Del(k) == <<k, "deletion">>

MCLoaded == [k \in 1 .. 3 |-> [key |-> k, seq |-> k, type |-> "value"]]
NothingLoaded == <<>>

\* The versions of key 2 end up in three levels, with 1 and 3 around them.
MCWrites == <<{Put(2)}, {Del(2)}, {Put(3), Put(2)}>>

\* Keys 1 and 3 in two levels each, and nothing between them before the end.
GapWrites == <<{Put(1)}, {Put(3)}, {Put(1)}, {Put(3)}, {Put(2)}>>

=============================================================================
