-------------------------- MODULE MCWormholePolicy -------------------------
(***************************************************************************)
(* Buckets of two tags and a reach of two: a key listed four times fills   *)
(* every slot in its reach, as one listed 64 times does with four tags and *)
(* a reach of sixteen.                                                     *)
(***************************************************************************)
EXTENDS WormholePolicy

\* Hashes: the home bucket is the remainder by the table size of the low half,
\* the fingerprint comes from the high half (0 is stored as 1).
MCKeys == {0, 2 * HalfWord, 1 + 2 * HalfWord, 3 + HalfWord}

=============================================================================
