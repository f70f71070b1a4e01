--------------------------- MODULE MCEnvironment ---------------------------
(***************************************************************************)
(* Tables 0 and 1 fall in one shard of the table cache, whose hash table   *)
(* starts with one bucket and has to grow; the file of table 1 has the old *)
(* name and compressed blocks.  Process p1 has two databases, process p2   *)
(* one; the second database of p1 is opened on either of two directories.  *)
(***************************************************************************)
EXTENDS Environment

CONSTANTS d1, d2, d3, p1, p2, dir1, dir2

MCProcessOf(d) == IF d = d3 THEN p2 ELSE p1

MCDirectoriesOf(d) == IF d = d2 THEN {dir1, dir2} ELSE {dir1}

\* A sound table, a damaged one of which two entries can be read, and a log.
MCInitialTables ==
  2 :> [entries |-> {1}, sound |-> TRUE] @@ 5 :> [entries |-> {2, 4}, sound |-> FALSE]

MCInitialLogs == 3 :> [entries |-> {3}, sound |-> TRUE]

=============================================================================
