------------------------------ MODULE MCDBImpl ------------------------------
(* TLC instances of DBImpl. *)
EXTENDS DBImpl

\* The threads are interchangeable.
Symmetry == Permutations(Threads)
=============================================================================
