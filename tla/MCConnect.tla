------------------------------ MODULE MCConnect ------------------------------
(* Small instances of Connect for TLC. *)
EXTENDS Connect, TLC

\* The threads are interchangeable.
Threads == Permutations(Thread)
=============================================================================
