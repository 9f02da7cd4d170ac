----------------------------- MODULE MCLifecycle -----------------------------
(* Small instances of Lifecycle for TLC. *)
EXTENDS Lifecycle, TLC

\* The peers are interchangeable.
Peers == Permutations(Peer)
=============================================================================
