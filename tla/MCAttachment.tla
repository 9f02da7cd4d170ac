----------------------------- MODULE MCAttachment -----------------------------
(* Small instances of Attachment for TLC. *)
EXTENDS Attachment, TLC

\* Threads, listeners and consumers are interchangeable.
Alike == Permutations(User) \cup Permutations(Listener) \cup Permutations(Consumer)
=============================================================================
