----------------------------- MODULE MCConnection -----------------------------
(* Small instances of Connection for TLC: the lengths of the frames. *)
EXTENDS Connection, TLC

CONSTANTS t1, t2

\* One thread sends frames of two bytes, the other frames of three.
TwoAndThree == (t1 :> 2) @@ (t2 :> 3)
=============================================================================
