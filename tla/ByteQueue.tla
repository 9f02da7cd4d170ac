------------------------------ MODULE ByteQueue ------------------------------
(***************************************************************************)
(* What RingBuf promises: a bounded first-in first-out queue of bytes.     *)
(* put appends the string it is given or refuses it, pick_event removes a  *)
(* prefix (the event it builds is the business of EventStream), reset      *)
(* empties. The argument and the result of a call are visible.             *)
(***************************************************************************)
EXTENDS Integers, Sequences

CONSTANTS Byte,     \* the bytes
          Capacity, \* the longest content
          Longest   \* bound: the longest string given to put

VARIABLES bytes,
          call,    \* the last call made
          given,   \* the string it was made with, <<>> but for put
          result   \* what the last call of put or pick_event returned

Init == bytes = <<>> /\ call = "none" /\ given = <<>> /\ result = FALSE

\* The string is appended if it fits, and refused if it does not.
Put(s) ==
    /\ call' = "put" /\ given' = s
    /\ \/ /\ Len(bytes) + Len(s) <= Capacity
          /\ bytes' = bytes \o s
          /\ result' = TRUE
       \/ /\ Len(bytes) + Len(s) > Capacity
          /\ UNCHANGED bytes
          /\ result' = FALSE

\* Bytes of an event, or of something that is not one, are removed.
Remove(n) ==
    /\ call' = "pick_event" /\ given' = <<>>
    /\ result' \in BOOLEAN
    /\ n <= Len(bytes)
    /\ bytes' = SubSeq(bytes, n + 1, Len(bytes))

Fail ==
    /\ call' = "pick_event" /\ given' = <<>>
    /\ result' = FALSE
    /\ UNCHANGED bytes

Clear ==
    /\ call' = "reset" /\ given' = <<>>
    /\ bytes' = <<>>
    /\ UNCHANGED result

Next ==
    \/ \E n \in 0 .. Longest : \E s \in [1 .. n -> Byte] : Put(s)
    \/ \E n \in 3 .. Capacity : Remove(n)
    \/ Fail
    \/ Clear

Spec == Init /\ [][Next]_<<bytes, call, given, result>>
=============================================================================
