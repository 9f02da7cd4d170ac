------------------------------ MODULE MCRingBuf ------------------------------
(* Small instances of RingBuf for TLC. *)
EXTENDS RingBuf

\* The empty packet, and an Int8: the tag 1 and a byte.
SmallPackets == {<<>>} \cup {<<1, v>> : v \in Byte}
=============================================================================
