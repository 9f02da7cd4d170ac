------------------------------- MODULE MCPacket -------------------------------
(* Small instances of Packet for TLC. *)
EXTENDS Packet

Int8(v)     == [type |-> 1, value |-> <<v>>]
Int64(s)    == [type |-> 4, value |-> s]
Float(s)    == [type |-> 16, value |-> s]
Text(s)     == [type |-> String, value |-> s]
Int8s(s)    == [type |-> 129, value |-> s]
Int16s(s)   == [type |-> 130, value |-> s]

\* Numbers, strings, arrays (one of them too long), objects with one and two
\* fields, in an object, with a field that is too long, without a field.
SmallItems ==
    { <<Int8(0)>>, <<Int64(<<1, 2, 3, 4, 5, 6, 7, 64>>)>>, <<Text(<<>>)>>, <<Text(<<1, 32>>)>>,
      <<Int8s(<<>>)>>, <<Int8s(<<0, 2>>)>>, <<Int16s(<<1, 0>>)>>, <<Int8s(<<1, 1, 1>>)>>,
      ObjectOf(<< <<Float(<<2, 0, 1, 32>>)>> >>), ObjectOf(<< <<Int8(0)>>, <<Text(<<1>>)>> >>),
      ObjectOf(<< ObjectOf(<< <<Int8(1)>> >>) >>),
      ObjectOf(<< <<Int8(1)>>, <<Int8s(<<1, 1, 1>>)>> >>), ObjectOf(<<>>) }

\* Each host in each of the two orders, and the orders differ.
MixedHosts == {h \in [writer : {"little", "big"}, reader : {"little", "big"}] : h.writer # h.reader}

Want(types) == [types |-> types, length |-> 0]
Header(n)   == [types |-> {Object}, length |-> n]

\* A char is read from an Int8 or an UInt8.
SmallWants ==
    { <<Want({1, 5})>>, <<Want({1})>>, <<Want({4})>>, <<Want({String})>>,
      <<Want({129, 133})>>, <<Want({130})>>,
      <<Header(1), Want({16})>>, <<Header(2), Want({1}), Want({String})>>,
      <<Header(1), Header(1), Want({1})>> }
=============================================================================
