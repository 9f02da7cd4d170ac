---------------------------- MODULE MCEventStream ----------------------------
(***************************************************************************)
(* Small instances of EventStream for TLC: frames of short event names,    *)
(* with an empty packet or with one item of a byte.                        *)
(***************************************************************************)
EXTENDS EventStream

\* The letters of names are 7 and 8; 1 and 5 are the tags of the items of a byte.
SmallBytes == {0, 1, 3, 4, 5, 6, 7, 8}

BytePackets == {<<>>} \cup {<<t, v>> : t \in {1, 5}, v \in Byte}

EmptyFrame == Pack(<<>>, <<>>)
ShortFrame == Pack(<<7>>, <<>>)
LongFrame  == Pack(<<8>>, <<5, 1>>)

GoodFrames == {EmptyFrame, ShortFrame, LongFrame}

\* The hypothesis of the theorem NoneWaits.
ASSUME GoodFramesWellFormed == \A f \in GoodFrames : WellFormed(f)

\* The tag 6 announces more data than there is.
InvalidFrame == Pack(<<7>>, <<6>>)
AnyFrames    == {ShortFrame, InvalidFrame}
=============================================================================
