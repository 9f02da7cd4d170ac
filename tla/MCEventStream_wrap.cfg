SPECIFICATION Spec
CONSTANTS
    Size = 8
    Byte <- SmallBytes
    Garbage = {0, 7}
    Packets <- BytePackets
    MaxPut = 3
    Frames <- GoodFrames
    Chunk = 3
    MaxFrames = 3
INVARIANTS
    MessagesArrive
CHECK_DEADLOCK FALSE
