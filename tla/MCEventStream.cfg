SPECIFICATION Spec
CONSTANTS
    Size = 11
    Byte <- SmallBytes
    Garbage = {0, 7}
    Packets <- BytePackets
    MaxPut = 6
    Frames <- GoodFrames
    Chunk = 6
    MaxFrames = 6
INVARIANTS
    FramingKept
    EventsIntact
    NoneLeftBehind
CHECK_DEADLOCK FALSE
