SPECIFICATION RingSpec
CONSTANTS
    Size = 4
    Byte = {0, 4}
    Garbage = {0, 4}
    Packets <- SmallPackets
    MaxPut = 5
INVARIANTS
    RingTypeOK
PROPERTIES
    FirstInFirstOut
