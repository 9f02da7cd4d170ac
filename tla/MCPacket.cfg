SPECIFICATION Spec
CONSTANTS
    Byte = {0, 1, 2, 32, 64, 130}
    Garbage = {0, 1, 32, 64}
    Items <- SmallItems
    Wants <- SmallWants
    Hosts <- MixedHosts
    MaxArray = 2
    MaxItems = 3
    MaxSize = 5
INVARIANTS
    PacketTypeOK
    ValidityExact
    WrittenValid
    ReadBack
    ReaderInside
CHECK_DEADLOCK FALSE
