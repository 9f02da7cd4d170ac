SPECIFICATION FairSpec
CONSTANTS
    NNames = 1
    NConsumers = 2
    Slots <- TwoBindNone
    EmptySlots = {}
    OnEvent = 2
    OnServerDisconnect = 2
    OnDisconnect = 1
    Internal = {c1}
    External = {}
    Server = {s1}
    MaxQueueSize = 0
    CrashOnUB = FALSE
    MaxReceived = 1
    MaxDisconnects = 1
PROPERTIES
    QueuesServed
    JoinReturns
