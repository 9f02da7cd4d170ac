SPECIFICATION Spec
CONSTANTS
    NNames = 1
    NConsumers = 2
    Slots <- FirstBinds1
    EmptySlots = {}
    OnEvent = 2
    OnServerDisconnect = 0
    OnDisconnect = 2
    Internal = {c1}
    External = {}
    Server = {s1}
    MaxQueueSize = 1
    CrashOnUB = TRUE
    MaxReceived = 3
    MaxDisconnects = 2
INVARIANTS
    TypeOK
    InOrder
    OneFate
    NoLostWakeup
    OwnerHandles
    DrainedAtJoin
    AnnouncedOnce
PROPERTY ImplementsBus
CHECK_DEADLOCK FALSE
