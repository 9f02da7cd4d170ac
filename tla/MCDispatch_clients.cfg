SPECIFICATION Spec
CONSTANTS
    NNames = 0
    NConsumers = 1
    Slots <- NoneBound
    EmptySlots = {}
    OnEvent = 0
    OnServerDisconnect = 0
    OnDisconnect = 1
    Internal = {}
    External = {e1, e2, e3}
    Server = {}
    MaxQueueSize = 1
    CrashOnUB = FALSE
    MaxReceived = 0
    MaxDisconnects = 2
SYMMETRY Clients
INVARIANTS
    ExternalAnnounced
    DisconnectedLimit
