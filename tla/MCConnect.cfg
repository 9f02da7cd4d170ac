SPECIFICATION Spec
CONSTANTS
    Thread = {t1, t2}
    Fd = {3, 4, 5}
    MaxAddresses = 2
    MaxCalls = 2
    NoThread = NoThread
SYMMETRY Threads
INVARIANTS
    ConnectTypeOK
    StraysCounted
    ClosesOwn
    ConnectedUsable
    ListsFreed
CHECK_DEADLOCK FALSE
