SPECIFICATION Spec
CONSTANTS
    Fd = {1, 2, 3}
    FdSetSize = 3
    MaxEvents = 2
    Backends = {"epoll", "select", "wsapoll"}
    Peer = {p1, p2}
    Client = {c1}
    MaxMessages = 1
    MaxFailures = 1
    MaxDisconnects = 1
    Server = Server
    App = App
    Free = Free
    NoOne = NoOne
SYMMETRY Peers
INVARIANTS
    LifecycleTypeOK
    ClosedOnce
    NothingStranded
    OnlyWhenDisturbed
    StopsExplained
    
CHECK_DEADLOCK FALSE
