SPECIFICATION Spec
CONSTANTS
    Fd = {1, 2}
    FdSetSize = 4
    MaxEvents = 2
    Backends = {"epoll"}
    Peer = {p1}
    Client = {}
    MaxMessages = 1
    MaxFailures = 1
    MaxDisconnects = 1
    Server = Server
    App = App
    Free = Free
    NoOne = NoOne
INVARIANTS
    ServerDisconnects
CHECK_DEADLOCK FALSE
