SPECIFICATION Spec
CONSTANTS
    t1 = t1
    t2 = t2
    Thread = {t1, t2}
    Size <- TwoAndThree
    M = 12
    DataType = {String, Int}
    DataValue = {v1}
    MaxSends = 3
    MaxFailures = 2
    NoThread = NoThread
    None = None
    NoValue = NoValue
INVARIANTS
    ConnectionTypeOK
    CountLaw
    FramesWhole
CHECK_DEADLOCK FALSE
