SPECIFICATION FairSpec
CONSTANTS
    Clients = {a}
    Topics = {x, y}
    Wanted = {x}
    RingSize = 1
    ChanCap = 1
    WireCap = 1
    MaxEvents = 3
    MaxConns = 2
    MaxRestarts = 0
INVARIANTS
    CrossesOnce
    HeardInOrder
    OnlyExcusedAreMissed
PROPERTIES
    EventuallyHeard
    ShutdownEndsStreams
CHECK_DEADLOCK FALSE
