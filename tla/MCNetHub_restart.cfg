SPECIFICATION RestartSpec
CONSTANTS
    Clients = {a}
    Topics = {x}
    Wanted = {}
    RingSize = 2
    ChanCap = 1
    WireCap = 1
    MaxEvents = 2
    MaxConns = 2
    MaxRestarts = 1
PROPERTIES
    DiscardsOnlyDuplicates
CHECK_DEADLOCK FALSE
