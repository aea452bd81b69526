SPECIFICATION FairSpec
CONSTANTS
    Clients = {a}
    Topics = {x}
    Wanted = {}
    RingSize = 2
    ChanCap = 1
    WireCap = 1
    MaxEvents = 4
    MaxConns = 2
    MaxRestarts = 0
PROPERTIES
    DeliversInIDOrder
CHECK_DEADLOCK FALSE
