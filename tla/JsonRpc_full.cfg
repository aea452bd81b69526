SPECIFICATION RpcSpec
CONSTANTS
    NCalls = 2
    Notes = {2}
    Stubborn = {1}
    Slots = 1
    Pipe = 1
    MaxNoise = 0
PROPERTY
    ServeReturns
CHECK_DEADLOCK FALSE
