SPECIFICATION Spec
CONSTANTS
    Subs = {s1}
    MaxBuf = 4
    ChanCap = 2
    MaxDeltas = 4
INVARIANT
    EndedStreamIsFinal
CHECK_DEADLOCK FALSE
