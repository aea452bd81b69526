SPECIFICATION FairSpec
CONSTANTS
    Subs = {s1, s2}
    MaxBuf = 2
    ChanCap = 2
    MaxDeltas = 2
INVARIANTS
    Gapless
    NothingMissed
    ClosedStreamIsComplete
    AnswerIsWhole
PROPERTIES
    SummaryAfterCloseIsFinal
    SubscribersReturn
    ImplementsFeed
CHECK_DEADLOCK FALSE
