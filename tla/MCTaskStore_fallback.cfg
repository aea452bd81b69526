SPECIFICATION WatchedSpec
CONSTANTS
    Tasks = {t1}
    Watchers = {w1}
    MaxTasks = 1
    MaxAge = 1
    Second = 2
    MaxClock = 0
INVARIANT
    FallbackIsTerminal
CHECK_DEADLOCK FALSE
