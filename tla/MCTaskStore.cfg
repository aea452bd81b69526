SPECIFICATION WatchedSpec
CONSTANTS
    Tasks = {t1, t2}
    Watchers = {w1}
    MaxTasks = 1
    MaxAge = 1
    Second = 2
    MaxClock = 0
INVARIANTS
    ReportIsTheOutcome
    BooksAgree
    CanceledIsInterrupted
    ShutdownWaitsForCounted
    LateWatcherSeesOutcome
PROPERTIES
    TerminalIsFinal
    InterruptedTasksEnd
CHECK_DEADLOCK FALSE
