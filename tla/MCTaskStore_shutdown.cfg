SPECIFICATION Spec
CONSTANTS
    Tasks = {t1}
    MaxTasks = 1
    MaxAge = 1
    Second = 2
    MaxClock = 0
INVARIANT
    ShutdownDrains
CHECK_DEADLOCK FALSE
