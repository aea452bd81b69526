SPECIFICATION RetentionSpec
CONSTANTS
    Tasks = {t1, t2, t3}
    Watchers = {}
    MaxTasks = 2
    MaxAge = 3
    Second = 2
    MaxClock = 5
SYMMETRY TaskSymmetry
PROPERTY
    Retention
CHECK_DEADLOCK FALSE
