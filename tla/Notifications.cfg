SPECIFICATION Spec
CONSTANTS
    MaxCleans = 2
    MaxPauses = 2
    MaxOutages = 1
    Active = 1
    Idle = 3
    DoneTimeout = 2
    MinClean = 5
    LateError = FALSE
INVARIANT ToldOnce
INVARIANT StatsAreOfThatClean
PROPERTY DoneIsTold
CHECK_DEADLOCK FALSE
