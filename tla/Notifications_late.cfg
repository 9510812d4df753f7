SPECIFICATION Spec
CONSTANTS
    MaxCleans = 2
    MaxPauses = 1
    MaxOutages = 1
    Active = 1
    Idle = 3
    DoneTimeout = 2
    MinClean = 5
    LateError = TRUE
INVARIANT ToldOnce
CHECK_DEADLOCK FALSE
