SPECIFICATION Spec
CONSTANTS
    None = None
    QueueMax = 4
    Moves <- ForwardOnly
    Contacts = {}
    MaxCalls = 3
    Faults = FALSE
    SlowLine = FALSE
PROPERTY MotorsOffBeforeTestMode
CHECK_DEADLOCK FALSE
