SPECIFICATION Spec
CONSTANTS
    None = None
    QueueMax = 4
    Moves <- AndPivot
    Contacts = {}
    MaxCalls = 4
    Faults = FALSE
    SlowLine = FALSE
INVARIANT StallBlocksUntilReversed
CHECK_DEADLOCK FALSE
