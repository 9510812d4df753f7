SPECIFICATION Spec
CONSTANTS
    None = None
    At <- SoonSlot
    AutoRestartAt = 26
    RestartBeforeClean = TRUE
    Lead = 20
    LeadWindow = 2
    Window = 12
    Grace = 4
    BootTimeout = 4
    End = 24
    CutsPower = TRUE
    MaxSlow = 0
    MaxFaults = 0
INVARIANT RestartedOnce
CHECK_DEADLOCK FALSE
