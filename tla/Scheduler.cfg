SPECIFICATION Spec
CONSTANTS
    None = None
    At <- TwoSlots
    AutoRestartAt = 26
    RestartBeforeClean = TRUE
    Lead = 20
    LeadWindow = 2
    Window = 12
    Grace = 4
    BootTimeout = 4
    End = 80
    CutsPower = FALSE
    MaxSlow = 2
    MaxFaults = 2
INVARIANT CleanedOnce
INVARIANT RestartsBeforeClean
INVARIANT SlotNotLost
PROPERTY SkippedIsNotCleaned
CHECK_DEADLOCK FALSE
