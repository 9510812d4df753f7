SPECIFICATION Spec
CONSTANTS
    None = None
    At <- OneSlot
    AutoRestartAt = 26
    RestartBeforeClean = TRUE
    Lead = 20
    LeadWindow = 2
    Window = 12
    Grace = 4
    BootTimeout = 4
    End = 44
    CutsPower = FALSE
    MaxSlow = 0
    MaxFaults = 0
PROPERTY RestartsIdleRobot
CHECK_DEADLOCK FALSE
