SPECIFICATION FairSpec
CONSTANTS
    None = None
    QueueMax = 3
    Moves <- Straight
    Contacts = {"frontLeft", "lifted"}
    MaxCalls = 3
    Faults = TRUE
    SlowLine = TRUE
INVARIANT ModeMatchesRobot
INVARIANT ContactStops
INVARIANT MotionIsWatched
INVARIANT NeverTrapped
PROPERTY TransitionsEnd
CHECK_DEADLOCK FALSE
