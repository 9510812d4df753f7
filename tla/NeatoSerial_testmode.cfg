SPECIFICATION Spec
CONSTANTS
    r1 = r1
    r2 = r2
    r3 = r3
    None = None
    Req = {r1, r2, r3}
    OpOf <- DriveOps
    QueueMax = 2
    LateReplies = FALSE
PROPERTY TestModeBeforeMotors
CHECK_DEADLOCK FALSE
