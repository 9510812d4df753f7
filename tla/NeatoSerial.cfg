SPECIFICATION FairSpec
CONSTANTS
    r1 = r1
    r2 = r2
    r3 = r3
    None = None
    Req = {r1, r2, r3}
    OpOf <- ServiceOps
    QueueMax = 2
    LateReplies = TRUE
INVARIANT ExactlyOnce
INVARIANT OkMeansEchoed
PROPERTY MostUrgentFirst
PROPERTY ImplementsService
PROPERTY EveryCallAnswered
CHECK_DEADLOCK FALSE
