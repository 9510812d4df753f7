SPECIFICATION Spec
CONSTANTS
    poll = poll
    lift = lift
    get = get
    stop = stop
    None = None
    LoopCmds = {poll, lift}
    WebCmds = {get, stop}
    Priority <- Urgency
    QueueMax = 2
INVARIANT SentExactlyOnce
CHECK_DEADLOCK FALSE
