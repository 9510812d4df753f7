SPECIFICATION CFairSpec
CONSTANTS
    None = None
    Reader = {c1, c2, c3}
    MaxSource = 2
INVARIANT AnsweredOnce
INVARIANT MonotonicReads
PROPERTY GetAnswered
CHECK_DEADLOCK FALSE
