SPECIFICATION FairSpec
CONSTANTS
    Fiber = {f1, f2, f3, f4, f5, f6}
    Event = {e1, e2}
    Worker = {w1, w2}
    Loop = {l1}
    None = None
    KeepAlive = FALSE
    CallbackMode = TRUE
    Again = FALSE
    InitCapacity = 1
    MaxRequests = 2
CHECK_DEADLOCK FALSE
PROPERTY Answered
