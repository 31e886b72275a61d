SPECIFICATION FairSpec
CONSTANTS
    Fiber = {f1, f2, f3}
    Event = {e1}
    Worker = {w1, w2}
    Loop = {l1}
    None = None
    KeepAlive = FALSE
    CallbackMode = TRUE
    Again = FALSE
    InitCapacity = 1
    MaxRequests = 1
CHECK_DEADLOCK FALSE
PROPERTY CallbackCalled
