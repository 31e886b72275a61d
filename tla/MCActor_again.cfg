SPECIFICATION Spec
CONSTANTS
    Fiber = {f1}
    Event = {e1}
    Worker = {w1, w2}
    Loop = {l1, l2}
    None = None
    KeepAlive = TRUE
    CallbackMode = FALSE
    Again = TRUE
    InitCapacity = 1
    MaxRequests = 1
CHECK_DEADLOCK FALSE
INVARIANT YieldAssert
