SPECIFICATION Spec
CONSTANTS
    Fiber = {f1, f2}
    Event = {e1, e2, e3}
    Worker = {w1, w2}
    Loop = {l1, l2}
    None = None
    KeepAlive = TRUE
    CallbackMode = FALSE
    Again = FALSE
    InitCapacity = 1
    MaxRequests = 2
SYMMETRY Symmetry
CHECK_DEADLOCK FALSE
INVARIANTS
    NoFault
    FiberExclusive
    LoopOwns
    WokenWhole
    GroupCountExact
    PoolIdle
