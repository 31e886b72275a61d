SPECIFICATION Spec
CONSTANTS
    Thread = {t1, t2, t3}
    Task = {k1, k2}
    Expirable = {k2}
    Poison = Poison
    InitialThreads = 2
    Calls = {"resize", "join", "observe"}
SYMMETRY Symmetry
INVARIANTS
    NoCheckFails
    JoinDrains
    Settled
    ObserverAgrees
