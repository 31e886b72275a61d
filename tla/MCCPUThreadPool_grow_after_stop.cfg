SPECIFICATION Spec
CONSTANTS
    Thread = {t1, t2}
    Task = {k1, k2}
    Expirable = {}
    Poison = Poison
    InitialThreads = 1
    Calls = {"resize", "stop"}
SYMMETRY Symmetry
INVARIANT NoCheckFails
