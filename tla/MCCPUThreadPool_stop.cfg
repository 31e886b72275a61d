SPECIFICATION FairSpec
CONSTANTS
    Thread = {t1, t2}
    Task = {k1, k2, k3}
    Expirable = {}
    Poison = Poison
    InitialThreads = 2
    Calls = {"resize", "stop", "join"}
INVARIANTS
    AllExited
    StopIsPrompt
PROPERTIES
    CallsReturn
