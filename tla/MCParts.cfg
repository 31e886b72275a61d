SPECIFICATION Spec
CONSTANTS
    LockUser = {u1, u2, u3}
    Item = {a, b}
    Taker = {t1, t2}
    MaxPosts = 4
    Size = 3
    Record = {r1, r2}
    Raw = Raw
    Lifetimes = 3
    InitCapacity = 1
    MaxCapacity = 4
    GroupSize = {1, 2}
    Key = {k1, k2}
    Deadline = {1, 2, 3}
    None = None
    MaxCopies = 2
    Jobs = 3
    MaxNexts = 2
    Width = 32
    MaxYields = 2
    Calls = 3
    Header = 2
    Bodies = {0, 1, 3}
    Chunk = 3
    SocketRoom = 4
INVARIANTS
    WriterAlone
    BatonHonest
    KeysExact
    PrerequisitesRan
    OnceEach
    
    Correct
    WholeFrame
    OwnAnswer
PROPERTIES
    QueueIsFifo
    RingIsFifo
    BatonDelivers
    Refines
    Completes
    CallEnds
CHECK_DEADLOCK FALSE
