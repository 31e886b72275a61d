SPECIFICATION IOBufSpec
CONSTANTS
    Node = {n1, n2, n3}
    Block = {b1, b2, b3}
    None = None
    Capacity = 1
    MaxCapacity = 2
    MaxHeadroom = 1
    Data = {0, 1}
SYMMETRY Symmetry
VIEW View
INVARIANTS
    ContentsKept
    CountsExact
    ChainsSound
CHECK_DEADLOCK FALSE
