SPECIFICATION FairSpec
CONSTANTS
    Server = {s1}
    Client = {c1}
    Forward = {}
    Callback = {f1}
    Listener = listener
    Waker = waker
    MayStop = TRUE
PROPERTIES StopLeaves WorkEnds
