SPECIFICATION Spec
CONSTANTS
    Server = {s1}
    Client = {c1}
    Forward = {w1}
    Callback = {f1, f2}
    Listener = listener
    Waker = waker
    MayStop = TRUE
SYMMETRY Symmetry
INVARIANTS PollExact NoStray NoLostWakeup
