---------------------------- MODULE MCEventLoop ----------------------------
EXTENDS EventLoop, TLC

\* Events of one role are interchangeable, and so are callbacks.
Symmetry ==
    Permutations(Server) \cup Permutations(Client) \cup Permutations(Callback)
=============================================================================
