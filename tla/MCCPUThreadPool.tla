--------------------------- MODULE MCCPUThreadPool ---------------------------
(* Small instances of CPUThreadPool.  Threads and tasks are interchangeable, *)
(* so safety runs use symmetry; the liveness run does not.                   *)
EXTENDS CPUThreadPool, TLC

Symmetry == Permutations(Thread) \cup Permutations(Task \ Expirable)
=============================================================================
