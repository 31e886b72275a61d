------------------------------ MODULE MCActor ------------------------------
(* Small instances of Actor.  Fibers are taken in order; the other sets are symmetric. *)
EXTENDS Actor, TLC

Symmetry ==
    Permutations(Event) \cup Permutations(Worker) \cup Permutations(Loop)
=============================================================================
