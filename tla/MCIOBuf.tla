------------------------------ MODULE MCIOBuf ------------------------------
(* A small instance of IOBuf.  Objects and blocks are interchangeable. *)
EXTENDS IOBuf, TLC

Symmetry == Permutations(Node) \cup Permutations(Block)

\* Some object, or some copy in the making, shows the k-th byte of the block.
Shown(b, k) ==
    \/ \E i \in Node : shows[i].blk = b /\ k \in (shows[i].off + 1)..(shows[i].off + shows[i].len)
    \/ \E h \in heads : copying[h].blk = b /\ k > copying[h].off

\* Two states are the same when they differ only in bytes that nobody shows: no
\* action and no property reads such a byte before it is written.
View ==
    <<heads, next, prev, shows, refcount, copying, value,
      [b \in Block |-> [k \in DOMAIN mem[b] |-> IF Shown(b, k) THEN mem[b][k] ELSE None]]>>
=============================================================================
