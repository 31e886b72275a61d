------------------------------- MODULE MCParts -------------------------------
(***************************************************************************)
(* Small instances of the parts that share nothing with each other.  One   *)
(* run takes them side by side: a behaviour is one of `part`, and leaves   *)
(* the variables of all others alone.                                      *)
(***************************************************************************)
EXTENDS RWSpinLock, BlockingQueue, ProducerConsumerQueue, Baton,
        Group, TimedHeap, DAG, Wire

VARIABLE part

vars == <<lockVars, queueVars, ringVars, batonVars, groupVars, heapVars, dagVars, wireVars, part>>

\* A step of p.
Only(p) ==
    /\ part = p /\ UNCHANGED part
    /\ p # "lock"  => UNCHANGED lockVars
    /\ p # "queue" => UNCHANGED queueVars
    /\ p # "ring"  => UNCHANGED ringVars
    /\ p # "baton" => UNCHANGED batonVars
    /\ p # "group" => UNCHANGED groupVars
    /\ p # "heap"  => UNCHANGED heapVars
    /\ p # "dag"   => UNCHANGED dagVars
    /\ p # "wire"  => UNCHANGED wireVars

\* Where a part may start in several ways, the others take one.
Init ==
    /\ LockInit /\ QueueInit /\ RingInit /\ BatonInit
    /\ GroupInit /\ HeapInit /\ DAGInit /\ WireInit
    /\ part \in {"lock", "queue", "ring", "baton", "group", "heap", "dag", "wire"}
    /\ part # "queue" => \A t \in Taker : got[t] = CHOOSE x \in Item : TRUE
    /\ part # "ring" => writing = record /\ record = CHOOSE r \in Record : TRUE
    /\ part # "dag"  => \A n \in Job : nexts[n] = <<>>
    /\ part # "wire" => framing = "length"

Next ==
    \/ LockNext /\ Only("lock")
    \/ QueueNext /\ Only("queue")
    \/ RingNext /\ Only("ring")
    \/ BatonNext /\ Only("baton")
    \/ GroupNext /\ Only("group")
    \/ HeapNext /\ Only("heap")
    \/ DAGNext /\ Only("dag")
    \/ WireNext /\ Only("wire")

\* Threads are scheduled.  Nobody has to begin a call, but one that was begun goes
\* on: take, a wait or post of the baton, a handler with its jobs, both ends of
\* a connection and the server's handler.  Nothing has to time out.
Fairness ==
    /\ \A t \in Taker : WF_vars(Only("queue") /\ (Look(t) \/ SemWait(t)))
    /\ WF_vars(Only("baton") /\ WaiterStep)
    /\ WF_vars(Only("baton") /\ PosterStep)
    /\ WF_vars(Only("dag") /\ PoolStep)
    /\ WF_vars(Only("dag") /\ (CheckStep \/ Go))
    /\ WF_vars(Only("dag") /\ ReturnFromHandler)
    /\ \A s \in End : WF_vars(Only("wire") /\ EndStep(s))
    /\ WF_vars(Only("wire") /\ ServerAnswers)

Spec == Init /\ [][Next]_vars /\ Fairness
=============================================================================
