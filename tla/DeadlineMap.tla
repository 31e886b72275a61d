---------------------------- MODULE DeadlineMap ----------------------------
(***************************************************************************)
(* What EventLoop expects of its TimedHeap: at most one deadline per key,  *)
(* the one pushed last; pop takes out an earliest one if it has passed.    *)
(***************************************************************************)
EXTENDS Integers

CONSTANTS
    Key,        \* the objects with a deadline
    Deadline,   \* the times at which they expire
    None

VARIABLES
    deadline,   \* the deadline of each key, or None
    now,        \* the time given to a pop that has not returned, or 0
    popped      \* what the latest pop returned: a key or None

Init == deadline = [k \in Key |-> None] /\ now = 0 /\ popped = None

Push(k, d) ==
    /\ now = 0
    /\ deadline' = [deadline EXCEPT ![k] = d]
    /\ UNCHANGED <<now, popped>>

Erase(k) ==
    /\ now = 0
    /\ deadline' = [deadline EXCEPT ![k] = None]
    /\ UNCHANGED <<now, popped>>

CallPop(t) == now = 0 /\ now' = t /\ UNCHANGED <<deadline, popped>>

\* The key whose deadline is earliest, if that has passed.
Pop ==
    /\ now # 0 /\ now' = 0
    /\ \/ \E k \in Key :
            /\ deadline[k] # None
            /\ deadline[k] <= now
            /\ \A j \in Key : deadline[j] # None => deadline[k] <= deadline[j]
            /\ deadline' = [deadline EXCEPT ![k] = None]
            /\ popped' = k
       \/ /\ \A k \in Key : deadline[k] # None => deadline[k] > now
          /\ popped' = None
          /\ UNCHANGED deadline

Next ==
    \/ \E k \in Key, d \in Deadline : Push(k, d)
    \/ \E k \in Key : Erase(k)
    \/ \E t \in Deadline : CallPop(t)
    \/ Pop

Spec == Init /\ [][Next]_<<deadline, now, popped>>
=============================================================================
