----------------------------- MODULE TimedHeap -----------------------------
(***************************************************************************)
(* raster/util/TimedHeap.h with Timeout of raster/util/Time.h.  erase and a *)
(* second push leave the old Timeout in heap_; pop recognises it by its    *)
(* deadline, which map_ no longer has for that key.  The object belongs to *)
(* one thread; an iteration of pop's loop is a step.  The repeat flag of a *)
(* Timeout takes no part in any comparison and is left out.                *)
(***************************************************************************)
EXTENDS Integers

CONSTANTS
    Key,        \* the objects with a deadline
    Deadline,   \* the times at which they expire
    None,       \* nullptr, or no entry in map_
    MaxCopies   \* bound: how many equal Timeouts heap_ holds

Timeout == [data : Key, deadline : Deadline]

\* Deadlines are microseconds since the epoch.
ASSUME DeadlineAssumption == Deadline \subseteq Nat \ {0}
ASSUME NoneAssumption == None \notin Key \cup Nat \cup Timeout

VARIABLES
    map,      \* map_: the Timeout of each key, or None
    heap,     \* heap_: how many copies of each Timeout it holds
    now,      \* the argument of a pop in progress, or 0
    popped    \* what the latest pop returned: a key or None

heapVars == <<map, heap, now, popped>>

HeapTypeOK ==
    /\ map \in [Key -> Timeout \cup {None}]
    /\ heap \in [Timeout -> Nat]
    /\ now \in Deadline \cup {0}
    /\ popped \in Key \cup {None}

\* heap_.top() may be any Timeout with the least deadline: operator< and
\* operator== compare deadlines only.
IsTop(v) ==
    heap[v] > 0 /\ \A w \in Timeout : heap[w] > 0 => v.deadline <= w.deadline

\* Fault: an entry that was replaced passes for the current one.
CurrentIfPresent(v) == map[v.data] # None

\* The comparison of a Timeout with get_default(map_, data), whose deadline is 0
\* when there is no entry.
Current(v) ==
    v.deadline = IF map[v.data] = None THEN 0 ELSE map[v.data].deadline

\* push
Push(v) ==
    /\ now = 0
    /\ heap[v] < MaxCopies
    /\ map' = [map EXCEPT ![v.data] = v]
    /\ heap' = [heap EXCEPT ![v] = @ + 1]
    /\ UNCHANGED <<now, popped>>

\* erase
Erase(k) ==
    /\ now = 0
    /\ map' = [map EXCEPT ![k] = None]
    /\ UNCHANGED <<heap, now, popped>>

\* pop is called.
CallPop(t) ==
    /\ now = 0
    /\ now' = t
    /\ UNCHANGED <<map, heap, popped>>

\* pop returns the top of the heap.
ReturnTop(v) ==
    /\ now # 0 /\ IsTop(v) /\ Current(v)
    /\ v.deadline <= now
    /\ map' = [map EXCEPT ![v.data] = None]
    /\ heap' = [heap EXCEPT ![v] = @ - 1]
    /\ popped' = v.data
    /\ now' = 0

\* The top of the heap is stale, and removed.
DropTop(v) ==
    /\ now # 0 /\ IsTop(v) /\ ~Current(v)
    /\ heap' = [heap EXCEPT ![v] = @ - 1]
    /\ UNCHANGED <<map, now, popped>>

\* pop finds the heap empty, or its top not due.
ReturnNone ==
    /\ now # 0
    /\ \/ \A v \in Timeout : heap[v] = 0
       \/ \E v \in Timeout : IsTop(v) /\ Current(v) /\ v.deadline > now
    /\ popped' = None
    /\ now' = 0
    /\ UNCHANGED <<map, heap>>

HeapInit ==
    /\ map = [k \in Key |-> None]
    /\ heap = [v \in Timeout |-> 0]
    /\ now = 0
    /\ popped = None

PopStep == ReturnNone \/ \E v \in Timeout : ReturnTop(v) \/ DropTop(v)

HeapNext ==
    \/ \E v \in Timeout : Push(v)
    \/ \E k \in Key : Erase(k)
    \/ \E t \in Deadline : CallPop(t)
    \/ PopStep

HeapSpec == HeapInit /\ [][HeapNext]_heapVars

-----------------------------------------------------------------------------
\* Whatever is in map_ is also in the heap, so no deadline is ever lost.
Covered == \A k \in Key : map[k] # None => heap[map[k]] > 0

\* TimedHeap does what EventLoop expects of it: pop, whatever stale entries the
\* heap holds, returns an earliest current deadline that has passed at the time it was
\* given, and nothing only when there is none.
deadline == [k \in Key |-> IF map[k] = None THEN None ELSE map[k].deadline]
DM == INSTANCE DeadlineMap
Refines == DM!Spec
=============================================================================
