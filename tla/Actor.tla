------------------------------- MODULE Actor -------------------------------
(***************************************************************************)
(* raster/net: Actor, AsyncClient; raster/coroutine: Fiber, FiberManager,  *)
(* Executor; raster/io/event: EventPool, EventExecutor.                    *)
(*                                                                         *)
(* A request becomes a fiber, which a CPU thread runs.  Its handler        *)
(* connects clients and yields; the thread that ran it then hands every    *)
(* client's event to an IO loop, and the loop that finishes the last one   *)
(* makes the fiber runnable again, on any CPU thread.  Fibers and events   *)
(* are never locked: only this protocol keeps two threads from using one   *)
(* at the same time.  The loops are abstract here (see EventLoop): they    *)
(* take an event and some time later finish it, as READED or as FAIL.      *)
(***************************************************************************)
EXTENDS Integers, Sequences, FiniteSets

CONSTANTS
    Fiber,        \* the fibers, one for each request or callback-mode client
    Event,        \* the client events that may be created
    Worker,       \* the threads of the CPUThreadPool
    Loop,         \* the loops of the IOThreadPool
    None,         \* nullptr
    KeepAlive,    \* clients use setKeepAlive
    CallbackMode, \* handlers may use a client in callback mode
    Again         \* handlers may connect after they closed a client

CONSTANT InitCapacity   \* of Group

CONSTANT MaxRequests    \* bound: the requests that arrive

\* There are always fibers for what the requests lead to: in callback mode, for
\* every client its own fiber and one that its finished event may be given.  No
\* thread ever waits for a fiber, as none does in the code.
ASSUME FiberAssumption ==
    Cardinality(Fiber) >=
        MaxRequests + (IF CallbackMode THEN 2 * Cardinality(Event) ELSE 0)

\* nullptr is no fiber, the Group's constructor is given a capacity, and finitely
\* many events are created.
ASSUME ActorAssumption ==
    /\ None \notin Fiber
    /\ InitCapacity \in Nat \ {0}
    /\ IsFiniteSet(Event)

VARIABLES
    status,     \* Fiber::status_; "new" before, "deleted" after the object's life
    kind,       \* which Executor the fiber runs
    clients,    \* the events of the AsyncClients that a fiber's handler holds
    closed,     \* the handler has closed a client
    callbacks,  \* Executor::callbacks_: the events that callback() adds
    answers,    \* how often a fiber's schedule() added its server event
    runQueue,   \* the CPUThreadPool's tasks: FiberManager::run(fiber)
    running,    \* the fiber a worker runs, or None
    wpc,        \* where the worker is
    next,       \* the iterator of callback(): an index of callbacks
    etype,      \* Event::type_; "new" before the object's life
    executor,   \* Event::executor_, as the fiber of that executor
    group,      \* Event::group_
    added,      \* EventLoop::events_ of each loop
    polled,     \* the <<loop, event>> pairs that are registered
    eventPool,  \* EventPool: the kept-alive events
    fault       \* what went wrong; nothing happens afterwards

VARIABLES capacity, groupKeys, groupCounts      \* of Group

G == INSTANCE Group WITH MaxCapacity <- 0, GroupSize <- {}

fibers == <<status, kind, clients, closed, callbacks, answers>>
threads == <<running, wpc, next>>
events == <<etype, executor, group>>
loops  == <<added, polled>>
groups == <<capacity, groupKeys, groupCounts>>
vars   == <<fibers, runQueue, threads, events, loops, eventPool, groups, fault>>

\* The events that a client or the EventPool owns; all others are freed.
Owned == UNION {clients[f] : f \in Fiber} \cup eventPool

\* The types with which the loop accepts an event.
Unfinished(e) == etype[e] \in {"CONNECT", "TOWRITE"}

-----------------------------------------------------------------------------
(***************************************************************************)
(* Actor::execute and addFiber.                                            *)
(***************************************************************************)

\* A fiber for a new executor, appended to the pool's queue.  Objects that do not
\* exist yet are alike: the next one is taken.
NewFiber(f, k) ==
    /\ status[f] = "new" /\ f = CHOOSE g \in Fiber : status[g] = "new"
    /\ status' = [status EXCEPT ![f] = "INIT"]
    /\ kind' = [kind EXCEPT ![f] = k]
    /\ runQueue' = Append(runQueue, f)

\* execute(Event*) of a server event that has been read: an EventExecutor,
\* whose schedule() adds the event again to have the answer written.
Request(f) ==
    /\ Cardinality({g \in Fiber : status[g] # "new" /\ kind[g] = "request"}) < MaxRequests
    /\ NewFiber(f, "request")
    /\ UNCHANGED <<clients, closed, callbacks, answers, threads, events, loops,
                   eventPool, groups, fault>>

\* execute(Event*) of a client event without executor: an EventExecutor is made
\* for it, as if it were a request.
ExecuteStray(e) ==
    \E f \in Fiber :
        /\ NewFiber(f, "stray")
        /\ executor' = [executor EXCEPT ![e] = f]
        /\ UNCHANGED <<clients, closed, callbacks, answers, group, groups, fault>>

\* Fault: every event of a group makes the fiber runnable.
ExecuteUngrouped(e) ==
    /\ runQueue' = Append(runQueue, executor[e])
    /\ fault' = IF status[executor[e]] = "deleted" THEN "freed fiber" ELSE fault
    /\ UNCHANGED <<fibers, executor, group, groups>>

\* Fault: the event keeps its group.
ExecuteKeepingGroup(e) ==
    LET g == group[e] IN
        /\ IF g = 0 THEN UNCHANGED groups ELSE G!Finish(g)
        /\ runQueue' = IF g = 0 \/ G!IsLast(g)
                         THEN Append(runQueue, executor[e]) ELSE runQueue
        /\ UNCHANGED <<fibers, executor, group, fault>>

\* execute(Event*) of a client event: when it is the last of its group, the
\* fiber that waits for it becomes runnable.
ExecuteClient(e) ==
    LET f == executor[e]
        g == group[e]
    IN  /\ group' = [group EXCEPT ![e] = 0]
        /\ IF g = 0 THEN UNCHANGED groups
           ELSE IF groupCounts[g] > 0 THEN G!Finish(g) ELSE UNCHANGED groups
        /\ runQueue' = IF g = 0 \/ G!IsLast(g) THEN Append(runQueue, f) ELSE runQueue
        /\ fault' = IF status[f] = "deleted" THEN "freed fiber"
                    ELSE IF g # 0 /\ groupCounts[g] = 0 THEN "assert" ELSE fault
        /\ UNCHANGED <<fibers, executor>>

Execute(e) == IF executor[e] = None THEN ExecuteStray(e) ELSE ExecuteClient(e)

-----------------------------------------------------------------------------
(***************************************************************************)
(* The IO loops.                                                           *)
(***************************************************************************)

\* dispatchEvent: an event of another type is not added anywhere.
Dispatch(l) ==
    /\ added[l] # <<>>
    /\ LET e == Head(added[l]) IN
         /\ added' = [added EXCEPT ![l] = Tail(@)]
         /\ fault' = IF e \in Owned THEN fault ELSE "freed event"
         /\ polled' = IF Unfinished(e) THEN polled \cup {<<l, e>>} ELSE polled
    /\ UNCHANGED <<fibers, runQueue, threads, events, eventPool, groups>>

\* onComplete with READED, or closePeer with FAIL.  An event that another loop
\* has finished already has an unexpected type and is closed.
Done(l, e) ==
    /\ <<l, e>> \in polled
    /\ polled' = polled \ {<<l, e>>}
    /\ \E result \in IF Unfinished(e) THEN {"READED", "FAIL"} ELSE {"FAIL"} :
           etype' = [etype EXCEPT ![e] = result]
    /\ IF e \in Owned
         THEN Execute(e)
         ELSE /\ fault' = "freed event"
              /\ UNCHANGED <<fibers, runQueue, executor, group, groups>>
    /\ UNCHANGED <<threads, added, eventPool>>

-----------------------------------------------------------------------------
(***************************************************************************)
(* FiberManager::run on a worker, around the fiber's own steps.            *)
(***************************************************************************)

\* The worker goes back to taskQueue_.take.
Release(t) ==
    /\ wpc' = [wpc EXCEPT ![t] = "idle"]
    /\ running' = [running EXCEPT ![t] = None]

\* run up to the jump into the fiber.  The fiber made for a stray client event
\* throws out of its handler: a client's channel has no processor factory.
Run(t) ==
    /\ wpc[t] = "idle" /\ runQueue # <<>>
    /\ LET f == Head(runQueue) IN
         /\ runQueue' = Tail(runQueue)
         /\ status' = [status EXCEPT ![f] = "RUNNING"]
         /\ running' = [running EXCEPT ![t] = f]
         /\ wpc' = [wpc EXCEPT ![t] = "fiber"]
         /\ fault' = IF status[f] = "deleted" THEN "freed fiber"
                     ELSE IF kind[f] = "stray" THEN "exception" ELSE fault
    /\ UNCHANGED <<kind, clients, closed, callbacks, answers, next, events, loops,
                   eventPool, groups>>

\* The fiber jumps back with a new status, which asserts that it is RUNNING.
Leave(t, to, pc) ==
    /\ status' = [status EXCEPT ![running[t]] = to]
    /\ wpc' = [wpc EXCEPT ![t] = pc]
    /\ next' = [next EXCEPT ![t] = 0]
    /\ fault' = IF status[running[t]] = "RUNNING" THEN fault ELSE "assert"
    /\ UNCHANGED <<kind, clients, closed, callbacks, answers, runQueue, running,
                   etype, executor, loops, eventPool>>

\* Fault: callback() stops after its first callback.
AdvanceOnce(t) ==
    /\ wpc[t] = "advance"
    /\ next' = [next EXCEPT ![t] = @ + 1]
    /\ IF next'[t] <= 1
         THEN wpc' = [wpc EXCEPT ![t] = "callback"] /\ UNCHANGED running
         ELSE Release(t)
    /\ UNCHANGED <<fibers, runQueue, events, loops, eventPool, groups, fault>>

\* The iterator of Executor::callback moves on, in a list to which the fiber may
\* be adding by now if it was resumed already.
Advance(t) ==
    /\ wpc[t] = "advance"
    /\ next' = [next EXCEPT ![t] = @ + 1]
    /\ IF next'[t] <= Len(callbacks[running[t]])
         THEN wpc' = [wpc EXCEPT ![t] = "callback"] /\ UNCHANGED running
         ELSE Release(t)
    /\ UNCHANGED <<fibers, runQueue, events, loops, eventPool, groups, fault>>

\* A callback of Executor::callback: addEvent on a loop of the pool.
Callback(t) ==
    /\ wpc[t] = "callback"
    /\ wpc' = [wpc EXCEPT ![t] = "advance"]
    /\ \E l \in Loop :
           added' = [added EXCEPT ![l] = Append(@, callbacks[running[t]][next[t]])]
    /\ UNCHANGED <<fibers, runQueue, running, next, events, polled, eventPool,
                   groups, fault>>

\* The fiber's kept-alive clients go back to the EventPool unless they failed;
\* the others are freed.
FreeConnections(f) ==
    /\ clients' = [clients EXCEPT ![f] = {}]
    /\ eventPool' = eventPool \cup
           {e \in clients[f] : KeepAlive /\ etype[e] # "FAIL"}

\* run after EXIT: schedule() adds the server event, then the fiber is deleted,
\* and with its executor the client of an AsyncClientExecutor.
Schedule(t) ==
    /\ wpc[t] = "schedule"
    /\ LET f == running[t] IN
         /\ answers' = [answers EXCEPT ![f] = IF kind[f] = "request" THEN @ + 1 ELSE @]
         /\ status' = [status EXCEPT ![f] = "deleted"]
         /\ FreeConnections(f)
    /\ Release(t)
    /\ UNCHANGED <<kind, closed, callbacks, runQueue, next, events, loops, groups,
                   fault>>

-----------------------------------------------------------------------------
(***************************************************************************)
(* The steps of a fiber: what a request's handler does with its clients,   *)
(* and AsyncClientExecutor::handle.                                        *)
(***************************************************************************)

InFiber(t, k) == wpc[t] = "fiber" /\ kind[running[t]] = k

\* The handler is about to connect: no client of it has been used yet.
MayConnect(f) ==
    /\ Again \/ ~closed[f]
    /\ \A e \in clients[f] : Unfinished(e)

\* connect, after initConnection found or made event e and gave it type ty.
Connected(f, e, ty) ==
    /\ etype' = [etype EXCEPT ![e] = ty]
    /\ executor' = [executor EXCEPT ![e] = f]
    /\ clients' = [clients EXCEPT ![f] = @ \cup {e}]
    /\ callbacks' = [callbacks EXCEPT ![f] = Append(@, e)]

\* Fault: connect adds the event itself instead of leaving it to callback().
ConnectAtOnce(t) ==
    /\ InFiber(t, "request") /\ MayConnect(running[t])
    /\ \E e \in Event, l \in Loop :
         /\ etype[e] = "new"
         /\ Connected(running[t], e, "CONNECT")
         /\ added' = [added EXCEPT ![l] = Append(@, e)]
    /\ UNCHANGED <<status, kind, closed, answers, runQueue, threads, group, polled,
                   eventPool, groups, fault>>

\* connect on a new socket.
Connect(t) ==
    /\ InFiber(t, "request") /\ MayConnect(running[t])
    /\ \E e \in Event : etype[e] = "new" /\ Connected(running[t], e, "CONNECT")
    /\ UNCHANGED <<status, kind, closed, answers, runQueue, threads, group, loops,
                   eventPool, groups, fault>>

\* Fault: EventPool::get does not pop the event that it returns.
ReuseUnpopped(t) ==
    /\ KeepAlive /\ InFiber(t, "request") /\ MayConnect(running[t])
    /\ \E e \in eventPool :
         /\ group' = [group EXCEPT ![e] = 0]
         /\ Connected(running[t], e, "TOWRITE")
    /\ UNCHANGED <<status, kind, closed, answers, runQueue, threads, loops,
                   eventPool, groups, fault>>

\* connect with an event of the EventPool that is still connected: reset() drops
\* its group and executor.
Reuse(t) ==
    /\ KeepAlive /\ InFiber(t, "request") /\ MayConnect(running[t])
    /\ \E e \in eventPool :
         /\ eventPool' = eventPool \ {e}
         /\ group' = [group EXCEPT ![e] = 0]
         /\ Connected(running[t], e, "TOWRITE")
    /\ UNCHANGED <<status, kind, closed, answers, runQueue, threads, loops, groups,
                   fault>>

\* connect takes an event of the EventPool whose peer is gone, and drops it.
Discard(t) ==
    /\ KeepAlive /\ InFiber(t, "request") /\ MayConnect(running[t])
    /\ \E e \in eventPool : eventPool' = eventPool \ {e}
    /\ UNCHANGED <<fibers, runQueue, threads, events, loops, groups, fault>>

\* connect and fetchNoWait of a client in callback mode: a fiber of its own will
\* wait for the event, whose executor stays null.
FetchNoWait(t) ==
    /\ CallbackMode /\ InFiber(t, "request")
    /\ \E e \in Event, f \in Fiber :
         /\ etype[e] = "new"
         /\ etype' = [etype EXCEPT ![e] = "CONNECT"]
         /\ NewFiber(f, "callback")
         /\ clients' = [clients EXCEPT ![f] = {e}]
         /\ callbacks' = [callbacks EXCEPT ![f] = <<e>>]
    /\ UNCHANGED <<closed, answers, threads, executor, group, loops, eventPool,
                   groups, fault>>

\* fetch of the only client, and the yield of AsyncClientExecutor.
Fetch(t) ==
    /\ wpc[t] = "fiber"
    /\ Cardinality(clients[running[t]]) = 1
    /\ \A e \in clients[running[t]] : Unfinished(e)
    /\ Leave(t, "BLOCK", "advance")
    /\ UNCHANGED <<group, groups>>

\* Faults: no group is made, or one that is too small.
YieldUngrouped(t) ==
    /\ InFiber(t, "request") /\ clients[running[t]] # {}
    /\ \A e \in clients[running[t]] : Unfinished(e)
    /\ Leave(t, "BLOCK", "advance")
    /\ UNCHANGED <<group, groups>>
YieldTooSmall(t) ==
    /\ InFiber(t, "request")
    /\ LET es == clients[running[t]] IN
         /\ \A e \in es : Unfinished(e) /\ group[e] = 0
         /\ G!Create(Cardinality(es) - 1)
         /\ group' = [e \in Event |-> IF e \in es THEN G!NextKey ELSE group[e]]
    /\ Leave(t, "BLOCK", "advance")

\* MultiAsyncClient::yield and yieldMultiTask, for all connected clients.
YieldMulti(t) ==
    /\ InFiber(t, "request")
    /\ LET es == clients[running[t]] IN
         /\ es # {}
         /\ \A e \in es : Unfinished(e) /\ group[e] = 0
         /\ G!Create(Cardinality(es))
         /\ group' = [e \in Event |-> IF e \in es THEN G!NextKey ELSE group[e]]
    /\ Leave(t, "BLOCK", "advance")

\* The handler's clients are destroyed.
Close(t) ==
    /\ InFiber(t, "request") /\ clients[running[t]] # {}
    /\ FreeConnections(running[t])
    /\ closed' = [closed EXCEPT ![running[t]] = TRUE]
    /\ UNCHANGED <<status, kind, callbacks, answers, runQueue, threads, events,
                   loops, groups, fault>>

\* The handler is done; or AsyncClient::callback, and its handler is done.
Exit(t) ==
    /\ \/ InFiber(t, "request") /\ clients[running[t]] = {}
       \/ InFiber(t, "callback") /\ \A e \in clients[running[t]] : ~Unfinished(e)
    /\ Leave(t, "EXIT", "schedule")
    /\ UNCHANGED <<group, groups>>

-----------------------------------------------------------------------------
Init ==
    /\ status = [f \in Fiber |-> "new"]
    /\ kind = [f \in Fiber |-> "request"]
    /\ clients = [f \in Fiber |-> {}]
    /\ closed = [f \in Fiber |-> FALSE]
    /\ callbacks = [f \in Fiber |-> <<>>]
    /\ answers = [f \in Fiber |-> 0]
    /\ runQueue = <<>>
    /\ running = [t \in Worker |-> None]
    /\ wpc = [t \in Worker |-> "idle"]
    /\ next = [t \in Worker |-> 0]
    /\ etype = [e \in Event |-> "new"]
    /\ executor = [e \in Event |-> None]
    /\ group = [e \in Event |-> 0]
    /\ added = [l \in Loop |-> <<>>]
    /\ polled = {}
    /\ eventPool = {}
    /\ fault = "none"
    /\ G!GroupInit

FiberStep(t) ==
    \/ Connect(t) \/ Reuse(t) \/ Discard(t) \/ FetchNoWait(t)
    \/ Fetch(t) \/ YieldMulti(t) \/ Close(t) \/ Exit(t)

WorkerStep(t) == Run(t) \/ Callback(t) \/ Advance(t) \/ Schedule(t) \/ FiberStep(t)

LoopStep(l) == Dispatch(l) \/ \E e \in Event : Done(l, e)

Next ==
    /\ fault = "none"
    /\ \/ \E f \in Fiber : Request(f)
       \/ \E t \in Worker : WorkerStep(t)
       \/ \E l \in Loop : LoopStep(l)

Spec == Init /\ [][Next]_vars

\* CPU threads and loops are scheduled, handlers return, and the deadlines of an
\* event make its loop finish it; requests need not arrive.
Fairness ==
    /\ \A t \in Worker : WF_vars(fault = "none" /\ WorkerStep(t))
    /\ \A l \in Loop : /\ WF_vars(fault = "none" /\ Dispatch(l))
                       /\ \A e \in Event : WF_vars(fault = "none" /\ Done(l, e))

FairSpec == Spec /\ Fairness

-----------------------------------------------------------------------------
(***************************************************************************)
(* Properties.                                                             *)
(***************************************************************************)

\* No freed event and no deleted fiber is used, no assertion of Fiber or Group
\* fails and no exception leaves a fiber.
NoFault == fault = "none"

\* Fiber::yield and Group::finish find what they assert.
YieldAssert == fault # "assert"

\* A fiber is in one place only: FiberManager::run never gets a fiber that
\* another thread runs, or that is queued a second time.
FiberExclusive ==
    /\ \A t, u \in Worker :
         t # u /\ wpc[t] \in {"fiber", "schedule"} /\ wpc[u] \in {"fiber", "schedule"} =>
             running[t] # running[u]
    /\ \A i \in DOMAIN runQueue :
         /\ \A t \in Worker : wpc[t] \in {"fiber", "schedule"} => running[t] # runQueue[i]
         /\ \A j \in DOMAIN runQueue : i # j => runQueue[i] # runQueue[j]

\* While a loop has a client event, queued or registered, the fiber that waits
\* for it is blocked: neither running nor queued to run.
LoopOwns ==
    \A l \in Loop, e \in Event :
        <<l, e>> \in polled \/ (\E i \in DOMAIN added[l] : added[l][i] = e) =>
            \A f \in Fiber : e \in clients[f] => status[f] = "BLOCK" /\
                \A i \in DOMAIN runQueue : runQueue[i] # f

\* A resumed handler finds all of its clients finished: a fiber that waits for a
\* group is not resumed by the first event of the group.
WokenWhole ==
    \A t \in Worker : InFiber(t, "request") =>
        \/ \A e \in clients[running[t]] : Unfinished(e)
        \/ \A e \in clients[running[t]] : ~Unfinished(e)

\* A group counts exactly its events that no loop has finished, and its key is
\* available exactly when there are none.
GroupCountExact ==
    /\ \A k \in 1..capacity :
         groupCounts[k] = Cardinality({e \in Event : group[e] = k})
    /\ G!KeysExact

\* A kept-alive event that waits in the EventPool is in no loop, neither polled nor
\* in events_, and belongs to no other client.
PoolIdle ==
    \A e \in eventPool :
        /\ \A f \in Fiber : e \notin clients[f]
        /\ \A l \in Loop : <<l, e>> \notin polled /\ \A i \in 1..Len(added[l]) : added[l][i] # e

\* Every request is answered, once, whatever happens to its backends, unless the
\* exception that a callback-mode client leads to ends the process.
Answered ==
    \A f \in Fiber : status[f] = "INIT" /\ kind[f] = "request" ~>
                         (status[f] = "deleted" /\ answers[f] = 1) \/ fault = "exception"

\* The callback of a client in callback mode is called: its fiber runs to its end.
CallbackCalled ==
    \A f \in Fiber : status[f] = "INIT" /\ kind[f] = "callback" ~> status[f] = "deleted"
=============================================================================
