-------------------------------- MODULE DAG --------------------------------
(***************************************************************************)
(* raster/parallel: DAG, ActorDAG and Scheduler.  A handler adds jobs,     *)
(* go() puts a source before and a sink behind them, and the handler's     *)
(* fiber yields.  Its callback schedules the source; every job, on a CPU   *)
(* thread of its own, then schedules the jobs behind it.  The sink is the  *)
(* handler's own executor: executing it resumes the handler, which may     *)
(* destroy the Scheduler while the last threads are still in schedule().   *)
(* The executor keeps the callback, and with it a pointer to the graph.    *)
(***************************************************************************)
EXTENDS Integers, Sequences, FiniteSets

CONSTANTS
    Jobs,       \* the number of jobs
    MaxNexts,   \* bound: the successors named for one job
    Width,      \* size_t holds 0..Width-1
    MaxYields   \* bound: how often the handler yields in all

\* A size_t counts the edges of any graph, and the yields of any handler.
ASSUME DAGAssumption ==
    /\ Jobs \in Nat /\ MaxNexts \in Nat /\ Width \in Nat /\ MaxYields \in Nat
    /\ (Jobs + 2) * (Jobs + MaxNexts) < Width
    /\ MaxYields <= Width

Job == 1..Jobs
Source == Jobs + 1
Sink == Jobs + 2
Node == 1..(Jobs + 2)

VARIABLES
    nexts,      \* Node::nexts
    waitCount,  \* Node::waitCount
    handler,    \* what the handler's fiber does
    nodeState,  \* the state of each node's executor
    pos,        \* how many of its nexts a node's schedule() has seen
    runs,       \* how often a node was executed
    yields,     \* how often the handler yielded
    alive,      \* the Scheduler exists
    fault       \* schedule() used nodes_ after its end

\* The locals of hasCycle: see HasCycle.
VARIABLES copy, targets, keys, current, result

H == INSTANCE HasCycle WITH
         Nodes <- Jobs, graph <- [n \in Job |-> nexts[n]], nexts <- copy

check == <<copy, targets, keys, current, result>>
graph == <<nexts, waitCount, handler, nodeState, pos, runs, yields, alive, fault>>
dagVars  == <<graph, check>>

Successors(n) == {nexts[n][i] : i \in DOMAIN nexts[n]}

\* The number of edges into n.
InEdges(g, n) == Cardinality({e \in Node \X (1..(Jobs + MaxNexts)) :
                                 e[2] \in DOMAIN g[e[1]] /\ g[e[1]][e[2]] = n})

\* An ascending sequence of the members of S: the order of the loop over nodes_.
Ascending(S) ==
    CHOOSE s \in [1..Cardinality(S) -> S] : \A i, j \in DOMAIN s : i < j => s[i] < s[j]

Roots == {n \in Job : \A m \in Job : n \notin Successors(m)}

\* Fault: only the first leaf is followed by the sink.
LinkedFirst ==
    [n \in Node |->
        IF n = Source THEN Ascending(Roots)
        ELSE IF n \in Job /\ nexts[n] = <<>>
                  /\ \A m \in Job : m < n => nexts[m] # <<>> THEN <<Sink>> ELSE nexts[n]]

\* Fault: the source precedes the first root only.
LinkedOneRoot ==
    [n \in Node |->
        IF n = Source THEN SubSeq(Ascending(Roots), 1, 1)
        ELSE IF n \in Job /\ nexts[n] = <<>> THEN <<Sink>> ELSE nexts[n]]

\* nexts after go(): source before all roots, sink behind all leaves.
Linked ==
    [n \in Node |->
        IF n = Source THEN Ascending(Roots)
        ELSE IF n \in Job /\ nexts[n] = <<>> THEN <<Sink>> ELSE nexts[n]]

\* Scheduler::run: setDependency, and go up to the call of hasCycle.
RunGraph ==
    /\ handler = "setup"
    /\ handler' = "checking"
    /\ UNCHANGED <<nexts, waitCount, nodeState, pos, runs, yields, alive, fault, check>>

\* A step of hasCycle.
CheckStep ==
    /\ handler = "checking"
    /\ UNCHANGED graph
    /\ H!Next

\* go after hasCycle returned, and the yield.  A cycle makes go throw.
Go ==
    /\ handler = "checking"
    /\ \/ /\ result = "cycle"
          /\ handler' = "thrown"
          /\ UNCHANGED <<nexts, waitCount, nodeState, yields>>
       \/ /\ result = "acyclic"
          /\ nexts' = Linked
          /\ waitCount' = [n \in Node |-> InEdges(Linked, n)]
          /\ handler' = "yielded"
          /\ nodeState' = [nodeState EXCEPT ![Source] = "scheduling"]
          /\ yields' = yields + 1
    /\ UNCHANGED <<pos, runs, alive, fault, check>>

\* execute of a node: Actor::execute queues its fiber.
Execute(n) ==
    /\ runs' = [runs EXCEPT ![n] = @ + 1]
    /\ IF n = Sink
         THEN handler' = "runnable" /\ UNCHANGED nodeState
         ELSE nodeState' = [nodeState EXCEPT ![n] = "queued"] /\ UNCHANGED handler

\* Fault: the count is signed, and executes whatever reaches zero or less.
ScheduleStepSigned(n) ==
    /\ nodeState[n] = "scheduling" /\ pos[n] < Len(nexts[n])
    /\ LET key == nexts[n][pos[n] + 1] IN
         /\ waitCount' = [waitCount EXCEPT ![key] = @ - 1]
         /\ IF waitCount'[key] <= 0 THEN Execute(key) ELSE UNCHANGED <<runs, handler, nodeState>>
    /\ pos' = [pos EXCEPT ![n] = @ + 1]
    /\ fault' = (fault \/ ~alive)
    /\ UNCHANGED <<nexts, yields, alive, check>>

\* Fault: a job is executed as soon as one job before it is done.
ScheduleStepAny(n) ==
    /\ nodeState[n] = "scheduling" /\ pos[n] < Len(nexts[n])
    /\ LET key == nexts[n][pos[n] + 1] IN
         /\ waitCount' = [waitCount EXCEPT ![key] = (@ - 1 + Width) % Width]
         /\ IF runs[key] = 0 THEN Execute(key) ELSE UNCHANGED <<runs, handler, nodeState>>
    /\ pos' = [pos EXCEPT ![n] = @ + 1]
    /\ fault' = (fault \/ ~alive)
    /\ UNCHANGED <<nexts, yields, alive, check>>

\* One iteration of schedule(n): the atomic decrement decides who executes key.
ScheduleStep(n) ==
    /\ nodeState[n] = "scheduling" /\ pos[n] < Len(nexts[n])
    /\ LET key == nexts[n][pos[n] + 1] IN
         /\ waitCount' = [waitCount EXCEPT ![key] = (@ - 1 + Width) % Width]
         /\ IF waitCount'[key] = 0 THEN Execute(key) ELSE UNCHANGED <<runs, handler, nodeState>>
    /\ pos' = [pos EXCEPT ![n] = @ + 1]
    /\ fault' = (fault \/ ~alive)
    /\ UNCHANGED <<nexts, yields, alive, check>>

\* schedule(n) ends: both of its iterators are its own, nodes_ is not read again.
ScheduleEnd(n) ==
    /\ nodeState[n] = "scheduling" /\ pos[n] = Len(nexts[n])
    /\ nodeState' = [nodeState EXCEPT ![n] = "done"]
    /\ UNCHANGED <<nexts, waitCount, handler, pos, runs, yields, alive, fault, check>>

\* A CPU thread has run the job's fiber to its end, and calls its schedule().
RunJob(n) ==
    /\ nodeState[n] = "queued"
    /\ nodeState' = [nodeState EXCEPT ![n] = "scheduling"]
    /\ pos' = [pos EXCEPT ![n] = 0]
    /\ fault' = (fault \/ ~alive)
    /\ UNCHANGED <<nexts, waitCount, handler, runs, yields, alive, check>>

\* A CPU thread resumes the handler's fiber.
Resume ==
    /\ handler = "runnable"
    /\ handler' = "running"
    /\ UNCHANGED <<nexts, waitCount, nodeState, pos, runs, yields, alive, fault, check>>

\* The handler waits for something else, with the Scheduler still there: callback()
\* schedules the source once more, before what will wake the handler.  Modelled from
\* the end of the first schedule() on: what is left of that reads no node.
YieldAgain ==
    /\ handler = "running" /\ alive /\ nodeState[Source] = "done" /\ yields < MaxYields
    /\ handler' = "yielded"
    /\ yields' = yields + 1
    /\ nodeState' = [nodeState EXCEPT ![Source] = "scheduling"]
    /\ pos' = [pos EXCEPT ![Source] = 0]
    /\ UNCHANGED <<nexts, waitCount, runs, alive, fault, check>>

\* What the handler waited for the second time happens.
WokenAgain ==
    /\ handler = "yielded" /\ yields > 1 /\ nodeState[Source] = "done"
    /\ handler' = "runnable"
    /\ UNCHANGED <<nexts, waitCount, nodeState, pos, runs, yields, alive, fault, check>>

\* The Scheduler's scope ends, or its temporary; the handler goes on.
DestroyGraph ==
    /\ handler = "running" /\ alive
    /\ alive' = FALSE
    /\ UNCHANGED <<nexts, waitCount, handler, nodeState, pos, runs, yields, fault, check>>

\* The handler waits for something else when its Scheduler is gone: callback() calls
\* schedule() of the destroyed graph.  What follows is undefined, and not modelled.
YieldDestroyed ==
    /\ handler = "running" /\ ~alive
    /\ handler' = "lost"
    /\ fault' = TRUE
    /\ UNCHANGED <<nexts, waitCount, nodeState, pos, runs, yields, alive, check>>

\* The handler returns; a Scheduler that is still there goes with its frame.
ReturnFromHandler ==
    /\ handler = "running"
    /\ handler' = "returned"
    /\ alive' = FALSE
    /\ UNCHANGED <<nexts, waitCount, nodeState, pos, runs, yields, fault, check>>

\* Any jobs with any successors, named in any order and perhaps twice.
DAGInit ==
    /\ \E g \in [Job -> UNION {[1..k -> Job] : k \in 0..MaxNexts}] :
           nexts = [n \in Node |-> IF n \in Job THEN g[n] ELSE <<>>]
    /\ waitCount = [n \in Node |-> 0]
    /\ handler = "setup"
    /\ nodeState = [n \in Node |-> "waiting"]
    /\ pos = [n \in Node |-> 0]
    /\ runs = [n \in Node |-> 0]
    /\ yields = 0
    /\ alive = TRUE /\ fault = FALSE
    /\ H!Init

PoolStep ==
    \/ Resume \/ WokenAgain
    \/ \E n \in Node : ScheduleStep(n) \/ ScheduleEnd(n) \/ RunJob(n)

HandlerStep == YieldAgain \/ DestroyGraph \/ YieldDestroyed \/ ReturnFromHandler

DAGNext == RunGraph \/ CheckStep \/ Go \/ HandlerStep \/ PoolStep

DAGSpec == DAGInit /\ [][DAGNext]_dagVars

-----------------------------------------------------------------------------
\* A job starts only when every job before it has run: whoever takes the last
\* count executes it, whatever the order of the decrements.  For the sink this says
\* that the handler goes on only after all of its jobs: they all precede it.
PrerequisitesRan ==
    \A n \in Job, m \in Node :
        runs[m] > 0 /\ m \in Successors(n) => nodeState[n] \in {"scheduling", "done"}

\* No job is executed twice, not even when the handler's later yields schedule the
\* source again: an exhausted count wraps around and does not reach zero.
OnceEach == \A n \in Node : runs[n] <= 1

\* Threads that are still in schedule() when the handler destroys its Scheduler, at
\* any time after run() returned, do not use the nodes again.  The destroyed nodes are
\* used only if the handler itself yields once more: callbacks_ is never cleared.
NoUseAfterDestroy == fault => handler = "lost"

\* hasCycle returns true iff the graph of the jobs has a cycle, self-loops, repeated
\* edges and nodes that are only behind a cycle included.
Correct == H!Correct

\* Every graph without a cycle runs to its end and the handler returns, unless it
\* yields when its Scheduler is gone; every other graph makes go throw.
Completes == handler = "checking" ~> handler \in {"returned", "thrown", "lost"}
=============================================================================
