---------------------------- MODULE IOThreadPool ----------------------------
(***************************************************************************)
(* raster/concurrency: IOThreadPool, with what it uses of ThreadPool, of   *)
(* EventLoopManager and of the loops (loopBody, stop, addCallback; their   *)
(* events are in EventLoop).                                               *)
(*                                                                         *)
(* One owner resizes, stops and joins; any thread adds tasks, at any time: *)
(* the ReadHolder of add is a temporary that is gone at once.  A task may  *)
(* add another one, which stays on its thread.  An add that meets a thread *)
(* with no loop dereferences a bad pointer: `crashed`.                     *)
(***************************************************************************)
EXTENDS Integers, FiniteSets

CONSTANTS
    IOThread,   \* the IOThread objects the pool may ever create
    IOTask,     \* the tasks that may be added
    NoThread    \* nullptr

ASSUME IOAssumption ==
    IsFiniteSet(IOThread) /\ IsFiniteSet(IOTask) /\ NoThread \notin IOThread

VARIABLES
    ioThreads,  \* threads_
    stopped,    \* stoppedThreads_
    joining,    \* isJoin_
    shouldRun,  \* IOThread::shouldRun
    pending,    \* IOThread::pendingTasks
    eventLoop,  \* IOThread::eventLoop: "none" yet, "on", or "null" again
    stopLoop,   \* stop_ of the thread's loop
    inbox,      \* callbacks_ of the thread's loop
    batch,      \* the callbacks that its loopBody swapped out
    tpc,        \* where each thread is in threadRun
    taskAt,     \* where each task is
    worker,     \* the thread it was added to
    opc,        \* where the owner is
    call,       \* the call the owner is in, or made last
    victims,    \* the threads that stopThreads has yet to stop
    count,      \* the threads removeThreads has yet to collect
    known,      \* the threads that the observer believes to be running
    sure,       \* history: tasks whose add overlapped no call, since the last stop()
    bad         \* "crashed" in an add, or an RDDCHECK "failed"; else "no"

pool    == <<ioThreads, stopped, joining>>
flags   == <<shouldRun, stopLoop>>
loops   == <<inbox, batch>>
tasks   == <<taskAt, worker, sure>>
owner   == <<opc, call, victims, count, known>>
ioVars  == <<pool, flags, pending, eventLoop, loops, tpc, tasks, owner, bad>>

IOTypeOK ==
    /\ ioThreads \subseteq IOThread /\ stopped \subseteq IOThread
    /\ joining \in BOOLEAN
    /\ shouldRun \in [IOThread -> BOOLEAN] /\ stopLoop \in [IOThread -> BOOLEAN]
    /\ pending \in [IOThread -> Int]
    /\ eventLoop \in [IOThread -> {"none", "on", "null"}]
    /\ inbox \in [IOThread -> SUBSET IOTask] /\ batch \in [IOThread -> SUBSET IOTask]
    /\ tpc \in [IOThread -> {"unborn", "created", "check", "top", "run", "drain",
                             "once", "leave", "null", "exited"}]
    /\ taskAt \in [IOTask -> {"new", "picked", "counted", "queued", "ran", "refused"}]
    /\ worker \in [IOTask -> IOThread \cup {NoThread}]
    /\ opc \in {"idle", "starting", "flag", "stop", "collect"}
    /\ call \in {"grow", "shrink", "stop", "join"}
    /\ victims \subseteq IOThread /\ count \in Nat
    /\ known \subseteq IOThread /\ sure \subseteq IOTask
    /\ bad \in {"no", "crashed", "failed"}

-----------------------------------------------------------------------------
(***************************************************************************)
(* The owner.                                                              *)
(***************************************************************************)

\* addThreads up to the wait for the startup batons.
AddIOThreads ==
    /\ opc = "idle"
    /\ \E new \in SUBSET {t \in IOThread : tpc[t] = "unborn"} \ {{}} :
         /\ ioThreads' = ioThreads \cup new
         /\ tpc' = [t \in IOThread |-> IF t \in new THEN "created" ELSE tpc[t]]
    /\ opc' = "starting" /\ call' = "grow"
    /\ UNCHANGED <<stopped, joining, flags, pending, eventLoop, loops, tasks,
                   victims, count, known, bad>>

\* addThreads after the batons: the observer is told.
AllStarted ==
    /\ opc = "starting" /\ \A t \in ioThreads : tpc[t] # "created"
    /\ opc' = "idle"
    /\ known' = known \cup ioThreads
    /\ UNCHANGED <<pool, flags, pending, eventLoop, loops, tpc, tasks, call,
                   victims, count, bad>>

\* removeThreads up to stopThreads, which takes the first threads of threads_.
RemoveIOThreads(name, n, join) ==
    /\ opc = "idle"
    /\ \E first \in SUBSET ioThreads : Cardinality(first) = n /\ victims' = first
    /\ bad' = IF stopped # {} THEN "failed" ELSE bad
    /\ joining' = join
    /\ count' = n
    /\ opc' = (IF n = 0 THEN "collect" ELSE "flag") /\ call' = name
    /\ sure' = IF join THEN sure ELSE {}
    /\ UNCHANGED <<ioThreads, stopped, flags, pending, eventLoop, loops, tpc, taskAt,
                   worker, known>>

\* setNumThreads with fewer threads, stop and join.
IOCall ==
    \/ \E n \in 1..Cardinality(ioThreads) : RemoveIOThreads("shrink", n, TRUE)
    \/ RemoveIOThreads("stop", Cardinality(ioThreads), FALSE)
    \/ RemoveIOThreads("join", Cardinality(ioThreads), TRUE)

\* stopThreads, for one thread: threadStopped, and shouldRun = false.
ClearShouldRun(t) ==
    /\ opc = "flag" /\ t \in victims
    /\ known' = known \ {t}
    /\ shouldRun' = [shouldRun EXCEPT ![t] = FALSE]
    /\ opc' = "stop"
    /\ UNCHANGED <<pool, stopLoop, pending, eventLoop, loops, tpc, tasks, call,
                   victims, count, bad>>

\* The rest of the round: stop_ becomes true if flag is.
StopLoopIf(t, flag) ==
    /\ opc = "stop" /\ t \in victims /\ ~shouldRun[t]
    /\ stopLoop' = [stopLoop EXCEPT ![t] = @ \/ flag]
    /\ victims' = victims \ {t}
    /\ opc' = IF victims = {t} THEN "collect" ELSE "flag"
    /\ UNCHANGED <<pool, shouldRun, pending, eventLoop, loops, tpc, tasks, call, count,
                   known, bad>>

\* Fault: shouldRun alone is thought to end a thread.
StopEventLoopNever(t) == StopLoopIf(t, FALSE)

\* Under eventLoopShutdownLock_ the loop is stopped, if the thread still has one.
StopEventLoop(t) == StopLoopIf(t, eventLoop[t] = "on")

\* One round of the loop of removeThreads, with a thread that got as far as ends.
CollectAt(t, ends) ==
    /\ opc = "collect" /\ count > 0 /\ t \in stopped /\ tpc[t] \in ends
    /\ stopped' = stopped \ {t}
    /\ bad' = IF t \in ioThreads THEN bad ELSE "failed"
    /\ ioThreads' = ioThreads \ {t}
    /\ count' = count - 1
    /\ UNCHANGED <<joining, flags, pending, eventLoop, loops, tpc, tasks, opc, call,
                   victims, known>>

\* Fault: the thread is not joined.
CollectUnjoined(t) == CollectAt(t, {"null", "exited"})

\* take, join, and the RDDCHECKs.
CollectIO(t) == CollectAt(t, {"exited"})

\* removeThreads ends.
EndRemove ==
    /\ opc = "collect" /\ count = 0
    /\ bad' = IF stopped = {} THEN bad ELSE "failed"
    /\ opc' = "idle"
    /\ UNCHANGED <<pool, flags, pending, eventLoop, loops, tpc, tasks, call, victims,
                   count, known>>

-----------------------------------------------------------------------------
(***************************************************************************)
(* Callers of add.                                                         *)
(***************************************************************************)

\* pickThread, by a thread that is not of this pool: some thread of threads_.
PickThread(k) ==
    /\ taskAt[k] = "new"
    /\ \/ /\ ioThreads = {}
          /\ taskAt' = [taskAt EXCEPT ![k] = "refused"]
          /\ UNCHANGED <<worker, sure>>
       \/ \E t \in ioThreads :
             /\ taskAt' = [taskAt EXCEPT ![k] = "picked"]
             /\ worker' = [worker EXCEPT ![k] = t]
             /\ sure' = IF opc = "idle" THEN sure \cup {k} ELSE sure
    /\ UNCHANGED <<pool, flags, pending, eventLoop, loops, tpc, owner, bad>>

\* pendingTasks++
CountTask(k) ==
    /\ taskAt[k] = "picked"
    /\ taskAt' = [taskAt EXCEPT ![k] = "counted"]
    /\ pending' = [pending EXCEPT ![worker[k]] = @ + 1]
    /\ sure' = IF opc = "idle" THEN sure ELSE sure \ {k}
    /\ UNCHANGED <<pool, flags, eventLoop, loops, tpc, worker, owner, bad>>

\* addCallback on the loop that the thread has now.
QueueTask(k) ==
    /\ taskAt[k] = "counted"
    /\ IF eventLoop[worker[k]] = "on"
         THEN /\ inbox' = [inbox EXCEPT ![worker[k]] = @ \cup {k}]
              /\ taskAt' = [taskAt EXCEPT ![k] = "queued"]
              /\ UNCHANGED bad
         ELSE bad' = "crashed" /\ UNCHANGED <<inbox, taskAt>>
    /\ sure' = IF opc = "idle" THEN sure ELSE sure \ {k}
    /\ UNCHANGED <<pool, flags, pending, eventLoop, batch, tpc, worker, owner>>

-----------------------------------------------------------------------------
(***************************************************************************)
(* threadRun.                                                              *)
(***************************************************************************)

Goto(t, from, to) ==
    /\ tpc[t] = from
    /\ tpc' = [tpc EXCEPT ![t] = to]
    /\ UNCHANGED <<ioThreads, joining, shouldRun, worker, owner, bad>>

\* The thread gets its loop and posts the startup baton.
Begin(t) ==
    /\ Goto(t, "created", "check")
    /\ eventLoop' = [eventLoop EXCEPT ![t] = "on"]
    /\ UNCHANGED <<stopped, stopLoop, pending, loops, taskAt, sure>>

\* Fault: a thread that is stopped drops what is pending, join or not.
CheckShouldRunOnly(t) ==
    /\ Goto(t, "check", IF shouldRun[t] THEN "top" ELSE "leave")
    /\ UNCHANGED <<stopped, stopLoop, pending, eventLoop, loops, taskAt, sure>>

\* The condition of the loop of threadRun, and the test of isJoin_ after it.
CheckShouldRun(t) ==
    /\ Goto(t, "check", IF shouldRun[t] THEN "top" ELSE IF joining THEN "drain" ELSE "leave")
    /\ UNCHANGED <<stopped, stopLoop, pending, eventLoop, loops, taskAt, sure>>

\* loopBody finds stop_ set, and resets it; or swaps callbacks_ out.
Swap(t, from, run, out) ==
    /\ \/ /\ stopLoop[t] /\ Goto(t, from, out)
          /\ stopLoop' = [stopLoop EXCEPT ![t] = FALSE]
          /\ UNCHANGED loops
       \/ /\ ~stopLoop[t] /\ Goto(t, from, run)
          /\ batch' = [batch EXCEPT ![t] = inbox[t]]
          /\ inbox' = [inbox EXCEPT ![t] = {}]
          /\ UNCHANGED stopLoop
    /\ UNCHANGED <<stopped, pending, eventLoop, taskAt, sure>>

\* loop(), at the condition of its while.
LoopTop(t) == Swap(t, "top", "run", "check")

\* A callback: runTask, perhaps with an add by the task (pickThread is then
\* thisThread_), and pendingTasks--.
RunCallback(t, k) ==
    /\ tpc[t] \in {"run", "once"} /\ k \in batch[t]
    /\ batch' = [batch EXCEPT ![t] = @ \ {k}]
    /\ \E more \in {{}} \cup {{j} : j \in {j \in IOTask : taskAt[j] = "new"}} :
         /\ inbox' = [inbox EXCEPT ![t] = @ \cup more]
         /\ pending' = [pending EXCEPT ![t] = @ + Cardinality(more) - 1]
         /\ taskAt' = [j \in IOTask |-> IF j = k THEN "ran"
                                        ELSE IF j \in more THEN "queued" ELSE taskAt[j]]
         /\ worker' = [j \in IOTask |-> IF j \in more THEN t
                                        ELSE IF j = k THEN NoThread ELSE worker[j]]
         /\ sure' = IF k \in sure THEN (sure \ {k}) \cup more ELSE sure
    /\ UNCHANGED <<pool, flags, eventLoop, tpc, owner, bad>>

\* The callbacks have run: poll, and the next round of loop().
NextRound(t) ==
    /\ batch[t] = {} /\ Goto(t, "run", "top")
    /\ UNCHANGED <<stopped, stopLoop, pending, eventLoop, loops, taskAt, sure>>

\* while (pendingTasks > 0) loopOnce()
Drain(t) ==
    \/ pending[t] > 0 /\ Swap(t, "drain", "once", "drain")
    \/ /\ pending[t] = 0 /\ Goto(t, "drain", "leave")
       /\ UNCHANGED <<stopped, stopLoop, pending, eventLoop, loops, taskAt, sure>>

\* loopOnce ends, and resets stop_.
EndOnce(t) ==
    /\ batch[t] = {} /\ Goto(t, "once", "drain")
    /\ stopLoop' = [stopLoop EXCEPT ![t] = FALSE]
    /\ UNCHANGED <<stopped, pending, eventLoop, loops, taskAt, sure>>

\* stoppedThreads_.add
Leave(t) ==
    /\ Goto(t, "leave", "null")
    /\ stopped' = stopped \cup {t}
    /\ UNCHANGED <<stopLoop, pending, eventLoop, loops, taskAt, sure>>

\* eventLoop = nullptr, under the lock; the thread ends.
DropLoop(t) ==
    /\ Goto(t, "null", "exited")
    /\ eventLoop' = [eventLoop EXCEPT ![t] = "null"]
    /\ UNCHANGED <<stopped, stopLoop, pending, loops, taskAt, sure>>

-----------------------------------------------------------------------------
Init ==
    /\ ioThreads = {} /\ stopped = {} /\ joining = FALSE    \* not set, nor read
    /\ shouldRun = [t \in IOThread |-> TRUE] /\ stopLoop = [t \in IOThread |-> FALSE]
    /\ pending = [t \in IOThread |-> 0]
    /\ eventLoop = [t \in IOThread |-> "none"]
    /\ inbox = [t \in IOThread |-> {}] /\ batch = [t \in IOThread |-> {}]
    /\ tpc = [t \in IOThread |-> "unborn"]
    /\ taskAt = [k \in IOTask |-> "new"] /\ worker = [k \in IOTask |-> NoThread]
    /\ opc = "idle" /\ call = "grow" /\ victims = {} /\ count = 0 /\ known = {}
    /\ sure = {} /\ bad = "no"

OwnerStep ==
    \/ AllStarted \/ EndRemove
    \/ \E t \in IOThread : ClearShouldRun(t) \/ StopEventLoop(t) \/ CollectIO(t)

ThreadStep(t) ==
    \/ Begin(t) \/ CheckShouldRun(t) \/ LoopTop(t) \/ NextRound(t) \/ Drain(t)
    \/ EndOnce(t) \/ Leave(t) \/ DropLoop(t)
    \/ \E k \in IOTask : RunCallback(t, k)

AddStep(k) == CountTask(k) \/ QueueTask(k)

Next ==
    /\ bad = "no"
    /\ \/ AddIOThreads \/ IOCall \/ OwnerStep
       \/ \E t \in IOThread : ThreadStep(t)
       \/ \E k \in IOTask : PickThread(k) \/ AddStep(k)

Spec == Init /\ [][Next]_ioVars

\* Threads are scheduled, tasks return and epoll_wait does within its timeout.
Fairness ==
    /\ WF_ioVars(bad = "no" /\ OwnerStep)
    /\ \A t \in IOThread : WF_ioVars(bad = "no" /\ ThreadStep(t))
    /\ \A k \in IOTask : WF_ioVars(bad = "no" /\ AddStep(k))

FairSpec == Spec /\ Fairness

-----------------------------------------------------------------------------
(***************************************************************************)
(* Properties.                                                             *)
(***************************************************************************)

\* The tasks that were given to t and counted, and have not run.
Held(t) == {k \in IOTask : worker[k] = t /\ taskAt[k] \in {"counted", "queued"}}

\* IOThread::pendingTasks counts the tasks that were given to the thread and have
\* not run, one that its own task added included: it never falls below zero, and
\* a thread that drains does not leave with a task unrun.
PendingExact == \A t \in IOThread : pending[t] = Cardinality(Held(t))

\* join() has run every task whose add ended before the call, and every task that
\* such a task added, on whichever thread, after whatever resizing: only an add
\* that overlaps a call, and a stop() before it, may leave a task behind.
IOJoinDrains ==
    opc = "idle" /\ call = "join" => \A k \in sure : taskAt[k] # "queued"

\* No RDDCHECK fails, and between calls the threads of threads_ are exactly those
\* that the observer knows, each with a running loop that nobody has told to stop.
IOSettled ==
    /\ bad # "failed"
    /\ opc = "idle" =>
         /\ known = ioThreads /\ stopped = {}
         /\ \A t \in ioThreads : shouldRun[t] /\ eventLoop[t] = "on" /\ ~stopLoop[t]
         /\ \A t \in IOThread \ ioThreads : tpc[t] \in {"unborn", "exited"}

\* setNumThreads, stop and join return, unless an add has crashed: a loop that is
\* told to stop is left, whenever that happens.
IOCallsReturn == opc # "idle" ~> opc = "idle" \/ bad = "crashed"
=============================================================================
