---------------------------- MODULE CPUThreadPool ----------------------------
(***************************************************************************)
(* raster/concurrency: ThreadPool and CPUThreadPool.                       *)
(*                                                                         *)
(* One owner thread resizes, stops, joins and observes the pool; any       *)
(* thread adds tasks; each pool thread runs threadRun.  A step is one      *)
(* access to state that another thread reads: the queues, threadsToStop_   *)
(* and isJoin_.  A failed RDDCHECK logs at FATAL, which aborts the         *)
(* process: it sets `failed` and nothing happens afterwards.               *)
(***************************************************************************)
EXTENDS Integers, Sequences, FiniteSets

CONSTANTS
    Thread,         \* the Thread objects the pool may ever create
    Task,           \* the tasks that callers may add
    Expirable,      \* the tasks added with an expiration
    Poison,         \* the CPUTask() that stops a thread
    InitialThreads, \* numThreads of the constructor
    Calls           \* the calls this owner makes

ASSUME PoolAssumption ==
    /\ IsFiniteSet(Thread)
    /\ Expirable \subseteq Task
    /\ Poison \notin Task
    /\ InitialThreads \in 1..Cardinality(Thread)
    /\ Calls \subseteq {"resize", "stop", "join", "observe"}

VARIABLES
    threads,        \* threads_
    taskQueue,      \* taskQueue_
    stoppedThreads, \* stoppedThreads_
    threadsToStop,  \* threadsToStop_, an atomic<ssize_t>
    isJoin,         \* isJoin_
    pc,             \* where each pool thread is in threadRun
    task,           \* the task a pool thread took
    taskState,      \* what happened to each task
    opc,            \* where the owner is
    call,           \* the call the owner is in, or made last
    count,          \* threads the owner still has to collect
    left,           \* poison tasks the owner still has to add
    fresh,          \* newThreads of the addThreads in progress
    watching,       \* the observer is in observers_
    seen,           \* the threads the observer believes to be running
    failed,         \* an RDDCHECK failed
    due,            \* history: tasks that the threads of the last join owed
    taken           \* history: tasks each thread took since threadsToStop_ was set

queues  == <<taskQueue, stoppedThreads>>
counts  == <<threadsToStop, isJoin>>
workers == <<pc, task, taskState, taken>>
owner   == <<opc, call, count, left, fresh, due>>
watch   == <<watching, seen>>
vars    == <<threads, queues, counts, workers, owner, watch, failed>>

ThreadPC == {"unborn", "created", "take", "poison", "stopping", "run",
             "count", "join", "dec", "undo", "exited"}

OwnerPC  == {"idle", "starting", "stopThreads", "poisoning", "collecting"}

TypeOK ==
    /\ threads \subseteq Thread
    /\ taskQueue \in Seq(Task \cup {Poison})
    /\ stoppedThreads \in Seq(Thread)
    /\ threadsToStop \in Int
    /\ isJoin \in BOOLEAN
    /\ pc \in [Thread -> ThreadPC]
    /\ task \in [Thread -> Task \cup {Poison}]
    /\ taskState \in [Task -> {"new", "queued", "running", "ran", "expired"}]
    /\ opc \in OwnerPC
    /\ call \in {"grow", "shrink", "stop", "join"}
    /\ count \in Nat /\ left \in Nat
    /\ fresh \subseteq Thread
    /\ watching \in BOOLEAN /\ seen \subseteq Thread
    /\ failed \in BOOLEAN
    /\ due \subseteq Task
    /\ taken \in [Thread -> Nat]

-----------------------------------------------------------------------------
(***************************************************************************)
(* The owner: addThreads, removeThreads, stopThreads and their callers.    *)
(***************************************************************************)

\* n Thread objects that have not been made yet.
Newcomers(n) ==
    {new \in SUBSET {t \in Thread : pc[t] = "unborn"} : Cardinality(new) = n}

\* addThreads up to the wait for the startup batons.
AddThreads(n) ==
    \E new \in Newcomers(n) :
        /\ threads' = threads \cup new
        /\ fresh' = new
        /\ pc' = [t \in Thread |-> IF t \in new THEN "created" ELSE pc[t]]
        /\ opc' = "starting"

\* addThreads once every new thread posted its startupBaton; told is what the
\* observers learn.
Started(told) ==
    /\ opc = "starting"
    /\ \A t \in fresh : pc[t] # "created"
    /\ seen' = IF watching THEN seen \cup told ELSE seen
    /\ fresh' = {}
    /\ opc' = "idle"
    /\ UNCHANGED <<threads, queues, counts, workers, call, count, left, due,
                   watching, failed>>

\* Fault: the observers are not told of new threads.
FinishAddThreadsUntold == Started({})

FinishAddThreads == Started(fresh)

\* removeThreads up to the call of stopThreads.
RemoveThreads(n, join, name) ==
    /\ failed' = (stoppedThreads # <<>>)
    /\ isJoin' = join
    /\ count' = n
    /\ call' = name
    /\ opc' = "stopThreads"
    /\ UNCHANGED <<threads, queues, threadsToStop, workers, left, fresh, watch>>

\* setNumThreads with more threads than there are.
Grow ==
    /\ opc = "idle" /\ "resize" \in Calls
    /\ \E n \in 1..Cardinality(Thread) : AddThreads(n)
    /\ call' = "grow"
    /\ UNCHANGED <<queues, counts, task, taskState, taken, count, left, due,
                   watch, failed>>

\* Fault: downsizing is not a join, so threads may stop without their poison.
ShrinkLikeStop ==
    /\ opc = "idle" /\ "resize" \in Calls
    /\ \E n \in 1..Cardinality(threads) : RemoveThreads(n, FALSE, "shrink")
    /\ UNCHANGED due

\* setNumThreads with fewer threads than there are.
Shrink ==
    /\ opc = "idle" /\ "resize" \in Calls
    /\ \E n \in 1..Cardinality(threads) : RemoveThreads(n, TRUE, "shrink")
    /\ UNCHANGED due

Stop ==
    /\ opc = "idle" /\ "stop" \in Calls
    /\ RemoveThreads(Cardinality(threads), FALSE, "stop")
    /\ UNCHANGED due

Join ==
    /\ opc = "idle" /\ "join" \in Calls
    /\ RemoveThreads(Cardinality(threads), TRUE, "join")
    /\ due' = {k \in Task : threads # {} /\ taskState[k] \in {"queued", "running"}}

\* CPUThreadPool::stopThreads up to its loop; n is what threadsToStop_ becomes.
SetThreadsToStop(n) ==
    /\ opc = "stopThreads"
    /\ failed' = (stoppedThreads # <<>>)
    /\ threadsToStop' = n
    /\ left' = count
    /\ opc' = IF count = 0 THEN "collecting" ELSE "poisoning"
    /\ taken' = [t \in Thread |-> 0]
    /\ UNCHANGED <<threads, queues, isJoin, pc, task, taskState, call, count,
                   fresh, due, watch>>

\* Fault: threadsToStop_ keeps its old value.
StopThreadsUncounted == SetThreadsToStop(threadsToStop)

StopThreads == SetThreadsToStop(count)

\* One round of the loop of stopThreads, which ends after round number last
\* from the end.
PoisonRound(last) ==
    /\ opc = "poisoning"
    /\ taskQueue' = Append(taskQueue, Poison)
    /\ left' = left - 1
    /\ opc' = IF left <= last THEN "collecting" ELSE "poisoning"
    /\ UNCHANGED <<threads, stoppedThreads, counts, workers, call, count, fresh,
                   due, watch, failed>>

\* Fault: one round too few.
AddPoisonTooRarely == PoisonRound(2)

AddPoison == PoisonRound(1)

\* One round of the loop of removeThreads: a stopped thread must be one of
\* threads_, from which it is erased.
Collect ==
    /\ opc = "collecting" /\ count > 0 /\ stoppedThreads # <<>>
    /\ failed' = (Head(stoppedThreads) \notin threads)
    /\ threads' = threads \ {Head(stoppedThreads)}
    /\ stoppedThreads' = Tail(stoppedThreads)
    /\ count' = count - 1
    /\ UNCHANGED <<taskQueue, counts, workers, opc, call, left, fresh, due, watch>>

\* The end of removeThreads, with at most n threads not collected.  The
\* callers' RDDCHECKs on threads_.size() cannot fail: only the owner changes
\* threads_.
Collected(n) ==
    /\ opc = "collecting" /\ count <= n
    /\ failed' = (stoppedThreads # <<>>)
    /\ opc' = "idle"
    /\ UNCHANGED <<threads, queues, counts, workers, call, count, left, fresh,
                   due, watch>>

\* Fault: the loop of removeThreads ends one thread early.
FinishRemoveThreadsEarly == Collected(1)

FinishRemoveThreads == Collected(0)

AddObserver ==
    /\ opc = "idle" /\ "observe" \in Calls /\ ~watching
    /\ watching' = TRUE
    /\ seen' = seen \cup threads
    /\ UNCHANGED <<threads, queues, counts, workers, owner, failed>>

RemoveObserver ==
    /\ opc = "idle" /\ watching
    /\ watching' = FALSE
    /\ seen' = seen \ threads
    /\ UNCHANGED <<threads, queues, counts, workers, owner, failed>>

-----------------------------------------------------------------------------
(***************************************************************************)
(* Callers of add, and the pool threads.                                   *)
(***************************************************************************)

Add(k) ==
    /\ taskState[k] = "new"
    /\ taskState' = [taskState EXCEPT ![k] = "queued"]
    /\ taskQueue' = Append(taskQueue, k)
    /\ UNCHANGED <<threads, stoppedThreads, counts, pc, task, taken, owner,
                   watch, failed>>

\* A pool thread moves on without touching the pool's state.
Goto(t, from, to) ==
    /\ pc[t] = from
    /\ pc' = [pc EXCEPT ![t] = to]
    /\ UNCHANGED <<threads, owner>>

\* threadRun before its loop: startupBaton.post.
Startup(t) ==
    /\ Goto(t, "created", "take")
    /\ UNCHANGED <<queues, counts, task, taskState, taken, watch, failed>>

\* taskQueue_.take: blocks while the queue is empty.
Take(t) ==
    /\ taskQueue # <<>>
    /\ Goto(t, "take", IF Head(taskQueue) = Poison THEN "poison" ELSE "run")
    /\ task' = [task EXCEPT ![t] = Head(taskQueue)]
    /\ taskQueue' = Tail(taskQueue)
    /\ taskState' = [k \in Task |-> IF k = Head(taskQueue) THEN "running"
                                                           ELSE taskState[k]]
    /\ taken' = IF Head(taskQueue) = Poison
                  THEN taken ELSE [taken EXCEPT ![t] = @ + 1]
    /\ UNCHANGED <<stoppedThreads, counts, watch, failed>>

\* RDDCHECK(threadsToStop_-- > 0)
TakePoison(t) ==
    /\ Goto(t, "poison", "stopping")
    /\ failed' = (threadsToStop <= 0)
    /\ threadsToStop' = threadsToStop - 1
    /\ UNCHANGED <<queues, isJoin, task, taskState, taken, watch>>

\* The observers are told, then the thread puts itself into stoppedThreads_.
StopOnPoison(t) ==
    /\ Goto(t, "stopping", "exited")
    /\ seen' = IF watching THEN seen \ {t} ELSE seen
    /\ stoppedThreads' = Append(stoppedThreads, t)
    /\ UNCHANGED <<taskQueue, counts, task, taskState, taken, watching, failed>>

\* runTask: the task's function returns or throws, or the task waited for its
\* expiration or longer and is not run.
RunTask(t) ==
    /\ Goto(t, "run", "count")
    /\ \E end \in {"ran"} \cup (IF task[t] \in Expirable THEN {"expired"} ELSE {}) :
           taskState' = [taskState EXCEPT ![task[t]] = end]
    /\ UNCHANGED <<queues, counts, task, taken, watch, failed>>

\* Fault: threadRun does not look at threadsToStop_ between tasks.
ReadCountNever(t) ==
    /\ Goto(t, "count", "take")
    /\ UNCHANGED <<queues, counts, task, taskState, taken, watch, failed>>

\* The left operand of threadsToStop_ > 0 && !isJoin_
ReadCount(t) ==
    /\ Goto(t, "count", IF threadsToStop > 0 THEN "join" ELSE "take")
    /\ UNCHANGED <<queues, counts, task, taskState, taken, watch, failed>>

\* Fault: threads stop early during a join as well.
ReadJoinNever(t) ==
    /\ Goto(t, "join", "dec")
    /\ UNCHANGED <<queues, counts, task, taskState, taken, watch, failed>>

\* The right operand of threadsToStop_ > 0 && !isJoin_
ReadJoin(t) ==
    /\ Goto(t, "join", IF isJoin THEN "take" ELSE "dec")
    /\ UNCHANGED <<queues, counts, task, taskState, taken, watch, failed>>

\* --threadsToStop_ >= 0: the thread stops without its poison and without
\* telling the observers.
StopEarly(t) ==
    /\ threadsToStop > 0
    /\ Goto(t, "dec", "exited")
    /\ threadsToStop' = threadsToStop - 1
    /\ stoppedThreads' = Append(stoppedThreads, t)
    /\ UNCHANGED <<taskQueue, isJoin, task, taskState, taken, watch, failed>>

\* --threadsToStop_ < 0
Overshoot(t) ==
    /\ threadsToStop <= 0
    /\ Goto(t, "dec", "undo")
    /\ threadsToStop' = threadsToStop - 1
    /\ UNCHANGED <<queues, isJoin, task, taskState, taken, watch, failed>>

\* threadsToStop_++
Undo(t) ==
    /\ Goto(t, "undo", "take")
    /\ threadsToStop' = threadsToStop + 1
    /\ UNCHANGED <<queues, isJoin, task, taskState, taken, watch, failed>>

-----------------------------------------------------------------------------
Init ==
    /\ \E new \in SUBSET Thread :
         /\ Cardinality(new) = InitialThreads
         /\ threads = new /\ fresh = new
         /\ pc = [t \in Thread |-> IF t \in new THEN "created" ELSE "unborn"]
    /\ taskQueue = <<>> /\ stoppedThreads = <<>>
    /\ threadsToStop = 0 /\ isJoin \in BOOLEAN  \* no constructor sets isJoin_
    /\ task = [t \in Thread |-> Poison]
    /\ taskState = [k \in Task |-> "new"]
    /\ opc = "starting" /\ call = "grow" /\ count = 0 /\ left = 0
    /\ watching = FALSE /\ seen = {}
    /\ failed = FALSE
    /\ due = {} /\ taken = [t \in Thread |-> 0]

OwnerStep == FinishAddThreads \/ StopThreads \/ AddPoison \/ Collect \/ FinishRemoveThreads

OwnerCall == Grow \/ Shrink \/ Stop \/ Join \/ AddObserver \/ RemoveObserver

ThreadStep(t) ==
    \/ Startup(t) \/ Take(t) \/ TakePoison(t) \/ StopOnPoison(t) \/ RunTask(t)
    \/ ReadCount(t) \/ ReadJoin(t) \/ StopEarly(t) \/ Overshoot(t) \/ Undo(t)

Next ==
    /\ ~failed
    /\ \/ OwnerStep
       \/ OwnerCall
       \/ \E k \in Task : Add(k)
       \/ \E t \in Thread : ThreadStep(t)

Spec == Init /\ [][Next]_vars

\* Threads are scheduled and tasks return; nobody has to call or add.
Fairness ==
    /\ WF_vars(~failed /\ OwnerStep)
    /\ \A t \in Thread : WF_vars(~failed /\ ThreadStep(t))

FairSpec == Spec /\ Fairness

-----------------------------------------------------------------------------
(***************************************************************************)
(* Properties.                                                             *)
(***************************************************************************)

\* No RDDCHECK of ThreadPool.cpp or CPUThreadPool.cpp ever fails: a poison is
\* only taken while threadsToStop_ > 0, removeThreads starts and ends with an
\* empty stoppedThreads_, and a stopped thread is one of threads_.
NoCheckFails == ~failed

\* join() of a pool that has a thread returns only when every task added
\* before the call has been run or has expired, whatever was resized before.
JoinDrains ==
    opc = "idle" /\ call = "join" =>
        \A k \in due : taskState[k] \in {"ran", "expired"}

\* stop() and join() return only when every thread the pool ever made has
\* left threadRun.
AllExited ==
    opc = "idle" /\ call \in {"stop", "join"} =>
        \A t \in Thread : pc[t] \in {"unborn", "exited"}

\* From the moment stop() sets threadsToStop_, no thread takes more than one
\* further task from the queue.
StopIsPrompt ==
    opc \in {"poisoning", "collecting"} /\ call = "stop" =>
        \A t \in Thread : taken[t] <= 1

\* Between calls nothing of an earlier removeThreads is left: threadsToStop_ is
\* 0, the queue holds no poison, and every thread of threads_ is working.
Settled ==
    opc = "idle" =>
        /\ threadsToStop = 0
        /\ \A i \in DOMAIN taskQueue : taskQueue[i] # Poison
        /\ \A t \in threads : pc[t] \notin {"poison", "stopping", "exited"}

\* Between calls an attached observer has been told of exactly the threads of
\* threads_, and a detached one of as many stops as starts.
ObserverAgrees ==
    opc = "idle" => seen = IF watching THEN threads ELSE {}

\* A call of the owner returns: setNumThreads, stop and join do not wait
\* forever for a startupBaton or for a thread to stop.
CallsReturn == opc # "idle" ~> opc = "idle"
=============================================================================
