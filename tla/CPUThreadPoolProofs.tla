------------------------- MODULE CPUThreadPoolProofs -------------------------
(***************************************************************************)
(* For any number of threads and tasks.  Whatever the owner calls, the     *)
(* pool is type-correct, stop() and join() return only when every thread   *)
(* has left threadRun, and no thread takes a second task after a stop().   *)
(* If the owner does not both stop and resize the pool, no RDDCHECK fails  *)
(* and join() drains the queue; if it never stops the pool, a removal      *)
(* leaves nothing behind and the observers agree with threads_.            *)
(***************************************************************************)
EXTENDS CPUThreadPool, FiniteSetTheorems, TLAPS

\* The owner is inside removeThreads.
Removing == opc \in {"stopThreads", "poisoning", "collecting"}

\* What removeThreads maintains while it works.  A thread that is neither
\* unborn nor exited is in threads_; a thread in stoppedThreads_ has exited; and
\* while everything is to be removed, the loop counter is the size of threads_.
IInv ==
    /\ TypeOK
    /\ AllExited
    /\ \A t \in Thread : pc[t] \notin {"unborn", "exited"} => t \in threads
    /\ \A i \in 1..Len(stoppedThreads) : pc[stoppedThreads[i]] = "exited"
    /\ opc = "starting" => call = "grow"
    /\ opc = "poisoning" => left > 0
    /\ Removing /\ call \in {"stop", "join"} /\ ~failed =>
         count = Cardinality(threads)

-----------------------------------------------------------------------------
(***************************************************************************)
(* The inductive invariants of the other theorems, each on top of IInv.    *)
(***************************************************************************)

\* threadsToStop_ has been set and the threads are stopping.
Counting == opc \in {"poisoning", "collecting"}

\* The threads that have not decremented threadsToStop_ to stop.
Unclaimed == {t \in Thread : pc[t] \notin {"unborn", "stopping", "exited"}}

Stopping == {t \in Thread : pc[t] = "stopping"}

AtPoison == {t \in Thread : pc[t] = "poison"}

\* The places of a queue that hold a poison.
PoisonsOf(q) == {i \in 1..Len(q) : q[i] = Poison}

\* While all threads are to be removed threadsToStop_ covers every thread that
\* may still decrement it; so during a stop() it is positive wherever a thread
\* reads it, and the thread that took a task does not come back for another.
PromptInv ==
    /\ Removing => (isJoin <=> call # "stop")
    /\ Counting /\ call \in {"stop", "join"} /\ ~failed =>
         threadsToStop >= Cardinality(Unclaimed)
    /\ Counting /\ call = "stop" =>
         \A t \in Thread :
            /\ taken[t] <= 1
            /\ pc[t] \in {"unborn", "created", "take", "poison", "undo"} => taken[t] = 0

\* The owner does not both stop the pool and resize it.
Careful == "stop" \notin Calls \/ "resize" \notin Calls

\* The removal in progress is one the owner may call, and a thread is about to
\* stop early only during a stop().
EarlyInv ==
    /\ Removing => /\ call = "stop" => "stop" \in Calls
                   /\ call = "shrink" => "resize" \in Calls
                   /\ call # "grow"
    /\ \A t \in Thread :
         /\ pc[t] # "undo"
         /\ pc[t] = "dec" => Counting /\ call = "stop"
         /\ pc[t] = "join" => Counting \/ (isJoin /\ "stop" \notin Calls)

\* stoppedThreads_ holds the threads of threads_ that exited, each once.
StoppedInv ==
    /\ \A i, j \in 1..Len(stoppedThreads) :
         stoppedThreads[i] = stoppedThreads[j] => i = j
    /\ \A i \in 1..Len(stoppedThreads) : stoppedThreads[i] \in threads
    /\ \A t \in threads :
         /\ pc[t] # "unborn"
         /\ pc[t] = "exited" => \E i \in 1..Len(stoppedThreads) : stoppedThreads[i] = t

\* Every thread to be removed is still to decrement threadsToStop_, on its way
\* into stoppedThreads_, or in it.
CountInv ==
    /\ threadsToStop >= 0
    /\ Counting =>
         count = threadsToStop + Cardinality(Stopping) + Len(stoppedThreads)
    /\ ~Counting => threadsToStop = 0 /\ Stopping = {} /\ stoppedThreads = <<>>

\* In a pool that is never stopped threadsToStop_ is the number of poisons that
\* have not taken effect.
PoisonInv ==
    /\ opc = "collecting" => left = 0
    /\ "stop" \notin Calls =>
         IF Counting
           THEN threadsToStop = left + Cardinality(PoisonsOf(taskQueue))
                                     + Cardinality(AtPoison)
           ELSE PoisonsOf(taskQueue) = {} /\ AtPoison = {}
    /\ "resize" \notin Calls /\ ~Counting =>
         threads = {} \/ (PoisonsOf(taskQueue) = {} /\ AtPoison = {})

CheckInv == ~failed /\ EarlyInv /\ StoppedInv /\ CountInv /\ PoisonInv

\* A queued task is in the queue once, a running one with one thread.
TaskInv ==
    /\ \A i, j \in 1..Len(taskQueue) :
         taskQueue[i] = taskQueue[j] /\ taskQueue[i] # Poison => i = j
    /\ \A k \in Task :
         taskState[k] = "queued" <=> \E i \in 1..Len(taskQueue) : taskQueue[i] = k
    /\ \A t \in Thread : pc[t] = "run" =>
         task[t] \in Task /\ taskState[task[t]] = "running"
    /\ \A t, u \in Thread :
         pc[t] = "run" /\ pc[u] = "run" /\ task[t] = task[u] => t = u
    /\ \A k \in Task : taskState[k] = "running" =>
         \E t \in Thread : pc[t] = "run" /\ task[t] = k

\* The tasks that a join() owes precede every poison, and while one is in the
\* queue no thread has begun to stop.
Ahead ==
    \A i \in 1..Len(taskQueue) : taskQueue[i] \in due =>
       /\ \A j \in 1..Len(taskQueue) : taskQueue[j] = Poison => i < j
       /\ AtPoison = {} /\ Stopping = {} /\ stoppedThreads = <<>> /\ count > 0

DrainInv ==
    /\ JoinDrains
    /\ call = "join" => \A k \in due : taskState[k] # "new"
    /\ Removing /\ call = "join" => Ahead

\* The observer knows the threads that were announced and have not stopped.
ObserverInv ==
    /\ opc # "starting" => fresh = {}
    /\ fresh \subseteq threads
    /\ seen = IF watching THEN {t \in threads : pc[t] # "exited"} \ fresh ELSE {}

-----------------------------------------------------------------------------
\* threads_ is always a finite set.
LEMMA ThreadsFinite ==
    ASSUME NEW S \in SUBSET Thread
    PROVE  IsFiniteSet(S) /\ Cardinality(S) \in Nat
BY PoolAssumption, FS_Subset, FS_CardinalityType, Zenon

\* Erasing an element of threads_ makes it smaller by one.
LEMMA EraseOne ==
    ASSUME NEW S \in SUBSET Thread, NEW t \in S
    PROVE  Cardinality(S \ {t}) = Cardinality(S) - 1
BY ThreadsFinite, FS_RemoveElement, Zenon

-----------------------------------------------------------------------------
\* A set of threads that gains one thread.
LEMMA OneMore ==
    ASSUME NEW S \in SUBSET Thread, NEW t \in Thread \ S
    PROVE  Cardinality(S \cup {t}) = Cardinality(S) + 1
BY ThreadsFinite, FS_AddElement, Zenon

\* The places of poisons in a queue are finitely many.
LEMMA PoisonsFinite ==
    ASSUME NEW q \in Seq(Task \cup {Poison})
    PROVE  /\ IsFiniteSet(PoisonsOf(q)) /\ Cardinality(PoisonsOf(q)) \in Nat
           /\ (Cardinality(PoisonsOf(q)) = 0) <=> (PoisonsOf(q) = {})
<1>1. IsFiniteSet(1..Len(q)) /\ PoisonsOf(q) \in SUBSET (1..Len(q))
    BY FS_Interval DEF PoisonsOf
<1> QED
    BY <1>1, FS_Subset, FS_CardinalityType, FS_EmptySet, Zenon

\* add() appends: a poison is one more, a task none.
LEMMA PoisonsOfAppend ==
    ASSUME NEW q \in Seq(Task \cup {Poison}), NEW x \in Task \cup {Poison}
    PROVE  /\ x # Poison => PoisonsOf(Append(q, x)) = PoisonsOf(q)
           /\ x = Poison =>
                Cardinality(PoisonsOf(Append(q, x))) = Cardinality(PoisonsOf(q)) + 1
<1>1. /\ Len(Append(q, x)) = Len(q) + 1 /\ Append(q, x)[Len(q) + 1] = x
      /\ \A i \in 1..Len(q) : Append(q, x)[i] = q[i]
      /\ Len(q) \in Nat
    OBVIOUS
<1>2. x # Poison => PoisonsOf(Append(q, x)) = PoisonsOf(q)
    BY <1>1 DEF PoisonsOf
<1>3. ASSUME x = Poison
      PROVE  PoisonsOf(Append(q, x)) = PoisonsOf(q) \cup {Len(q) + 1}
    BY <1>1, <1>3 DEF PoisonsOf
<1>4. Len(q) + 1 \notin PoisonsOf(q)
    BY <1>1 DEF PoisonsOf
<1> QED
    BY <1>2, <1>3, <1>4, PoisonsFinite, FS_AddElement, Zenon

\* take() removes the head: a poison is one less, a task none.
LEMMA PoisonsOfTail ==
    ASSUME NEW q \in Seq(Task \cup {Poison}), q # <<>>
    PROVE  Cardinality(PoisonsOf(Tail(q))) =
             IF Head(q) = Poison THEN Cardinality(PoisonsOf(q)) - 1
                                 ELSE Cardinality(PoisonsOf(q))
<1> DEFINE S == PoisonsOf(Tail(q))
           T == PoisonsOf(q) \ {1}
           f == [i \in S |-> i + 1]
<1>1. /\ Tail(q) \in Seq(Task \cup {Poison}) /\ Head(q) = q[1]
      /\ Len(q) \in Nat \ {0} /\ Len(Tail(q)) = Len(q) - 1
      /\ \A i \in 1..(Len(q) - 1) : Tail(q)[i] = q[i + 1]
    OBVIOUS
<1>2. S \subseteq Nat /\ \A i \in S : i + 1 \in T
    BY <1>1 DEF PoisonsOf
<1>3. ASSUME NEW j \in T PROVE j - 1 \in S /\ j = f[j - 1]
    <2>1. j \in 2..Len(q) /\ q[j] = Poison
        BY <1>1, <1>3 DEF PoisonsOf
    <2>2. j - 1 \in 1..(Len(q) - 1) /\ (j - 1) + 1 = j
        BY <1>1, <2>1
    <2>3. j - 1 \in S
        BY <1>1, <2>1, <2>2, Zenon DEF PoisonsOf
    <2> QED
        BY <2>2, <2>3, Zenon
<1>4. f \in [S -> T] /\ \A i, j \in S : f[i] = f[j] => i = j
    BY <1>2
<1>5. \A j \in T : \E i \in S : f[i] = j
    BY <1>3, Zenon
<1> HIDE DEF S, T, f
<1>6. ExistsBijection(S, T)
    <2>1. f \in Injection(S, T)
        BY <1>4, Zenon DEF Injection, IsInjective
    <2>2. f \in Surjection(S, T)
        BY <1>4, <1>5, Zenon DEF Surjection
    <2> QED
        BY <2>1, <2>2, Zenon DEF ExistsBijection, Bijection
<1>7. IsFiniteSet(S)
    BY <1>1, PoisonsFinite, Zenon DEF S
<1>8. Cardinality(T) = Cardinality(S)
    BY <1>6, <1>7, FS_Bijection, Zenon
<1>9. (1 \in PoisonsOf(q)) <=> (Head(q) = Poison)
    BY <1>1 DEF PoisonsOf
<1> QED
    BY <1>8, <1>9, PoisonsFinite, FS_RemoveElement, Zenon DEF S, T

\* The constructor establishes the invariant.
LEMMA InitIInv == Init => IInv
<1> SUFFICES ASSUME Init PROVE IInv
    BY Zenon
<1>1. isJoin \in BOOLEAN /\ failed \in BOOLEAN /\ watching \in BOOLEAN
    BY Zenon DEF Init
<1>2. TypeOK
    BY <1>1 DEF Init, TypeOK, ThreadPC, OwnerPC
<1> QED
    BY <1>2 DEF Init, IInv, AllExited, Removing

-----------------------------------------------------------------------------
\* A step of the owner inside a call preserves the invariant.
LEMMA OwnerStepIInv == IInv /\ ~failed /\ OwnerStep => IInv'
<1> SUFFICES ASSUME IInv, ~failed, OwnerStep PROVE IInv'
    BY Zenon
<1> USE DEF IInv, TypeOK, AllExited, Removing, ThreadPC, OwnerPC,
            queues, counts, workers, owner, watch
<1>1. CASE FinishAddThreads
    BY <1>1, Zenon DEF FinishAddThreads, Started
<1>2. CASE StopThreads
    BY <1>2 DEF StopThreads, SetThreadsToStop
<1>3. CASE AddPoison
    BY <1>3 DEF AddPoison, PoisonRound
<1>4. CASE Collect
    <2> DEFINE s == stoppedThreads
    <2>1. /\ s # <<>> /\ Head(s) = s[1] /\ s[1] \in Thread
          /\ Tail(s) \in Seq(Thread) /\ Len(Tail(s)) = Len(s) - 1
          /\ \A i \in 1..Len(Tail(s)) : Tail(s)[i] = s[i + 1]
        BY <1>4 DEF Collect
    <2>2. \A i \in 1..Len(stoppedThreads') : pc'[stoppedThreads'[i]] = "exited"
        BY <1>4, <2>1 DEF Collect
    <2>3. \A t \in Thread : pc'[t] \notin {"unborn", "exited"} => t \in threads'
        BY <1>4, <2>1 DEF Collect
    <2>4. ~failed' => Cardinality(threads') = Cardinality(threads) - 1
        BY <1>4, EraseOne, Zenon DEF Collect
    <2>5. TypeOK'
        BY <1>4, <2>1 DEF Collect
    <2> QED
        BY <1>4, <2>2, <2>3, <2>4, <2>5, Zenon DEF Collect
<1>5. CASE FinishRemoveThreads
    <2>1. threads = {} \/ Cardinality(threads) # 0
        BY ThreadsFinite, FS_EmptySet, Zenon
    <2> QED
        BY <1>5, <2>1 DEF FinishRemoveThreads, Collected
<1> QED
    BY <1>1, <1>2, <1>3, <1>4, <1>5, Zenon DEF OwnerStep

\* The beginning of a call of the owner preserves the invariant.
LEMMA OwnerCallIInv == IInv /\ ~failed /\ OwnerCall => IInv'
<1> SUFFICES ASSUME IInv, ~failed, OwnerCall PROVE IInv'
    BY Zenon
<1> USE DEF IInv, TypeOK, AllExited, Removing, ThreadPC, OwnerPC,
            queues, counts, workers, owner, watch
<1>0. Cardinality(threads) \in Nat
    BY ThreadsFinite, Zenon
<1>1. CASE Grow
    <2>1. PICK n \in 1..Cardinality(Thread) : AddThreads(n)
        BY <1>1, Zenon DEF Grow
    <2>2. PICK new \in Newcomers(n) :
             /\ threads' = threads \cup new
             /\ fresh' = new
             /\ pc' = [t \in Thread |-> IF t \in new THEN "created" ELSE pc[t]]
             /\ opc' = "starting"
        BY <2>1, Zenon DEF AddThreads
    <2>3. new \subseteq Thread /\ \A t \in new : pc[t] = "unborn"
        BY Zenon DEF Newcomers
    <2> QED
        BY <1>1, <2>2, <2>3 DEF Grow
<1>2. CASE Shrink
    BY <1>0, <1>2 DEF Shrink, RemoveThreads
<1>3. CASE Stop
    BY <1>0, <1>3, Zenon DEF Stop, RemoveThreads
<1>4. CASE Join
    BY <1>0, <1>4, Zenon DEF Join, RemoveThreads
<1>5. CASE AddObserver
    BY <1>5, Zenon DEF AddObserver
<1>6. CASE RemoveObserver
    BY <1>6, Zenon DEF RemoveObserver
<1> QED
    BY <1>1, <1>2, <1>3, <1>4, <1>5, <1>6, Zenon DEF OwnerCall

\* A thread that appends itself to stoppedThreads_ as it exits preserves what
\* the invariant says of stoppedThreads_.
LEMMA ExitIInv ==
    ASSUME IInv, NEW t \in Thread, pc' = [pc EXCEPT ![t] = "exited"],
           stoppedThreads' = Append(stoppedThreads, t)
    PROVE  /\ stoppedThreads' \in Seq(Thread)
           /\ \A i \in 1..Len(stoppedThreads') : pc'[stoppedThreads'[i]] = "exited"
<1>1. /\ stoppedThreads \in Seq(Thread) /\ pc \in [Thread -> ThreadPC]
      /\ \A i \in 1..Len(stoppedThreads) : pc[stoppedThreads[i]] = "exited"
    BY Zenon DEF IInv, TypeOK
<1>2. /\ stoppedThreads' \in Seq(Thread)
      /\ Len(stoppedThreads') = Len(stoppedThreads) + 1
      /\ stoppedThreads'[Len(stoppedThreads) + 1] = t
      /\ \A i \in 1..Len(stoppedThreads) :
            /\ stoppedThreads[i] \in Thread
            /\ stoppedThreads'[i] = stoppedThreads[i]
      /\ 1..(Len(stoppedThreads) + 1) = 1..Len(stoppedThreads) \cup {Len(stoppedThreads) + 1}
    BY <1>1
<1>3. pc'[t] = "exited" /\ \A u \in Thread : pc[u] = "exited" => pc'[u] = "exited"
    BY <1>1
<1> SUFFICES ASSUME NEW i \in 1..Len(stoppedThreads')
             PROVE  pc'[stoppedThreads'[i]] = "exited"
    BY <1>2
<1>4. CASE i \in 1..Len(stoppedThreads)
    BY <1>1, <1>2, <1>3, <1>4, Zenon
<1>5. CASE i = Len(stoppedThreads) + 1
    BY <1>2, <1>3, <1>5, Zenon
<1> QED
    BY <1>2, <1>4, <1>5

\* A step of a pool thread preserves the invariant.
LEMMA ThreadStepIInv ==
    ASSUME IInv, ~failed, NEW t \in Thread, ThreadStep(t)
    PROVE  IInv'
<1> USE DEF IInv, TypeOK, AllExited, Removing, ThreadPC, OwnerPC, Goto,
            queues, counts, workers, owner, watch
<1>1. CASE Startup(t)
    BY <1>1 DEF Startup
<1>2. CASE Take(t)
    <2>1. /\ Head(taskQueue) \in Task \cup {Poison}
          /\ Tail(taskQueue) \in Seq(Task \cup {Poison})
        BY <1>2 DEF Take
    <2>2. taken' \in [Thread -> Nat] /\ taskState' \in
             [Task -> {"new", "queued", "running", "ran", "expired"}]
        BY <1>2 DEF Take
    <2> QED
        BY <1>2, <2>1, <2>2 DEF Take
<1>3. CASE TakePoison(t)
    BY <1>3 DEF TakePoison
<1>4. CASE StopOnPoison(t)
    BY <1>4, ExitIInv DEF StopOnPoison
<1>5. CASE RunTask(t)
    <2>1. taskState' \in [Task -> {"new", "queued", "running", "ran", "expired"}]
        BY <1>5, Zenon DEF RunTask
    <2> QED
        BY <1>5, <2>1 DEF RunTask
<1>6. CASE ReadCount(t)
    BY <1>6 DEF ReadCount
<1>7. CASE ReadJoin(t)
    BY <1>7 DEF ReadJoin
<1>8. CASE StopEarly(t)
    BY <1>8, ExitIInv DEF StopEarly
<1>9. CASE Overshoot(t)
    BY <1>9 DEF Overshoot
<1>10. CASE Undo(t)
    BY <1>10 DEF Undo
<1> QED
    BY <1>1, <1>2, <1>3, <1>4, <1>5, <1>6, <1>7, <1>8, <1>9, <1>10, Zenon DEF ThreadStep

\* Every step preserves the invariant.
LEMMA NextIInv == IInv /\ [Next]_vars => IInv'
<1> SUFFICES ASSUME IInv, [Next]_vars PROVE IInv'
    BY Zenon
<1>1. ASSUME NEW k \in Task, Add(k) PROVE IInv'
    BY <1>1 DEF Add, IInv, TypeOK, AllExited, Removing, queues, counts, workers,
                owner, watch
<1>2. CASE UNCHANGED vars
    BY <1>2, Zenon DEF IInv, TypeOK, AllExited, Removing, vars, queues, counts, workers,
                owner, watch
<1> QED
    BY <1>1, <1>2, OwnerStepIInv, OwnerCallIInv, ThreadStepIInv, Zenon DEF Next

\* The invariant holds in every reachable state.
LEMMA Invariance == Spec => []IInv
BY InitIInv, NextIInv, PTL DEF Spec

-----------------------------------------------------------------------------
(***************************************************************************)
(* A stop() is prompt.                                                     *)
(***************************************************************************)

\* The threads that threadsToStop_ must cover, when one of them moves.
LEMMA UnclaimedMove ==
    ASSUME NEW t \in Unclaimed, \A u \in Thread \ {t} : pc'[u] = pc[u]
    PROVE  /\ Cardinality(Unclaimed) \in Nat /\ Cardinality(Unclaimed) > 0
           /\ pc'[t] \in {"stopping", "exited"} =>
                Cardinality(Unclaimed') = Cardinality(Unclaimed) - 1
           /\ pc'[t] \notin {"unborn", "stopping", "exited"} => Unclaimed' = Unclaimed
<1>1. Unclaimed \in SUBSET Thread /\ Unclaimed # {}
    BY Zenon DEF Unclaimed
<1>2. pc'[t] \in {"stopping", "exited"} => Unclaimed' = Unclaimed \ {t}
    BY Zenon DEF Unclaimed
<1>3. pc'[t] \notin {"unborn", "stopping", "exited"} => Unclaimed' = Unclaimed
    BY Zenon DEF Unclaimed
<1>4. /\ Cardinality(Unclaimed) \in Nat
      /\ Cardinality(Unclaimed) # 0
      /\ Cardinality(Unclaimed \ {t}) = Cardinality(Unclaimed) - 1
    BY <1>1, ThreadsFinite, EraseOne, FS_EmptySet, Zenon
<1> QED
    BY <1>2, <1>3, <1>4

\* A thread that moves from stopping, or a step of nobody, leaves them alone.
LEMMA UnclaimedStays ==
    ASSUME TypeOK, NEW t \in Thread, pc[t] = "stopping",
           pc' = [pc EXCEPT ![t] = "exited"]
    PROVE  Unclaimed' = Unclaimed
BY Zenon DEF Unclaimed, TypeOK, ThreadPC

\* A step of the owner or of a caller of add preserves PromptInv.
LEMMA OwnerPromptInv ==
    ASSUME IInv, PromptInv, ~failed,
           OwnerStep \/ OwnerCall \/ \E k \in Task : Add(k)
    PROVE  PromptInv'
<1> USE DEF PromptInv, Removing, Counting, queues, counts, workers, owner, watch
<1>1. CASE FinishAddThreads
    BY <1>1, Zenon DEF FinishAddThreads, Started
<1>2. CASE StopThreads
    <2>1. Unclaimed \in SUBSET threads /\ threads \in SUBSET Thread
        BY Zenon DEF IInv, TypeOK, Unclaimed
    <2>2. Cardinality(Unclaimed) \in Nat /\ Cardinality(Unclaimed) <= Cardinality(threads)
        BY <2>1, ThreadsFinite, FS_Subset, Zenon
    <2>3. call \in {"stop", "join"} => threadsToStop' = Cardinality(threads)
        BY <1>2, Zenon DEF StopThreads, SetThreadsToStop, IInv
    <2>4. Unclaimed' = Unclaimed
        BY <1>2, Zenon DEF StopThreads, SetThreadsToStop, Unclaimed
    <2>5. call \in {"stop", "join"} => threadsToStop' >= Cardinality(Unclaimed')
        BY <2>2, <2>3, <2>4, Zenon
    <2>6. \A t \in Thread : taken'[t] = 0
        BY <1>2, Zenon DEF StopThreads, SetThreadsToStop
    <2> QED
        BY <1>2, <2>5, <2>6 DEF StopThreads, SetThreadsToStop
<1>3. CASE AddPoison
    <2>1. Unclaimed' = Unclaimed
        BY <1>3, Zenon DEF AddPoison, PoisonRound, Unclaimed
    <2> QED
        BY <1>3, <2>1, Zenon DEF AddPoison, PoisonRound
<1>4. CASE Collect
    <2>1. Unclaimed' = Unclaimed
        BY <1>4, Zenon DEF Collect, Unclaimed
    <2> QED
        BY <1>4, <2>1, Zenon DEF Collect
<1>5. CASE FinishRemoveThreads
    BY <1>5, Zenon DEF FinishRemoveThreads, Collected
<1>6. CASE Grow
    BY <1>6, Zenon DEF Grow, AddThreads
<1>7. CASE Shrink
    BY <1>7, Zenon DEF Shrink, RemoveThreads
<1>8. CASE Stop
    BY <1>8, Zenon DEF Stop, RemoveThreads
<1>9. CASE Join
    BY <1>9, Zenon DEF Join, RemoveThreads
<1>10. CASE AddObserver
    BY <1>10, Zenon DEF AddObserver
<1>11. CASE RemoveObserver
    BY <1>11, Zenon DEF RemoveObserver
<1>12. ASSUME NEW k \in Task, Add(k) PROVE PromptInv'
    <2>1. Unclaimed' = Unclaimed
        BY <1>12, Zenon DEF Add, Unclaimed
    <2> QED
        BY <1>12, <2>1, Zenon DEF Add
<1> QED
    BY <1>1, <1>2, <1>3, <1>4, <1>5, <1>6, <1>7, <1>8, <1>9, <1>10, <1>11, <1>12, Zenon
       DEF OwnerStep, OwnerCall

\* A step of a pool thread preserves PromptInv: during a stop() the thread finds
\* threadsToStop_ positive, so it goes on to stop.
LEMMA ThreadPromptInv ==
    ASSUME IInv, PromptInv, ~failed, NEW t \in Thread, ThreadStep(t)
    PROVE  PromptInv'
<1> USE DEF PromptInv, Removing, Counting, Goto, queues, counts, workers, owner, watch
<1>0. TypeOK /\ threadsToStop \in Int /\ taken \in [Thread -> Nat]
    BY Zenon DEF IInv, TypeOK
<1>1. CASE Startup(t)
    <2>1. t \in Unclaimed
        BY <1>1, Zenon DEF Startup, Unclaimed
    <2>2. /\ \A u \in Thread \ {t} : pc'[u] = pc[u]
          /\ pc'[t] \notin {"unborn", "stopping", "exited"}
        BY <1>0, <1>1, Zenon DEF Startup, TypeOK
    <2>3. /\ Cardinality(Unclaimed) \in Nat /\ Cardinality(Unclaimed) > 0
          /\ Cardinality(Unclaimed') = Cardinality(Unclaimed)
        BY <2>1, <2>2, UnclaimedMove, Zenon
    <2> QED
        BY <1>0, <1>1, <2>2, <2>3, Zenon DEF Startup, TypeOK
<1>2. CASE Take(t)
    <2>1. t \in Unclaimed
        BY <1>2, Zenon DEF Take, Unclaimed
    <2>2. /\ \A u \in Thread \ {t} : pc'[u] = pc[u]
          /\ pc'[t] \notin {"unborn", "stopping", "exited"}
        BY <1>0, <1>2, Zenon DEF Take, TypeOK
    <2>3. Cardinality(Unclaimed') = Cardinality(Unclaimed)
        BY <2>1, <2>2, UnclaimedMove, Zenon
    <2>4. taken'[t] <= 1 \/ ~(Counting /\ call = "stop")
        BY <1>0, <1>2 DEF Take
    <2>5. \A u \in Thread \ {t} : taken'[u] = taken[u]
        BY <1>0, <1>2, Zenon DEF Take
    <2>6. pc'[t] = "poison" => taken' = taken
        BY <1>0, <1>2, Zenon DEF Take, TypeOK
    <2> QED
        BY <1>0, <1>2, <2>3, <2>4, <2>5, <2>6, Zenon DEF Take, TypeOK
<1>3. CASE TakePoison(t)
    <2>1. t \in Unclaimed
        BY <1>3, Zenon DEF TakePoison, Unclaimed
    <2>2. /\ \A u \in Thread \ {t} : pc'[u] = pc[u]
          /\ pc'[t] \in {"stopping", "exited"}
        BY <1>0, <1>3, Zenon DEF TakePoison, TypeOK
    <2>3. /\ Cardinality(Unclaimed) \in Nat /\ Cardinality(Unclaimed) > 0
          /\ Cardinality(Unclaimed') = Cardinality(Unclaimed) - 1
        BY <2>1, <2>2, UnclaimedMove, Zenon
    <2> QED
        BY <1>0, <1>3, <2>2, <2>3 DEF TakePoison, TypeOK
<1>4. CASE StopOnPoison(t)
    BY <1>0, <1>4, UnclaimedStays, Zenon DEF StopOnPoison, TypeOK
<1>5. CASE RunTask(t)
    <2>1. t \in Unclaimed
        BY <1>5, Zenon DEF RunTask, Unclaimed
    <2>2. /\ \A u \in Thread \ {t} : pc'[u] = pc[u]
          /\ pc'[t] \notin {"unborn", "stopping", "exited"}
        BY <1>0, <1>5, Zenon DEF RunTask, TypeOK
    <2>3. /\ Cardinality(Unclaimed) \in Nat /\ Cardinality(Unclaimed) > 0
          /\ Cardinality(Unclaimed') = Cardinality(Unclaimed)
        BY <2>1, <2>2, UnclaimedMove, Zenon
    <2> QED
        BY <1>0, <1>5, <2>2, <2>3, Zenon DEF RunTask, TypeOK
<1>6. CASE ReadCount(t)
    <2>1. t \in Unclaimed
        BY <1>6, Zenon DEF ReadCount, Unclaimed
    <2>2. /\ \A u \in Thread \ {t} : pc'[u] = pc[u]
          /\ pc'[t] \notin {"unborn", "stopping", "exited"}
        BY <1>0, <1>6, Zenon DEF ReadCount, TypeOK
    <2>3. /\ Cardinality(Unclaimed) \in Nat /\ Cardinality(Unclaimed) > 0
          /\ Cardinality(Unclaimed') = Cardinality(Unclaimed)
        BY <2>1, <2>2, UnclaimedMove, Zenon
    <2> QED
        BY <1>0, <1>6, <2>2, <2>3 DEF ReadCount, TypeOK
<1>7. CASE ReadJoin(t)
    <2>1. t \in Unclaimed
        BY <1>7, Zenon DEF ReadJoin, Unclaimed
    <2>2. /\ \A u \in Thread \ {t} : pc'[u] = pc[u]
          /\ pc'[t] \notin {"unborn", "stopping", "exited"}
        BY <1>0, <1>7, Zenon DEF ReadJoin, TypeOK
    <2>3. /\ Cardinality(Unclaimed) \in Nat /\ Cardinality(Unclaimed) > 0
          /\ Cardinality(Unclaimed') = Cardinality(Unclaimed)
        BY <2>1, <2>2, UnclaimedMove, Zenon
    <2> QED
        BY <1>0, <1>7, <2>2, <2>3, Zenon DEF ReadJoin, TypeOK
<1>8. CASE StopEarly(t)
    <2>1. t \in Unclaimed
        BY <1>8, Zenon DEF StopEarly, Unclaimed
    <2>2. /\ \A u \in Thread \ {t} : pc'[u] = pc[u]
          /\ pc'[t] \in {"stopping", "exited"}
        BY <1>0, <1>8, Zenon DEF StopEarly, TypeOK
    <2>3. /\ Cardinality(Unclaimed) \in Nat /\ Cardinality(Unclaimed) > 0
          /\ Cardinality(Unclaimed') = Cardinality(Unclaimed) - 1
        BY <2>1, <2>2, UnclaimedMove, Zenon
    <2> QED
        BY <1>0, <1>8, <2>2, <2>3 DEF StopEarly, TypeOK
<1>9. CASE Overshoot(t)
    <2>1. t \in Unclaimed
        BY <1>9, Zenon DEF Overshoot, Unclaimed
    <2>2. /\ \A u \in Thread \ {t} : pc'[u] = pc[u]
          /\ pc'[t] \notin {"unborn", "stopping", "exited"}
        BY <1>0, <1>9, Zenon DEF Overshoot, TypeOK
    <2>3. /\ Cardinality(Unclaimed) \in Nat /\ Cardinality(Unclaimed) > 0
          /\ Cardinality(Unclaimed') = Cardinality(Unclaimed)
        BY <2>1, <2>2, UnclaimedMove, Zenon
    <2> QED
        BY <1>0, <1>9, <2>2, <2>3 DEF Overshoot, TypeOK
<1>10. CASE Undo(t)
    <2>1. t \in Unclaimed
        BY <1>10, Zenon DEF Undo, Unclaimed
    <2>2. /\ \A u \in Thread \ {t} : pc'[u] = pc[u]
          /\ pc'[t] \notin {"unborn", "stopping", "exited"}
        BY <1>0, <1>10, Zenon DEF Undo, TypeOK
    <2>3. /\ Cardinality(Unclaimed) \in Nat /\ Cardinality(Unclaimed) > 0
          /\ Cardinality(Unclaimed') = Cardinality(Unclaimed)
        BY <2>1, <2>2, UnclaimedMove, Zenon
    <2> QED
        BY <1>0, <1>10, <2>2, <2>3 DEF Undo, TypeOK
<1> QED
    BY <1>1, <1>2, <1>3, <1>4, <1>5, <1>6, <1>7, <1>8, <1>9, <1>10, Zenon DEF ThreadStep

\* PromptInv holds in every reachable state.
LEMMA PromptInvariance == Spec => []PromptInv
<1>1. Init => PromptInv
    BY Zenon DEF Init, PromptInv, Removing, Counting
<1>2. IInv /\ PromptInv /\ [Next]_vars => PromptInv'
    <2> SUFFICES ASSUME IInv, PromptInv, [Next]_vars PROVE PromptInv'
        BY Zenon
    <2>1. CASE UNCHANGED vars
        <3>1. Unclaimed' = Unclaimed
            BY <2>1, Zenon DEF vars, workers, Unclaimed
        <3> QED
            BY <2>1, <3>1, Zenon DEF vars, counts, workers, owner, PromptInv, Removing, Counting
    <2> QED
        BY <2>1, OwnerPromptInv, ThreadPromptInv, Zenon DEF Next
<1> QED
    BY <1>1, <1>2, Invariance, PTL DEF Spec

-----------------------------------------------------------------------------
(***************************************************************************)
(* No RDDCHECK fails, unless the owner both stops and resizes the pool.    *)
(***************************************************************************)

\* The threads on their way into stoppedThreads_, when a thread moves.
LEMMA StoppingMove ==
    ASSUME NEW t \in Thread, \A u \in Thread \ {t} : pc'[u] = pc[u]
    PROVE  /\ Cardinality(Stopping) \in Nat
           /\ pc[t] = "stopping" /\ pc'[t] # "stopping" =>
                Cardinality(Stopping') = Cardinality(Stopping) - 1
           /\ pc[t] # "stopping" /\ pc'[t] = "stopping" =>
                Cardinality(Stopping') = Cardinality(Stopping) + 1
           /\ pc[t] # "stopping" /\ pc'[t] # "stopping" => Stopping' = Stopping
<1>1. Stopping \in SUBSET Thread
    BY Zenon DEF Stopping
<1>2. pc[t] = "stopping" /\ pc'[t] # "stopping" =>
         t \in Stopping /\ Stopping' = Stopping \ {t}
    BY Zenon DEF Stopping
<1>3. pc[t] # "stopping" /\ pc'[t] = "stopping" =>
         t \notin Stopping /\ Stopping' = Stopping \cup {t}
    BY Zenon DEF Stopping
<1>4. pc[t] # "stopping" /\ pc'[t] # "stopping" => Stopping' = Stopping
    BY Zenon DEF Stopping
<1> QED
    BY <1>1, <1>2, <1>3, <1>4, ThreadsFinite, EraseOne, OneMore, Zenon

\* The threads that took a poison, when a thread moves.
LEMMA AtPoisonMove ==
    ASSUME NEW t \in Thread, \A u \in Thread \ {t} : pc'[u] = pc[u]
    PROVE  /\ Cardinality(AtPoison) \in Nat
           /\ pc[t] = "poison" => Cardinality(AtPoison) > 0
           /\ pc[t] = "poison" /\ pc'[t] # "poison" =>
                Cardinality(AtPoison') = Cardinality(AtPoison) - 1
           /\ pc[t] # "poison" /\ pc'[t] = "poison" =>
                Cardinality(AtPoison') = Cardinality(AtPoison) + 1
           /\ pc[t] # "poison" /\ pc'[t] # "poison" => AtPoison' = AtPoison
<1>1. AtPoison \in SUBSET Thread
    BY Zenon DEF AtPoison
<1>2. pc[t] = "poison" => t \in AtPoison /\ AtPoison # {}
    BY Zenon DEF AtPoison
<1>3. pc[t] = "poison" /\ pc'[t] # "poison" =>
         t \in AtPoison /\ AtPoison' = AtPoison \ {t}
    BY Zenon DEF AtPoison
<1>4. pc[t] # "poison" /\ pc'[t] = "poison" =>
         t \notin AtPoison /\ AtPoison' = AtPoison \cup {t}
    BY Zenon DEF AtPoison
<1>5. pc[t] # "poison" /\ pc'[t] # "poison" => AtPoison' = AtPoison
    BY Zenon DEF AtPoison
<1>6. IsFiniteSet(AtPoison) /\ Cardinality(AtPoison) \in Nat
    BY <1>1, ThreadsFinite, Zenon
<1>7. AtPoison # {} => Cardinality(AtPoison) > 0
    BY <1>6, FS_EmptySet
<1> QED
    BY <1>1, <1>2, <1>3, <1>4, <1>5, <1>6, <1>7, EraseOne, OneMore, Zenon

\* A thread that took a poison finds threadsToStop_ positive.
LEMMA PoisonIsCounted ==
    ASSUME IInv, PromptInv, CheckInv, Careful, NEW t \in Thread, pc[t] = "poison"
    PROVE  threadsToStop > 0
<1>1. t \in AtPoison /\ AtPoison \in SUBSET Thread /\ t \in threads
    BY Zenon DEF AtPoison, IInv
<1>2. Cardinality(AtPoison) \in Nat /\ Cardinality(AtPoison) # 0
    BY <1>1, ThreadsFinite, FS_EmptySet, Zenon
<1>3. Cardinality(PoisonsOf(taskQueue)) \in Nat /\ left \in Nat /\ threadsToStop \in Int
    BY PoisonsFinite, Zenon DEF IInv, TypeOK
<1>4. CASE "stop" \notin Calls
    BY <1>1, <1>2, <1>3, <1>4 DEF CheckInv, PoisonInv
<1>5. CASE "resize" \notin Calls
    <2>1. Counting
        BY <1>1, <1>5, Zenon DEF CheckInv, PoisonInv
    <2>2. call \in {"stop", "join"}
        BY <1>5, <2>1, Zenon DEF CheckInv, EarlyInv, Counting, Removing, IInv, TypeOK
    <2>3. t \in Unclaimed /\ Unclaimed \in SUBSET Thread
        BY Zenon DEF Unclaimed
    <2>4. Cardinality(Unclaimed) \in Nat /\ Cardinality(Unclaimed) # 0
        BY <2>3, ThreadsFinite, FS_EmptySet, Zenon
    <2> QED
        BY <1>3, <2>1, <2>2, <2>4 DEF PromptInv, CheckInv
<1> QED
    BY <1>4, <1>5, Zenon DEF Careful

\* No step fails an RDDCHECK.
LEMMA NoStepFails ==
    ASSUME IInv, PromptInv, CheckInv, Careful, Next
    PROVE  ~failed'
<1>0. /\ ~failed /\ (~Counting => stoppedThreads = <<>>)
      /\ count \in Nat /\ stoppedThreads \in Seq(Thread)
    BY Zenon DEF CheckInv, CountInv, IInv, TypeOK
<1>1. CASE FinishAddThreads \/ AddPoison \/ Grow \/ AddObserver \/ RemoveObserver
    <2>1. failed' = failed
        BY <1>1, Zenon DEF FinishAddThreads, Started, AddPoison, PoisonRound, Grow,
                           AddObserver, RemoveObserver
    <2> QED
        BY <1>0, <2>1, Zenon
<1>2. CASE StopThreads \/ Shrink \/ Stop \/ Join
    <2>1. opc \in {"idle", "stopThreads"} /\ failed' = (stoppedThreads # <<>>)
        BY <1>2, Zenon DEF StopThreads, SetThreadsToStop, Shrink, Stop, Join, RemoveThreads
    <2>2. stoppedThreads = <<>>
        BY <1>0, <2>1, Zenon DEF Counting
    <2> QED
        BY <2>1, <2>2, Zenon
<1>3. CASE Collect
    <2>1. Len(stoppedThreads) > 0 /\ Head(stoppedThreads) = stoppedThreads[1]
        BY <1>0, <1>3 DEF Collect
    <2>2. Head(stoppedThreads) \in threads
        BY <1>0, <2>1 DEF CheckInv, StoppedInv
    <2>3. failed' = (Head(stoppedThreads) \notin threads)
        BY <1>3, Zenon DEF Collect
    <2> QED
        BY <2>2, <2>3, Zenon
<1>4. CASE FinishRemoveThreads
    <2>1. count = 0 /\ Counting
        BY <1>0, <1>4 DEF FinishRemoveThreads, Collected, Counting
    <2>2. Cardinality(Stopping) \in Nat
        BY ThreadsFinite, Zenon DEF Stopping
    <2>3. Len(stoppedThreads) = 0
        BY <1>0, <2>1, <2>2 DEF CheckInv, CountInv, IInv, TypeOK
    <2>4. stoppedThreads = <<>>
        BY <1>0, <2>3
    <2>5. failed' = (stoppedThreads # <<>>)
        BY <1>4, Zenon DEF FinishRemoveThreads, Collected
    <2> QED
        BY <2>4, <2>5, Zenon
<1>5. ASSUME NEW k \in Task, Add(k) PROVE ~failed'
    <2>1. failed' = failed
        BY <1>5, Zenon DEF Add
    <2> QED
        BY <1>0, <2>1, Zenon
<1>6. ASSUME NEW t \in Thread, ThreadStep(t) PROVE ~failed'
    <2>1. CASE TakePoison(t)
        <3>1. failed' = (threadsToStop <= 0)
            BY <2>1, Zenon DEF TakePoison
        <3>2. ~(threadsToStop <= 0)
            BY <2>1, PoisonIsCounted DEF TakePoison, Goto, IInv, TypeOK
        <3> QED
            BY <3>1, <3>2, Zenon
    <2>2. CASE ~TakePoison(t)
        <3>1. failed' = failed
            BY <1>6, <2>2, Zenon DEF ThreadStep, Startup, Take, StopOnPoison, RunTask,
                    ReadCount, ReadJoin, StopEarly, Overshoot, Undo
        <3> QED
            BY <1>0, <3>1, Zenon
    <2> QED
        BY <2>1, <2>2, Zenon
<1> QED
    BY <1>1, <1>2, <1>3, <1>4, <1>5, <1>6, Zenon DEF Next, OwnerStep, OwnerCall

\* A step of the owner or of a caller of add preserves EarlyInv.
LEMMA OwnerEarlyInv ==
    ASSUME IInv, PromptInv, EarlyInv, Careful, IInv',
           OwnerStep \/ OwnerCall \/ \E k \in Task : Add(k)
    PROVE  EarlyInv'
<1> USE DEF EarlyInv, Removing, Counting, queues, counts, workers, owner, watch
<1>1. CASE FinishAddThreads
    BY <1>1, Zenon DEF FinishAddThreads, Started
<1>2. CASE StopThreads
    BY <1>2, Zenon DEF StopThreads, SetThreadsToStop
<1>3. CASE AddPoison
    BY <1>3, Zenon DEF AddPoison, PoisonRound
<1>4. CASE Collect
    BY <1>4, Zenon DEF Collect
<1>5. CASE FinishRemoveThreads
    <2>1. call \in {"stop", "join"} => \A t \in Thread : pc'[t] \in {"unborn", "exited"}
        BY <1>5, Zenon DEF FinishRemoveThreads, Collected, IInv, AllExited
    <2>2. call \notin {"stop", "join"} => call = "shrink" /\ "stop" \notin Calls /\ isJoin
        BY <1>5, Zenon DEF FinishRemoveThreads, Collected, IInv, TypeOK, PromptInv, Careful
    <2> QED
        BY <1>5, <2>1, <2>2, Zenon DEF FinishRemoveThreads, Collected
<1>6. CASE Grow
    <2>1. \A t \in Thread : pc'[t] \in {"created", pc[t]}
        BY <1>6, Zenon DEF Grow, AddThreads
    <2> QED
        BY <1>6, <2>1, Zenon DEF Grow, AddThreads
<1>7. CASE Shrink
    BY <1>7, Zenon DEF Shrink, RemoveThreads
<1>8. CASE Stop
    BY <1>8, Zenon DEF Stop, RemoveThreads
<1>9. CASE Join
    BY <1>9, Zenon DEF Join, RemoveThreads
<1>10. CASE AddObserver
    BY <1>10, Zenon DEF AddObserver
<1>11. CASE RemoveObserver
    BY <1>11, Zenon DEF RemoveObserver
<1>12. ASSUME NEW k \in Task, Add(k) PROVE EarlyInv'
    BY <1>12, Zenon DEF Add
<1> QED
    BY <1>1, <1>2, <1>3, <1>4, <1>5, <1>6, <1>7, <1>8, <1>9, <1>10, <1>11, <1>12, Zenon
       DEF OwnerStep, OwnerCall

\* A step of a pool thread preserves EarlyInv: no thread overshoots.
LEMMA ThreadEarlyInv ==
    ASSUME IInv, PromptInv, CheckInv, NEW t \in Thread, ThreadStep(t)
    PROVE  EarlyInv'
<1> USE DEF CheckInv, EarlyInv, Removing, Counting, Goto, queues, counts, workers, owner, watch
<1>0. pc \in [Thread -> ThreadPC] /\ threadsToStop \in Int
    BY Zenon DEF IInv, TypeOK
<1>1. CASE Startup(t)
    BY <1>0, <1>1, Zenon DEF Startup
<1>2. CASE Take(t)
    BY <1>0, <1>2, Zenon DEF Take
<1>3. CASE TakePoison(t)
    BY <1>0, <1>3, Zenon DEF TakePoison
<1>4. CASE StopOnPoison(t)
    BY <1>0, <1>4, Zenon DEF StopOnPoison
<1>5. CASE RunTask(t)
    BY <1>0, <1>5, Zenon DEF RunTask
<1>6. CASE ReadCount(t)
    BY <1>0, <1>6 DEF ReadCount, CountInv
<1>7. CASE ReadJoin(t)
    BY <1>0, <1>7, Zenon DEF ReadJoin, PromptInv
<1>8. CASE StopEarly(t)
    BY <1>0, <1>8, Zenon DEF StopEarly
<1>9. CASE Overshoot(t)
    <2>1. t \in Unclaimed /\ Unclaimed \in SUBSET Thread /\ Counting /\ call = "stop"
        BY <1>9, Zenon DEF Overshoot, Unclaimed
    <2>2. Cardinality(Unclaimed) \in Nat /\ Cardinality(Unclaimed) # 0
        BY <2>1, ThreadsFinite, FS_EmptySet, Zenon
    <2>3. threadsToStop >= Cardinality(Unclaimed)
        BY <2>1, Zenon DEF PromptInv
    <2> QED
        BY <1>0, <1>9, <2>2, <2>3 DEF Overshoot
<1>10. CASE Undo(t)
    BY <1>10, Zenon DEF Undo
<1> QED
    BY <1>1, <1>2, <1>3, <1>4, <1>5, <1>6, <1>7, <1>8, <1>9, <1>10, Zenon DEF ThreadStep

\* A thread that exits enters stoppedThreads_ for the first time.
LEMMA ExitStoppedInv ==
    ASSUME IInv, StoppedInv, NEW t \in Thread, pc[t] \notin {"unborn", "exited"},
           pc' = [pc EXCEPT ![t] = "exited"], threads' = threads,
           stoppedThreads' = Append(stoppedThreads, t)
    PROVE  StoppedInv' /\ Len(stoppedThreads') = Len(stoppedThreads) + 1
<1> DEFINE s == stoppedThreads
           n == Len(stoppedThreads)
<1>1. /\ t \in threads /\ pc \in [Thread -> ThreadPC] /\ threads \subseteq Thread
      /\ s \in Seq(Thread) /\ n \in Nat
      /\ \A i \in 1..n : s[i] # t
    BY DEF IInv, TypeOK
<1>2. /\ Len(stoppedThreads') = n + 1 /\ stoppedThreads'[n + 1] = t
      /\ \A i \in 1..n : stoppedThreads'[i] = s[i]
    BY <1>1
<1>3. 1..(n + 1) = (1..n) \cup {n + 1}
    BY <1>1
<1>4. \A u \in threads' : u # t /\ pc'[u] = "exited" =>
         \E i \in 1..n : stoppedThreads'[i] = u
    BY <1>1, <1>2 DEF StoppedInv
<1>5. \A u \in threads' : pc'[u] # "unborn"
    BY <1>1, Zenon DEF StoppedInv
<1>6. ASSUME NEW i \in 1..(n + 1), NEW j \in 1..(n + 1), stoppedThreads'[i] = stoppedThreads'[j]
      PROVE  i = j
    <2>1. CASE i \in 1..n /\ j \in 1..n
        BY <1>2, <1>6, <2>1 DEF StoppedInv
    <2> QED
        BY <1>1, <1>2, <1>3, <1>6, <2>1, Zenon
<1>7. \A i \in 1..(n + 1) : stoppedThreads'[i] \in threads'
    BY <1>1, <1>2, <1>3, Zenon DEF StoppedInv
<1> QED
    BY <1>1, <1>2, <1>3, <1>4, <1>5, <1>6, <1>7 DEF StoppedInv

\* Collecting the head of stoppedThreads_ preserves StoppedInv.
LEMMA CollectStoppedInv ==
    ASSUME IInv, StoppedInv, Collect
    PROVE  StoppedInv' /\ Len(stoppedThreads') = Len(stoppedThreads) - 1
<1> DEFINE s == stoppedThreads
           n == Len(stoppedThreads)
<1>1. /\ s \in Seq(Thread) /\ s # <<>> /\ threads \subseteq Thread
      /\ stoppedThreads' = Tail(s) /\ threads' = threads \ {Head(s)} /\ pc' = pc
    BY Zenon DEF Collect, IInv, TypeOK, workers
<1>2. /\ n \in Nat \ {0} /\ Head(s) = s[1] /\ Len(stoppedThreads') = n - 1
      /\ \A i \in 1..(n - 1) : stoppedThreads'[i] = s[i + 1]
    BY <1>1
<1>3. \A i \in 1..(n - 1) : stoppedThreads'[i] \in threads'
    BY <1>1, <1>2 DEF StoppedInv
<1>4. ASSUME NEW i \in 1..(n - 1), NEW j \in 1..(n - 1), stoppedThreads'[i] = stoppedThreads'[j]
      PROVE  i = j
    <2>1. i + 1 \in 1..n /\ j + 1 \in 1..n /\ s[i + 1] = s[j + 1]
        BY <1>2, <1>4
    <2>2. i + 1 = j + 1
        BY <2>1, Zenon DEF StoppedInv
    <2> QED
        BY <1>2, <2>2
<1>5. ASSUME NEW u \in threads', pc'[u] = "exited"
      PROVE  \E i \in 1..(n - 1) : stoppedThreads'[i] = u
    <2>1. PICK i \in 1..n : s[i] = u
        BY <1>1, <1>5, Zenon DEF StoppedInv
    <2>2. i - 1 \in 1..(n - 1) /\ (i - 1) + 1 = i
        BY <1>1, <1>2, <1>5, <2>1
    <2> QED
        BY <1>2, <2>1, <2>2, Zenon
<1> QED
    BY <1>1, <1>2, <1>3, <1>4, <1>5, Zenon DEF StoppedInv

\* A step of the owner or of a caller of add preserves what is counted.
LEMMA OwnerCountInv ==
    ASSUME IInv, CheckInv, OwnerStep \/ OwnerCall \/ \E k \in Task : Add(k)
    PROVE  StoppedInv' /\ CountInv'
<1> USE DEF CheckInv, Counting, queues, counts, workers, owner, watch
<1>0. /\ threadsToStop \in Int /\ count \in Nat /\ Cardinality(Stopping) \in Nat
      /\ stoppedThreads \in Seq(Thread) /\ threads \subseteq Thread
      /\ IsFiniteSet(Stopping)
    BY ThreadsFinite, Zenon DEF IInv, TypeOK, Stopping
<1>a. pc' = pc => Stopping' = Stopping
    BY Zenon DEF Stopping
<1>b. threads' = threads /\ stoppedThreads' = stoppedThreads /\ pc' = pc => StoppedInv'
    BY Zenon DEF StoppedInv
<1>1. CASE FinishAddThreads
    BY <1>1, <1>a, <1>b, Zenon DEF FinishAddThreads, Started, CountInv
<1>2. CASE StopThreads
    <2>1. StoppedInv' /\ Stopping' = {} /\ stoppedThreads' = <<>> /\ threadsToStop' = count
          /\ count' = count /\ Counting'
        BY <1>2, <1>a, <1>b, Zenon DEF StopThreads, SetThreadsToStop, CountInv
    <2> QED
        BY <1>0, <2>1, FS_EmptySet DEF CountInv
<1>3. CASE AddPoison
    BY <1>3, <1>a, <1>b, Zenon DEF AddPoison, PoisonRound, CountInv
<1>4. CASE Collect
    <2>1. Stopping' = Stopping /\ threadsToStop' = threadsToStop /\ Counting /\ Counting'
          /\ count' = count - 1
        BY <1>4, <1>a, Zenon DEF Collect
    <2>2. StoppedInv' /\ Len(stoppedThreads') = Len(stoppedThreads) - 1
        BY <1>4, CollectStoppedInv, Zenon
    <2> QED
        BY <1>0, <2>1, <2>2 DEF CountInv
<1>5. CASE FinishRemoveThreads
    <2>1. /\ count = 0 /\ Counting /\ ~Counting' /\ Stopping' = Stopping /\ StoppedInv'
          /\ threadsToStop' = threadsToStop /\ stoppedThreads' = stoppedThreads
        BY <1>0, <1>5, <1>a, <1>b DEF FinishRemoveThreads, Collected
    <2>2. threadsToStop = 0 /\ Cardinality(Stopping) = 0 /\ Len(stoppedThreads) = 0
        BY <1>0, <2>1 DEF CountInv
    <2>3. Stopping = {} /\ stoppedThreads = <<>>
        BY <1>0, <2>2, FS_EmptySet
    <2> QED
        BY <2>1, <2>2, <2>3, Zenon DEF CountInv
<1>6. CASE Grow
    <2>1. PICK n \in 1..Cardinality(Thread) : AddThreads(n)
        BY <1>6, Zenon DEF Grow
    <2>2. PICK new \in Newcomers(n) :
             /\ threads' = threads \cup new
             /\ pc' = [t \in Thread |-> IF t \in new THEN "created" ELSE pc[t]]
             /\ opc' = "starting"
        BY <2>1, Zenon DEF AddThreads
    <2>3. new \subseteq Thread /\ \A t \in new : pc[t] = "unborn"
        BY Zenon DEF Newcomers
    <2>4. stoppedThreads' = stoppedThreads /\ threadsToStop' = threadsToStop /\ ~Counting
        BY <1>6, Zenon DEF Grow
    <2>5. Stopping' = Stopping
        BY <2>2, <2>3, Zenon DEF Stopping
    <2>6. StoppedInv'
        BY <1>0, <2>2, <2>3, <2>4, Zenon DEF StoppedInv
    <2> QED
        BY <2>2, <2>4, <2>5, <2>6, Zenon DEF CountInv
<1>7. CASE Shrink
    BY <1>7, <1>a, <1>b, Zenon DEF Shrink, RemoveThreads, CountInv
<1>8. CASE Stop
    BY <1>8, <1>a, <1>b, Zenon DEF Stop, RemoveThreads, CountInv
<1>9. CASE Join
    BY <1>9, <1>a, <1>b, Zenon DEF Join, RemoveThreads, CountInv
<1>10. CASE AddObserver
    BY <1>10, <1>a, <1>b, Zenon DEF AddObserver, CountInv
<1>11. CASE RemoveObserver
    BY <1>11, <1>a, <1>b, Zenon DEF RemoveObserver, CountInv
<1>12. ASSUME NEW k \in Task, Add(k) PROVE StoppedInv' /\ CountInv'
    BY <1>12, <1>a, <1>b, Zenon DEF Add, CountInv
<1> QED
    BY <1>1, <1>2, <1>3, <1>4, <1>5, <1>6, <1>7, <1>8, <1>9, <1>10, <1>11, <1>12, Zenon
       DEF OwnerStep, OwnerCall

\* A step of a pool thread preserves what is counted.
LEMMA ThreadCountInv ==
    ASSUME IInv, PromptInv, CheckInv, Careful, NEW t \in Thread, ThreadStep(t)
    PROVE  StoppedInv' /\ CountInv'
<1> USE DEF CheckInv, Counting, Goto, queues, counts, workers, owner, watch
<1>0. /\ threadsToStop \in Int /\ count \in Nat /\ pc \in [Thread -> ThreadPC]
      /\ stoppedThreads \in Seq(Thread) /\ threads \subseteq Thread
    BY Zenon DEF IInv, TypeOK
<1>a. ASSUME pc[t] \notin {"unborn", "stopping", "exited"},
             NEW x \in ThreadPC \ {"unborn", "stopping", "exited"},
             pc' = [pc EXCEPT ![t] = x], threads' = threads,
             stoppedThreads' = stoppedThreads
      PROVE  StoppedInv' /\ Stopping' = Stopping
    BY <1>0, <1>a, Zenon DEF StoppedInv, Stopping
<1>1. CASE Startup(t)
    BY <1>1, <1>a, Zenon DEF Startup, CountInv, ThreadPC
<1>2. CASE Take(t)
    BY <1>2, <1>a, Zenon DEF Take, CountInv, ThreadPC
<1>3. CASE TakePoison(t)
    <2>1. threadsToStop > 0 /\ Counting
        BY <1>3, PoisonIsCounted DEF TakePoison, CountInv
    <2>2. /\ pc' = [pc EXCEPT ![t] = "stopping"] /\ pc[t] = "poison" /\ threads' = threads
          /\ stoppedThreads' = stoppedThreads /\ threadsToStop' = threadsToStop - 1
          /\ count' = count /\ opc' = opc
        BY <1>3, Zenon DEF TakePoison
    <2>3. StoppedInv'
        BY <1>0, <2>2 DEF StoppedInv
    <2>4. /\ Cardinality(Stopping) \in Nat
          /\ Cardinality(Stopping') = Cardinality(Stopping) + 1
        BY <1>0, <2>2, StoppingMove, Zenon
    <2> QED
        BY <1>0, <2>1, <2>2, <2>3, <2>4 DEF CountInv
<1>4. CASE StopOnPoison(t)
    <2>1. t \in Stopping
        BY <1>4, Zenon DEF StopOnPoison, Stopping
    <2>2. /\ pc' = [pc EXCEPT ![t] = "exited"] /\ pc[t] = "stopping" /\ threads' = threads
          /\ stoppedThreads' = Append(stoppedThreads, t) /\ threadsToStop' = threadsToStop
          /\ count' = count /\ opc' = opc
        BY <1>4, Zenon DEF StopOnPoison
    <2>3. pc[t] \notin {"unborn", "exited"} /\ StoppedInv
        BY <2>2, Zenon
    <2>4. StoppedInv' /\ Len(stoppedThreads') = Len(stoppedThreads) + 1
        BY <2>2, <2>3, ExitStoppedInv, Zenon
    <2>5. /\ Cardinality(Stopping) \in Nat
          /\ Cardinality(Stopping') = Cardinality(Stopping) - 1
        BY <1>0, <2>2, StoppingMove, Zenon
    <2>6. Counting /\ count = threadsToStop + Cardinality(Stopping) + Len(stoppedThreads)
        BY <2>1, Zenon DEF CountInv
    <2>7. count = threadsToStop + Cardinality(Stopping') + Len(stoppedThreads')
        BY <1>0, <2>4, <2>5, <2>6
    <2> QED
        BY <2>2, <2>4, <2>6, <2>7, Zenon DEF CountInv
<1>5. CASE RunTask(t)
    BY <1>5, <1>a, Zenon DEF RunTask, CountInv, ThreadPC
<1>6. CASE ReadCount(t)
    BY <1>6, <1>a, Zenon DEF ReadCount, CountInv, ThreadPC
<1>7. CASE ReadJoin(t)
    BY <1>7, <1>a, Zenon DEF ReadJoin, CountInv, ThreadPC
<1>8. CASE StopEarly(t)
    <2>1. Counting
        BY <1>8, Zenon DEF StopEarly, EarlyInv
    <2>2. /\ pc' = [pc EXCEPT ![t] = "exited"] /\ pc[t] = "dec" /\ threads' = threads
          /\ stoppedThreads' = Append(stoppedThreads, t)
          /\ threadsToStop > 0 /\ threadsToStop' = threadsToStop - 1
          /\ count' = count /\ opc' = opc
        BY <1>8, Zenon DEF StopEarly
    <2>3. pc[t] \notin {"unborn", "exited"} /\ StoppedInv
        BY <2>2, Zenon
    <2>4. StoppedInv' /\ Len(stoppedThreads') = Len(stoppedThreads) + 1
        BY <2>2, <2>3, ExitStoppedInv, Zenon
    <2>5. Cardinality(Stopping) \in Nat /\ Stopping' = Stopping
        BY <1>0, <2>2, StoppingMove, Zenon
    <2>6. count = threadsToStop + Cardinality(Stopping) + Len(stoppedThreads)
        BY <2>1, Zenon DEF CountInv
    <2>7. threadsToStop' >= 0 /\
          count = threadsToStop' + Cardinality(Stopping') + Len(stoppedThreads')
        BY <1>0, <2>2, <2>4, <2>5, <2>6
    <2> QED
        BY <2>1, <2>2, <2>4, <2>7, Zenon DEF CountInv
<1>9. CASE Overshoot(t)
    <2>1. pc'[t] = "undo"
        BY <1>0, <1>9, Zenon DEF Overshoot
    <2> QED
        BY <2>1, ThreadEarlyInv, Zenon DEF EarlyInv
<1>10. CASE Undo(t)
    BY <1>10, Zenon DEF Undo, EarlyInv
<1> QED
    BY <1>1, <1>2, <1>3, <1>4, <1>5, <1>6, <1>7, <1>8, <1>9, <1>10, Zenon DEF ThreadStep

\* A step of the owner or of a caller of add preserves PoisonInv.
LEMMA OwnerPoisonInv ==
    ASSUME IInv, CheckInv, CountInv', OwnerStep \/ OwnerCall \/ \E k \in Task : Add(k)
    PROVE  PoisonInv'
<1> USE DEF CheckInv, Counting, queues, counts, workers, owner, watch
<1>0. /\ left \in Nat /\ count \in Nat /\ threadsToStop \in Int
      /\ taskQueue \in Seq(Task \cup {Poison})
    BY Zenon DEF IInv, TypeOK
<1>a. pc' = pc => AtPoison' = AtPoison
    BY Zenon DEF AtPoison
<1>b. /\ Cardinality(PoisonsOf(taskQueue)) \in Nat
      /\ (Cardinality(PoisonsOf(taskQueue)) = 0) <=> (PoisonsOf(taskQueue) = {})
    BY <1>0, PoisonsFinite, Zenon
<1>c. AtPoison \in SUBSET Thread
    BY Zenon DEF AtPoison
<1>d. /\ Cardinality(AtPoison) \in Nat
      /\ (Cardinality(AtPoison) = 0) <=> (AtPoison = {})
    BY <1>c, ThreadsFinite, FS_EmptySet, Zenon
<1>1. CASE FinishAddThreads
    BY <1>1, <1>a, Zenon DEF FinishAddThreads, Started, PoisonInv
<1>2. CASE StopThreads
    <2>1. /\ AtPoison' = AtPoison /\ taskQueue' = taskQueue /\ Counting' /\ ~Counting
          /\ threadsToStop' = count /\ left' = count
          /\ opc' = "collecting" => count = 0
        BY <1>2, <1>a, Zenon DEF StopThreads, SetThreadsToStop
    <2>2. "stop" \notin Calls =>
             /\ Cardinality(PoisonsOf(taskQueue)) = 0
             /\ Cardinality(AtPoison) = 0
        BY <1>b, <1>d, <2>1, Zenon DEF PoisonInv
    <2> QED
        BY <1>0, <2>1, <2>2 DEF PoisonInv
<1>3. CASE AddPoison
    <2>1. /\ AtPoison' = AtPoison /\ taskQueue' = Append(taskQueue, Poison)
          /\ Counting' /\ Counting
          /\ threadsToStop' = threadsToStop /\ left' = left - 1
          /\ opc' = "collecting" => left <= 1
          /\ left > 0
        BY <1>3, <1>a, Zenon DEF AddPoison, PoisonRound, IInv
    <2>2. Cardinality(PoisonsOf(taskQueue')) = Cardinality(PoisonsOf(taskQueue)) + 1
        BY <1>0, <2>1, PoisonsOfAppend, Zenon
    <2>3. "stop" \notin Calls => threadsToStop = left + Cardinality(PoisonsOf(taskQueue))
                                                     + Cardinality(AtPoison)
        BY <2>1, Zenon DEF PoisonInv
    <2>4. "stop" \notin Calls => threadsToStop' = left' + Cardinality(PoisonsOf(taskQueue'))
                                                     + Cardinality(AtPoison')
        BY <1>0, <1>b, <1>d, <2>1, <2>2, <2>3
    <2>5. opc' = "collecting" => left' = 0
        BY <1>0, <2>1
    <2> QED
        BY <2>1, <2>4, <2>5, Zenon DEF PoisonInv
<1>4. CASE Collect
    BY <1>4, <1>a, Zenon DEF Collect, PoisonInv
<1>5. CASE FinishRemoveThreads
    <2>1. /\ AtPoison' = AtPoison /\ taskQueue' = taskQueue /\ threads' = threads
          /\ threadsToStop' = threadsToStop /\ left' = left /\ Counting /\ ~Counting'
          /\ opc' = "idle" /\ count = 0
        BY <1>0, <1>5, <1>a DEF FinishRemoveThreads, Collected
    <2>2. threadsToStop = 0
        BY <2>1, Zenon DEF CountInv
    <2>3. "stop" \notin Calls =>
             /\ Cardinality(PoisonsOf(taskQueue)) = 0
             /\ Cardinality(AtPoison) = 0
        BY <1>0, <1>b, <1>d, <2>1, <2>2 DEF PoisonInv
    <2>4. ASSUME "resize" \notin Calls PROVE threads = {}
        <3>1. call \in {"stop", "join"}
            BY <2>1, <2>4, Zenon DEF EarlyInv, Removing, IInv, TypeOK
        <3>2. Cardinality(threads) = 0 /\ threads \in SUBSET Thread
            BY <2>1, <3>1, Zenon DEF IInv, TypeOK, Removing
        <3> QED
            BY <3>2, ThreadsFinite, FS_EmptySet, Zenon
    <2> QED
        BY <1>b, <1>d, <2>1, <2>3, <2>4, Zenon DEF PoisonInv
<1>6. CASE Grow
    <2>1. /\ \A t \in Thread : pc'[t] \in {"created", pc[t]}
          /\ opc' = "starting" /\ ~Counting /\ taskQueue' = taskQueue /\ "resize" \in Calls
        BY <1>6, Zenon DEF Grow, AddThreads
    <2>2. AtPoison' \subseteq AtPoison
        BY <2>1, Zenon DEF AtPoison
    <2> QED
        BY <2>1, <2>2, Zenon DEF PoisonInv
<1>7. CASE Shrink
    BY <1>7, <1>a, Zenon DEF Shrink, RemoveThreads, PoisonInv
<1>8. CASE Stop
    BY <1>8, <1>a, Zenon DEF Stop, RemoveThreads, PoisonInv
<1>9. CASE Join
    BY <1>9, <1>a, Zenon DEF Join, RemoveThreads, PoisonInv
<1>10. CASE AddObserver
    BY <1>10, <1>a, Zenon DEF AddObserver, PoisonInv
<1>11. CASE RemoveObserver
    BY <1>11, <1>a, Zenon DEF RemoveObserver, PoisonInv
<1>12. ASSUME NEW k \in Task, Add(k) PROVE PoisonInv'
    <2>1. taskQueue' = Append(taskQueue, k) /\ k # Poison
        BY <1>12, PoolAssumption, Zenon DEF Add
    <2>2. PoisonsOf(taskQueue') = PoisonsOf(taskQueue)
        BY <1>0, <2>1, PoisonsOfAppend, Zenon
    <2> QED
        BY <1>12, <1>a, <2>2, Zenon DEF Add, PoisonInv
<1> QED
    BY <1>1, <1>2, <1>3, <1>4, <1>5, <1>6, <1>7, <1>8, <1>9, <1>10, <1>11, <1>12, Zenon
       DEF OwnerStep, OwnerCall

\* A step of a pool thread preserves PoisonInv.
LEMMA ThreadPoisonInv ==
    ASSUME IInv, PromptInv, CheckInv, Careful, NEW t \in Thread, ThreadStep(t)
    PROVE  PoisonInv'
<1> USE DEF CheckInv, Counting, Goto, queues, counts, workers, owner, watch
<1>0. /\ left \in Nat /\ threadsToStop \in Int /\ pc \in [Thread -> ThreadPC]
      /\ taskQueue \in Seq(Task \cup {Poison})
    BY Zenon DEF IInv, TypeOK
<1>a. /\ Cardinality(PoisonsOf(taskQueue)) \in Nat
      /\ (Cardinality(PoisonsOf(taskQueue)) = 0) <=> (PoisonsOf(taskQueue) = {})
    BY <1>0, PoisonsFinite, Zenon
<1>b. ASSUME pc[t] # "poison", NEW x \in ThreadPC \ {"poison"}, pc' = [pc EXCEPT ![t] = x]
      PROVE  AtPoison' = AtPoison
    BY <1>0, <1>b, Zenon DEF AtPoison
<1>1. CASE Startup(t)
    BY <1>1, <1>b, Zenon DEF Startup, PoisonInv, ThreadPC
<1>2. CASE Take(t)
    <2>1. /\ taskQueue # <<>> /\ taskQueue' = Tail(taskQueue) /\ pc[t] = "take"
          /\ pc' = [pc EXCEPT ![t] = IF Head(taskQueue) = Poison THEN "poison" ELSE "run"]
          /\ threads' = threads /\ opc' = opc /\ left' = left /\ threadsToStop' = threadsToStop
        BY <1>2, Zenon DEF Take
    <2>2. t \in threads
        BY <2>1, Zenon DEF IInv
    <2>3. taskQueue' \in Seq(Task \cup {Poison})
        BY <1>0, <2>1
    <2>4. /\ Cardinality(PoisonsOf(taskQueue')) \in Nat
          /\ (Cardinality(PoisonsOf(taskQueue')) = 0) <=> (PoisonsOf(taskQueue') = {})
        BY <2>3, PoisonsFinite, Zenon
    <2>5. /\ Head(taskQueue) = Poison =>
                Cardinality(PoisonsOf(taskQueue')) = Cardinality(PoisonsOf(taskQueue)) - 1
          /\ Head(taskQueue) # Poison =>
                Cardinality(PoisonsOf(taskQueue')) = Cardinality(PoisonsOf(taskQueue))
        BY <1>0, <2>1, PoisonsOfTail, Zenon
    <2>6. /\ Cardinality(AtPoison) \in Nat
          /\ Head(taskQueue) = Poison => Cardinality(AtPoison') = Cardinality(AtPoison) + 1
          /\ Head(taskQueue) # Poison => AtPoison' = AtPoison
        BY <1>0, <2>1, AtPoisonMove, Zenon
    <2>7. PoisonsOf(taskQueue) = {} => Head(taskQueue) # Poison
        <3>1. 1 \in 1..Len(taskQueue) /\ Head(taskQueue) = taskQueue[1]
            BY <1>0, <2>1
        <3> QED
            BY <3>1, Zenon DEF PoisonsOf
    <2>8. Cardinality(PoisonsOf(taskQueue')) + Cardinality(AtPoison')
            = Cardinality(PoisonsOf(taskQueue)) + Cardinality(AtPoison)
        BY <1>a, <2>5, <2>6
    <2>9. CASE Counting
        BY <1>0, <1>a, <2>1, <2>4, <2>5, <2>6, <2>8, <2>9 DEF PoisonInv
    <2>10. CASE ~Counting
        <3>1. ("stop" \notin Calls \/ "resize" \notin Calls) =>
                 PoisonsOf(taskQueue) = {} /\ AtPoison = {}
            BY <2>2, <2>10, Zenon DEF PoisonInv
        <3>2. PoisonsOf(taskQueue') = {} /\ AtPoison' = {}
            BY <3>1, <1>a, <2>4, <2>5, <2>6, <2>7, Zenon DEF Careful
        <3> QED
            BY <2>1, <2>10, <3>2, Zenon DEF PoisonInv
    <2> QED
        BY <2>9, <2>10, Zenon
<1>3. CASE TakePoison(t)
    <2>1. threadsToStop > 0
        BY <1>3, PoisonIsCounted, Zenon DEF TakePoison
    <2>2. /\ taskQueue' = taskQueue /\ pc[t] = "poison" /\ pc' = [pc EXCEPT ![t] = "stopping"]
          /\ opc' = opc /\ left' = left /\ threadsToStop' = threadsToStop - 1
        BY <1>3, Zenon DEF TakePoison
    <2>3. Cardinality(AtPoison) \in Nat /\ Cardinality(AtPoison') = Cardinality(AtPoison) - 1
        BY <1>0, <2>2, AtPoisonMove, Zenon
    <2>4. Counting
        BY <2>1 DEF CountInv
    <2>5. "stop" \notin Calls =>
            threadsToStop = left + Cardinality(PoisonsOf(taskQueue)) + Cardinality(AtPoison)
        BY <2>4, Zenon DEF PoisonInv
    <2>6. "stop" \notin Calls =>
            threadsToStop' = left' + Cardinality(PoisonsOf(taskQueue')) + Cardinality(AtPoison')
        BY ONLY <1>0, <1>a, <2>2, <2>3, <2>5
    <2> QED
        BY <2>2, <2>4, <2>6, Zenon DEF PoisonInv
<1>4. CASE StopOnPoison(t)
    BY <1>4, <1>b, Zenon DEF StopOnPoison, PoisonInv, ThreadPC
<1>5. CASE RunTask(t)
    BY <1>5, <1>b, Zenon DEF RunTask, PoisonInv, ThreadPC
<1>6. CASE ReadCount(t)
    BY <1>6, <1>b, Zenon DEF ReadCount, PoisonInv, ThreadPC
<1>7. CASE ReadJoin(t)
    BY <1>7, <1>b, Zenon DEF ReadJoin, PoisonInv, ThreadPC
<1>8. CASE StopEarly(t)
    <2>1. "stop" \in Calls /\ Counting
        BY <1>8, Zenon DEF StopEarly, EarlyInv, Removing
    <2> QED
        BY <1>8, <2>1, Zenon DEF StopEarly, PoisonInv
<1>9. CASE Overshoot(t)
    <2>1. pc'[t] = "undo"
        BY <1>0, <1>9, Zenon DEF Overshoot
    <2> QED
        BY <2>1, ThreadEarlyInv, Zenon DEF EarlyInv
<1>10. CASE Undo(t)
    BY <1>10, Zenon DEF Undo, EarlyInv
<1> QED
    BY <1>1, <1>2, <1>3, <1>4, <1>5, <1>6, <1>7, <1>8, <1>9, <1>10, Zenon DEF ThreadStep

\* CheckInv holds in every reachable state of such a pool.
LEMMA CheckInvariance == ASSUME Careful PROVE Spec => []CheckInv
<1>1. Init => CheckInv
    <2> SUFFICES ASSUME Init PROVE CheckInv
        BY Zenon
    <2>1. EarlyInv /\ StoppedInv
        BY DEF Init, EarlyInv, StoppedInv, Removing
    <2>2. Stopping = {} /\ AtPoison = {} /\ PoisonsOf(taskQueue) = {}
        BY DEF Init, Stopping, AtPoison, PoisonsOf
    <2>3. CountInv /\ PoisonInv
        BY <2>2 DEF Init, CountInv, PoisonInv, Counting
    <2>4. ~failed
        BY Zenon DEF Init
    <2> QED
        BY <2>1, <2>3, <2>4, Zenon DEF CheckInv
<1>2. IInv /\ PromptInv /\ CheckInv /\ [Next]_vars => CheckInv'
    <2> SUFFICES ASSUME IInv, PromptInv, CheckInv, [Next]_vars PROVE CheckInv'
        BY Zenon
    <2>1. CASE UNCHANGED vars
        <3>1. Stopping' = Stopping /\ AtPoison' = AtPoison /\ Counting' = Counting
              /\ PoisonsOf(taskQueue') = PoisonsOf(taskQueue) /\ Removing' = Removing
            BY <2>1, Zenon
               DEF vars, queues, workers, owner, Stopping, AtPoison, Counting, Removing
        <3>2. EarlyInv' /\ StoppedInv' /\ CountInv' /\ PoisonInv'
            BY <2>1, <3>1 DEF vars, queues, counts, workers, owner, CheckInv, EarlyInv,
                              StoppedInv, CountInv, PoisonInv
        <3>3. ~failed'
            BY <2>1, Zenon DEF vars, CheckInv
        <3> QED
            BY <3>2, <3>3, Zenon DEF CheckInv
    <2>2. CASE Next
        <3>1. ~failed' /\ IInv' /\ EarlyInv
            BY <2>2, NoStepFails, NextIInv, Zenon DEF CheckInv
        <3>2. CASE OwnerStep \/ OwnerCall \/ \E k \in Task : Add(k)
            BY <3>1, <3>2, OwnerEarlyInv, OwnerCountInv, OwnerPoisonInv, Zenon DEF CheckInv
        <3>3. ASSUME NEW t \in Thread, ThreadStep(t) PROVE CheckInv'
            BY <3>1, <3>3, ThreadEarlyInv, ThreadCountInv, ThreadPoisonInv, Zenon DEF CheckInv
        <3> QED
            BY <2>2, <3>2, <3>3, Zenon DEF Next
    <2> QED
        BY <2>1, <2>2, Zenon
<1> QED
    BY <1>1, <1>2, Invariance, PromptInvariance, PTL DEF Spec

-----------------------------------------------------------------------------
(***************************************************************************)
(* join() drains the queue.                                                *)
(***************************************************************************)

\* add() puts a new task into the queue, once.
LEMMA AddTaskInv ==
    ASSUME IInv, TaskInv, NEW k \in Task, Add(k)
    PROVE  TaskInv'
<1> DEFINE q == taskQueue
           n == Len(taskQueue)
<1>1. /\ q \in Seq(Task \cup {Poison}) /\ n \in Nat /\ taskQueue' = Append(q, k)
      /\ taskState[k] = "new" /\ taskState' = [taskState EXCEPT ![k] = "queued"]
      /\ taskState \in [Task -> {"new", "queued", "running", "ran", "expired"}]
      /\ pc' = pc /\ task' = task
    BY DEF Add, IInv, TypeOK
<1>2. /\ Len(taskQueue') = n + 1 /\ taskQueue'[n + 1] = k
      /\ \A i \in 1..n : taskQueue'[i] = q[i]
      /\ 1..(n + 1) = (1..n) \cup {n + 1}
    BY ONLY <1>1, k \in Task
<1>3. \A i \in 1..n : q[i] # k
    BY <1>1, Zenon DEF TaskInv
<1>4. ASSUME NEW i \in 1..(n + 1), NEW j \in 1..(n + 1),
             taskQueue'[i] = taskQueue'[j], taskQueue'[i] # Poison
      PROVE  i = j
    <2>1. CASE i \in 1..n /\ j \in 1..n
        BY <1>2, <1>4, <2>1 DEF TaskInv
    <2> QED
        BY <1>2, <1>3, <1>4, <2>1, Zenon
<1>5. ASSUME NEW l \in Task
      PROVE  taskState'[l] = "queued" <=> \E i \in 1..(n + 1) : taskQueue'[i] = l
    <2>1. CASE l = k
        BY <1>1, <1>2, <2>1, Zenon
    <2>2. CASE l # k
        BY <1>1, <1>2, <2>2 DEF TaskInv
    <2> QED
        BY <2>1, <2>2, Zenon
<1>6. \A l \in Task : taskState'[l] = "running" <=> taskState[l] = "running"
    BY <1>1, Zenon
<1>7. /\ \A t \in Thread : pc'[t] = "run" =>
           task'[t] \in Task /\ taskState'[task'[t]] = "running"
      /\ \A t, u \in Thread :
           pc'[t] = "run" /\ pc'[u] = "run" /\ task'[t] = task'[u] => t = u
      /\ \A l \in Task : taskState'[l] = "running" =>
           \E t \in Thread : pc'[t] = "run" /\ task'[t] = l
    BY ONLY <1>1, <1>6, TaskInv DEF TaskInv
<1>8. Len(taskQueue') = n + 1
    BY <1>2, Zenon
<1> QED
    BY ONLY <1>4, <1>5, <1>7, <1>8 DEF TaskInv

\* take() hands the head of the queue to one thread.
LEMMA TakeTaskInv ==
    ASSUME IInv, TaskInv, NEW t \in Thread, Take(t)
    PROVE  TaskInv'
<1> DEFINE q == taskQueue
           n == Len(taskQueue)
           h == Head(taskQueue)
<1>1. /\ q \in Seq(Task \cup {Poison}) /\ q # <<>> /\ taskQueue' = Tail(q)
      /\ taskState' = [k \in Task |-> IF k = h THEN "running" ELSE taskState[k]]
      /\ pc[t] = "take" /\ pc \in [Thread -> ThreadPC]
      /\ pc' = [pc EXCEPT ![t] = IF h = Poison THEN "poison" ELSE "run"]
      /\ task \in [Thread -> Task \cup {Poison}] /\ task' = [task EXCEPT ![t] = h]
    BY Zenon DEF Take, Goto, IInv, TypeOK
<1>2. /\ n \in Nat \ {0} /\ h = q[1] /\ h \in Task \cup {Poison} /\ Len(taskQueue') = n - 1
      /\ \A i \in 1..(n - 1) : taskQueue'[i] = q[i + 1] /\ i + 1 \in 1..n
      /\ \A i \in 2..n : q[i] = taskQueue'[i - 1] /\ i - 1 \in 1..(n - 1)
      /\ 1..n = {1} \cup 2..n
    BY <1>1
<1>3. ASSUME NEW i \in 1..(n - 1), NEW j \in 1..(n - 1),
             taskQueue'[i] = taskQueue'[j], taskQueue'[i] # Poison
      PROVE  i = j
    <2>1. i + 1 = j + 1
        BY <1>2, <1>3 DEF TaskInv
    <2> QED
        BY <1>2, <2>1
<1>4. \A k \in Task : taskState[k] = "queued" <=> \E i \in 1..n : q[i] = k
    BY Zenon DEF TaskInv
<1>5. h # Poison => h \in Task /\ taskState[h] = "queued"
    BY <1>2, <1>4, Zenon
<1>6. \A i \in 2..n : q[i] # Poison => q[i] # h
    BY <1>2 DEF TaskInv
<1>7. ASSUME NEW k \in Task
      PROVE  taskState'[k] = "queued" <=> \E i \in 1..(n - 1) : taskQueue'[i] = k
    <2>1. k # Poison
        BY PoolAssumption, Zenon
    <2>2. CASE k = h
        BY <1>1, <1>2, <1>6, <2>1, <2>2
    <2>3. CASE k # h
        <3>1. (\E i \in 1..(n - 1) : taskQueue'[i] = k) => \E i \in 1..n : q[i] = k
            BY <1>2, Zenon
        <3>2. (\E i \in 1..n : q[i] = k) => \E i \in 1..(n - 1) : taskQueue'[i] = k
            BY <1>2, <2>3, Zenon
        <3> QED
            BY <1>1, <1>4, <2>3, <3>1, <3>2, Zenon
    <2> QED
        BY <2>2, <2>3, Zenon
<1>8. (pc'[t] = "run" => h # Poison) /\ \A u \in Thread \ {t} : pc'[u] = pc[u]
    BY <1>1, Zenon
<1>9. \A u \in Thread : pc[u] = "run" => u # t /\ task[u] \in Task /\ task[u] # h
    BY <1>1, <1>5 DEF TaskInv
<1>10. \A u \in Thread : pc'[u] = "run" => task'[u] \in Task /\ taskState'[task'[u]] = "running"
    BY <1>1, <1>5, <1>8, <1>9 DEF TaskInv
<1>11. \A u, v \in Thread :
          pc'[u] = "run" /\ pc'[v] = "run" /\ task'[u] = task'[v] => u = v
    BY <1>1, <1>8, <1>9 DEF TaskInv
<1>12. \A k \in Task : taskState'[k] = "running" =>
          \E u \in Thread : pc'[u] = "run" /\ task'[u] = k
    <2> SUFFICES ASSUME NEW k \in Task, taskState'[k] = "running"
                 PROVE  \E u \in Thread : pc'[u] = "run" /\ task'[u] = k
        BY Zenon
    <2>1. CASE k = h
        BY <1>1, <2>1, PoolAssumption, Zenon
    <2>2. CASE k # h
        <3>1. PICK u \in Thread : pc[u] = "run" /\ task[u] = k
            BY <1>1, <2>2, Zenon DEF TaskInv
        <3> QED
            BY <1>1, <1>9, <3>1, Zenon
    <2> QED
        BY <2>1, <2>2, Zenon
<1> QED
    BY <1>2, <1>3, <1>7, <1>10, <1>11, <1>12 DEF TaskInv

\* A thread that finished its task no longer holds it.
LEMMA RunTaskInv ==
    ASSUME IInv, TaskInv, NEW t \in Thread, RunTask(t)
    PROVE  TaskInv'
<1>1. PICK end \in {"ran", "expired"} : taskState' = [taskState EXCEPT ![task[t]] = end]
    BY Zenon DEF RunTask
<1>2. /\ pc[t] = "run" /\ pc' = [pc EXCEPT ![t] = "count"] /\ pc \in [Thread -> ThreadPC]
      /\ task' = task /\ taskQueue' = taskQueue
      /\ taskState \in [Task -> {"new", "queued", "running", "ran", "expired"}]
    BY Zenon DEF RunTask, Goto, IInv, TypeOK, queues
<1>3. task[t] \in Task /\ taskState[task[t]] = "running"
    BY <1>2, Zenon DEF TaskInv
<1>4. \A k \in Task : taskState'[k] = "queued" <=> taskState[k] = "queued"
    BY <1>1, <1>2, <1>3, Zenon
<1>5. \A u \in Thread : pc'[u] = "run" => pc[u] = "run" /\ task[u] # task[t]
    BY <1>2 DEF TaskInv
<1>6. \A u \in Thread : pc'[u] = "run" => task[u] \in Task /\ taskState'[task[u]] = "running"
    BY <1>1, <1>2, <1>5, Zenon DEF TaskInv
<1>7. ASSUME NEW k \in Task, taskState'[k] = "running"
      PROVE  \E u \in Thread : pc'[u] = "run" /\ task[u] = k
    <2>1. k # task[t] /\ taskState[k] = "running"
        BY <1>1, <1>2, <1>3, <1>7, Zenon
    <2> QED
        BY <1>2, <2>1, Zenon DEF TaskInv
<1> QED
    BY <1>2, <1>4, <1>5, <1>6, <1>7 DEF TaskInv

\* TaskInv holds in every reachable state, whatever the owner calls.
LEMMA TaskInvariance == Spec => []TaskInv
<1>1. Init => TaskInv
    BY PoolAssumption DEF Init, TaskInv
<1>2. IInv /\ TaskInv /\ [Next]_vars => TaskInv'
    <2> SUFFICES ASSUME IInv, TaskInv, [Next]_vars PROVE TaskInv'
        BY Zenon
    <2> USE DEF queues, counts, workers, owner, watch
    <2>1. ASSUME taskQueue' = taskQueue, taskState' = taskState, task' = task,
                 \A t \in Thread : pc'[t] = "run" <=> pc[t] = "run"
          PROVE  TaskInv'
        BY <2>1 DEF TaskInv
    <2>2. CASE UNCHANGED vars
        BY <2>1, <2>2, Zenon DEF vars
    <2>3. CASE OwnerStep
        <3>1. pc' = pc /\ task' = task /\ taskState' = taskState
            BY <2>3, Zenon
               DEF OwnerStep, FinishAddThreads, Started, StopThreads, SetThreadsToStop,
                        AddPoison, PoisonRound, Collect, FinishRemoveThreads, Collected
        <3>2. CASE taskQueue' = taskQueue
            BY <2>1, <3>1, <3>2, Zenon
        <3>3. CASE AddPoison
            <4>1. taskQueue \in Seq(Task \cup {Poison}) /\ taskQueue' = Append(taskQueue, Poison)
                BY <3>3, Zenon DEF AddPoison, PoisonRound, IInv, TypeOK
            <4>2. /\ Len(taskQueue) \in Nat /\ Len(taskQueue') = Len(taskQueue) + 1
                  /\ taskQueue'[Len(taskQueue) + 1] = Poison
                  /\ \A i \in 1..Len(taskQueue) : taskQueue'[i] = taskQueue[i]
                  /\ 1..(Len(taskQueue) + 1) = 1..Len(taskQueue) \cup {Len(taskQueue) + 1}
                BY <4>1
            <4>3. \A i, j \in 1..Len(taskQueue') :
                     taskQueue'[i] = taskQueue'[j] /\ taskQueue'[i] # Poison => i = j
                BY <4>2 DEF TaskInv
            <4>4. \A k \in Task : (\E i \in 1..Len(taskQueue') : taskQueue'[i] = k)
                              <=> \E i \in 1..Len(taskQueue) : taskQueue[i] = k
                BY <4>2, PoolAssumption
            <4> QED
                BY <3>1, <4>3, <4>4 DEF TaskInv
        <3> QED
            BY <2>3, <3>2, <3>3, Zenon DEF OwnerStep, FinishAddThreads, Started, StopThreads,
                    SetThreadsToStop, Collect, FinishRemoveThreads, Collected
    <2>4. CASE OwnerCall
        <3>1. taskQueue' = taskQueue /\ task' = task /\ taskState' = taskState
            BY <2>4, Zenon DEF OwnerCall, Grow, Shrink, Stop, Join, RemoveThreads, AddObserver,
                        RemoveObserver
        <3>2. CASE Grow
            <4>1. \A t \in Thread : pc'[t] = "run" <=> pc[t] = "run"
                BY <3>2, Zenon DEF Grow, AddThreads, Newcomers
            <4> QED
                BY <2>1, <3>1, <4>1, Zenon
        <3>3. CASE pc' = pc
            BY <2>1, <3>1, <3>3, Zenon
        <3> QED
            BY <2>4, <3>2, <3>3, Zenon DEF OwnerCall, Shrink, Stop, Join, RemoveThreads,
                    AddObserver, RemoveObserver
    <2>5. ASSUME NEW t \in Thread, ThreadStep(t) PROVE TaskInv'
        <3>1. CASE Take(t)
            BY <3>1, TakeTaskInv, Zenon
        <3>2. CASE RunTask(t)
            BY <3>2, RunTaskInv, Zenon
        <3>3. CASE ~Take(t) /\ ~RunTask(t)
            <4>1. /\ taskQueue' = taskQueue /\ task' = task /\ taskState' = taskState
                  /\ \A u \in Thread : pc'[u] = "run" <=> pc[u] = "run"
                BY <2>5, <3>3, Zenon
                   DEF ThreadStep, Startup, TakePoison, StopOnPoison, ReadCount,
                        ReadJoin, StopEarly, Overshoot, Undo, Goto, IInv, TypeOK
            <4> QED
                BY <2>1, <4>1, Zenon
        <3> QED
            BY <3>1, <3>2, <3>3, Zenon
    <2> QED
        BY <2>2, <2>3, <2>4, <2>5, AddTaskInv, Zenon DEF Next
<1> QED
    BY <1>1, <1>2, Invariance, PTL DEF Spec

\* A step of the owner or of a caller of add preserves DrainInv.
LEMMA OwnerDrainInv ==
    ASSUME IInv, CheckInv, TaskInv, DrainInv, Careful,
           OwnerStep \/ OwnerCall \/ \E k \in Task : Add(k)
    PROVE  DrainInv'
<1> USE DEF Removing, queues, counts, workers, owner, watch
<1>0. /\ taskQueue \in Seq(Task \cup {Poison}) /\ Len(taskQueue) \in Nat
      /\ due \subseteq Task /\ count \in Nat
      /\ taskState \in [Task -> {"new", "queued", "running", "ran", "expired"}]
      /\ threads \subseteq Thread /\ IsFiniteSet(threads)
    BY ThreadsFinite DEF IInv, TypeOK
<1>a. pc' = pc => AtPoison' = AtPoison /\ Stopping' = Stopping
    BY Zenon DEF AtPoison, Stopping
<1>1. CASE FinishAddThreads
    BY <1>1, Zenon DEF FinishAddThreads, Started, DrainInv, JoinDrains, IInv
<1>2. CASE StopThreads
    BY <1>2, <1>a, Zenon DEF StopThreads, SetThreadsToStop, DrainInv, JoinDrains, Ahead
<1>3. CASE AddPoison
    <2> DEFINE n == Len(taskQueue)
    <2>1. /\ taskQueue' = Append(taskQueue, Poison) /\ opc = "poisoning" /\ opc' # "idle"
          /\ pc' = pc /\ taskState' = taskState /\ due' = due /\ call' = call
          /\ count' = count /\ stoppedThreads' = stoppedThreads
        BY <1>3, Zenon DEF AddPoison, PoisonRound
    <2>2. /\ Len(taskQueue') = n + 1 /\ taskQueue'[n + 1] = Poison
          /\ \A i \in 1..n : taskQueue'[i] = taskQueue[i]
        BY <1>0, <2>1
    <2>3. ASSUME call = "join", NEW i \in 1..(n + 1), taskQueue'[i] \in due
          PROVE  /\ \A j \in 1..(n + 1) : taskQueue'[j] = Poison => i < j
                 /\ AtPoison = {} /\ Stopping = {} /\ stoppedThreads = <<>> /\ count > 0
        <3>1. i \in 1..n /\ taskQueue[i] \in due
            BY <1>0, <2>2, <2>3, PoolAssumption
        <3>2. Ahead
            BY <2>1, <2>3, Zenon DEF DrainInv
        <3> QED
            BY <1>0, <2>2, <3>1, <3>2 DEF Ahead
    <2> QED
        BY <1>a, <2>1, <2>2, <2>3, Zenon DEF DrainInv, JoinDrains, Ahead
<1>4. CASE Collect
    <2>1. /\ opc = "collecting" /\ stoppedThreads # <<>> /\ opc' = opc /\ call' = call
          /\ taskState' = taskState /\ due' = due /\ taskQueue' = taskQueue
        BY <1>4, Zenon DEF Collect
    <2>2. call = "join" => \A i \in 1..Len(taskQueue) : taskQueue[i] \notin due
        BY <2>1, Zenon DEF DrainInv, Ahead
    <2> QED
        BY <2>1, <2>2, Zenon DEF DrainInv, JoinDrains, Ahead
<1>5. CASE FinishRemoveThreads
    <2>1. /\ opc = "collecting" /\ count = 0 /\ opc' = "idle" /\ call' = call
          /\ taskState' = taskState /\ due' = due
        BY <1>0, <1>5 DEF FinishRemoveThreads, Collected
    <2>2. ASSUME call = "join", NEW k \in due PROVE taskState[k] \in {"ran", "expired"}
        <3>1. Ahead /\ taskState[k] # "new" /\ k \in Task
            BY <1>0, <2>1, <2>2, Zenon DEF DrainInv
        <3>2. taskState[k] # "queued"
            BY <2>1, <3>1 DEF Ahead, TaskInv
        <3>3. threads = {}
            BY <1>0, <2>1, <2>2, FS_EmptySet, Zenon DEF IInv, CheckInv
        <3>4. taskState[k] # "running"
            BY <3>1, <3>3, Zenon DEF TaskInv, IInv
        <3> QED
            BY <1>0, <3>1, <3>2, <3>4, Zenon
    <2> QED
        BY <2>1, <2>2, Zenon DEF DrainInv, JoinDrains
<1>6. CASE Grow
    BY <1>6, Zenon DEF Grow, AddThreads, DrainInv, JoinDrains
<1>7. CASE Shrink
    BY <1>7, Zenon DEF Shrink, RemoveThreads, DrainInv, JoinDrains
<1>8. CASE Stop
    BY <1>8, Zenon DEF Stop, RemoveThreads, DrainInv, JoinDrains
<1>9. CASE Join
    <2>1. /\ opc = "idle" /\ opc' = "stopThreads" /\ call' = "join"
          /\ taskQueue' = taskQueue /\ taskState' = taskState /\ pc' = pc
          /\ stoppedThreads' = stoppedThreads /\ count' = Cardinality(threads)
          /\ due' = {k \in Task : threads # {} /\ taskState[k] \in {"queued", "running"}}
        BY <1>9, Zenon DEF Join, RemoveThreads
    <2>2. CASE threads = {}
        BY <2>1, <2>2, Zenon DEF DrainInv, JoinDrains, Ahead
    <2>3. CASE threads # {}
        <3>1. PoisonsOf(taskQueue) = {} /\ AtPoison = {} /\ Stopping = {} /\ stoppedThreads = <<>>
            BY <2>1, <2>3, Zenon DEF CheckInv, PoisonInv, CountInv, Counting, Careful
        <3>2. Cardinality(threads) > 0
            BY <1>0, <2>3, ThreadsFinite, FS_EmptySet
        <3>3. \A j \in 1..Len(taskQueue) : taskQueue[j] # Poison
            BY <3>1, Zenon DEF PoisonsOf
        <3>4. Ahead'
            BY <1>a, <2>1, <3>1, <3>2, <3>3, Zenon DEF Ahead
        <3> QED
            BY <2>1, <3>4, Zenon DEF DrainInv, JoinDrains
    <2> QED
        BY <2>2, <2>3, Zenon
<1>10. CASE AddObserver
    BY <1>10, Zenon DEF AddObserver, DrainInv, JoinDrains
<1>11. CASE RemoveObserver
    BY <1>11, Zenon DEF RemoveObserver, DrainInv, JoinDrains
<1>12. ASSUME NEW k \in Task, Add(k) PROVE DrainInv'
    <2> DEFINE n == Len(taskQueue)
    <2>1. /\ taskQueue' = Append(taskQueue, k) /\ taskState[k] = "new" /\ pc' = pc
          /\ taskState' = [taskState EXCEPT ![k] = "queued"] /\ due' = due /\ call' = call
          /\ count' = count /\ stoppedThreads' = stoppedThreads /\ opc' = opc
        BY <1>12, Zenon DEF Add
    <2>2. /\ Len(taskQueue') = n + 1 /\ taskQueue'[n + 1] = k
          /\ \A i \in 1..n : taskQueue'[i] = taskQueue[i]
        BY <1>0, <2>1
    <2>3. call = "join" => k \notin due
        BY <2>1, Zenon DEF DrainInv
    <2>4. ASSUME call = "join", Removing, NEW i \in 1..(n + 1), taskQueue'[i] \in due
          PROVE  /\ \A j \in 1..(n + 1) : taskQueue'[j] = Poison => i < j
                 /\ AtPoison = {} /\ Stopping = {} /\ stoppedThreads = <<>> /\ count > 0
        <3>1. i \in 1..n /\ taskQueue[i] \in due
            BY <1>0, <2>2, <2>3, <2>4
        <3>2. Ahead
            BY <2>4, Zenon DEF DrainInv
        <3> QED
            BY <1>0, <2>2, <3>1, <3>2 DEF Ahead
    <2>5. Removing /\ call = "join" => Ahead'
        BY <1>a, <2>1, <2>2, <2>4, Zenon DEF Ahead
    <2>6. \A l \in Task : l # k => taskState'[l] = taskState[l]
        BY <1>0, <2>1, Zenon
    <2>7. JoinDrains' /\ (call = "join" => \A l \in due : taskState'[l] # "new")
        BY <1>0, <2>1, <2>3, <2>6, Zenon DEF DrainInv, JoinDrains
    <2> QED
        BY <2>1, <2>5, <2>7, Zenon DEF DrainInv
<1> QED
    BY <1>1, <1>2, <1>3, <1>4, <1>5, <1>6, <1>7, <1>8, <1>9, <1>10, <1>11, <1>12, Zenon
       DEF OwnerStep, OwnerCall

\* A step of a pool thread preserves DrainInv.
LEMMA ThreadDrainInv ==
    ASSUME IInv, CheckInv, TaskInv, DrainInv, NEW t \in Thread, ThreadStep(t)
    PROVE  DrainInv'
<1> USE DEF Removing, Goto, queues, counts, workers, owner, watch
<1>0. /\ taskQueue \in Seq(Task \cup {Poison}) /\ Len(taskQueue) \in Nat
      /\ due \subseteq Task /\ pc \in [Thread -> ThreadPC]
      /\ taskState \in [Task -> {"new", "queued", "running", "ran", "expired"}]
    BY DEF IInv, TypeOK
<1>1. opc' = opc /\ call' = call /\ due' = due /\ count' = count
    BY Zenon
       DEF ThreadStep, Startup, Take, TakePoison, StopOnPoison, RunTask, ReadCount, ReadJoin,
           StopEarly, Overshoot, Undo
<1>2. CASE Take(t)
    <2> DEFINE q == taskQueue
               n == Len(taskQueue)
               h == Head(taskQueue)
    <2>1. /\ q # <<>> /\ taskQueue' = Tail(q) /\ stoppedThreads' = stoppedThreads
          /\ taskState' = [k \in Task |-> IF k = h THEN "running" ELSE taskState[k]]
          /\ pc[t] = "take" /\ pc' = [pc EXCEPT ![t] = IF h = Poison THEN "poison" ELSE "run"]
        BY <1>2, Zenon DEF Take
    <2>2. /\ n \in Nat \ {0} /\ h = q[1] /\ Len(taskQueue') = n - 1
          /\ \A i \in 1..(n - 1) : taskQueue'[i] = q[i + 1] /\ i + 1 \in 1..n
          /\ 1 \in 1..n
        BY <1>0, <2>1
    <2>3. h \in Task => taskState[h] = "queued"
        BY <2>2 DEF TaskInv
    <2>4. JoinDrains' /\ (call = "join" => \A k \in due : taskState'[k] # "new")
        BY <1>0, <1>1, <2>1, <2>3, Zenon DEF DrainInv, JoinDrains
    <2>5. Stopping' = Stopping /\ (h # Poison => AtPoison' = AtPoison)
        BY <1>0, <2>1, Zenon DEF Stopping, AtPoison
    <2>6. ASSUME call = "join", Removing, NEW i \in 1..(n - 1), taskQueue'[i] \in due
          PROVE  /\ \A j \in 1..(n - 1) : taskQueue'[j] = Poison => i < j
                 /\ AtPoison' = {} /\ Stopping' = {} /\ stoppedThreads = <<>> /\ count > 0
        <3>1. Ahead /\ q[i + 1] \in due /\ i + 1 \in 1..n
            BY <2>2, <2>6, Zenon DEF DrainInv
        <3>2. /\ \A j \in 1..n : q[j] = Poison => i + 1 < j
              /\ AtPoison = {} /\ Stopping = {} /\ stoppedThreads = <<>> /\ count > 0
            BY <3>1, Zenon DEF Ahead
        <3>3. h # Poison
            BY <2>2, <3>2
        <3>4. \A j \in 1..(n - 1) : taskQueue'[j] = Poison => i < j
            BY <2>2, <3>2
        <3> QED
            BY <2>5, <3>2, <3>3, <3>4, Zenon
    <2>7. Removing /\ call = "join" => Ahead'
        BY <1>1, <2>1, <2>2, <2>6, Zenon DEF Ahead
    <2> QED
        BY <1>1, <2>4, <2>7, Zenon DEF DrainInv
<1>3. CASE RunTask(t)
    <2>1. PICK end \in {"ran", "expired"} : taskState' = [taskState EXCEPT ![task[t]] = end]
        BY <1>3, Zenon DEF RunTask
    <2>2. /\ pc[t] = "run" /\ pc' = [pc EXCEPT ![t] = "count"] /\ taskQueue' = taskQueue
          /\ stoppedThreads' = stoppedThreads
        BY <1>3, Zenon DEF RunTask
    <2>3. task[t] \in Task /\ taskState[task[t]] = "running"
        BY <2>2, Zenon DEF TaskInv
    <2>4. JoinDrains' /\ (call = "join" => \A k \in due : taskState'[k] # "new")
        BY <1>0, <1>1, <2>1, <2>3, Zenon DEF DrainInv, JoinDrains
    <2>5. Stopping' = Stopping /\ AtPoison' = AtPoison
        BY <1>0, <2>2, Zenon DEF Stopping, AtPoison
    <2> QED
        BY <1>1, <2>2, <2>4, <2>5, Zenon DEF DrainInv, Ahead
<1>4. CASE TakePoison(t) \/ StopOnPoison(t) \/ StopEarly(t)
    <2>1. taskQueue' = taskQueue /\ taskState' = taskState
        BY <1>4, Zenon DEF TakePoison, StopOnPoison, StopEarly
    <2>2. t \in AtPoison \/ t \in Stopping \/ call = "stop"
        BY <1>4, Zenon
           DEF TakePoison, StopOnPoison, StopEarly, AtPoison, Stopping, CheckInv, EarlyInv
    <2>3. Removing /\ call = "join" => \A i \in 1..Len(taskQueue) : taskQueue[i] \notin due
        BY <2>2, Zenon DEF DrainInv, Ahead
    <2> QED
        BY <1>1, <2>1, <2>3, Zenon DEF DrainInv, JoinDrains, Ahead
<1>5. CASE Startup(t) \/ ReadCount(t) \/ ReadJoin(t) \/ Overshoot(t) \/ Undo(t)
    <2>1. /\ taskQueue' = taskQueue /\ taskState' = taskState /\ stoppedThreads' = stoppedThreads
          /\ Stopping' = Stopping /\ AtPoison' = AtPoison
        BY <1>0, <1>5, Zenon
           DEF Startup, ReadCount, ReadJoin, Overshoot, Undo, Stopping, AtPoison
    <2> QED
        BY <1>1, <2>1, Zenon DEF DrainInv, JoinDrains, Ahead
<1> QED
    BY <1>2, <1>3, <1>4, <1>5, Zenon DEF ThreadStep

\* DrainInv holds in every reachable state of such a pool.
LEMMA DrainInvariance == ASSUME Careful PROVE Spec => []DrainInv
<1>1. Init => DrainInv
    BY Zenon DEF Init, DrainInv, JoinDrains, Removing
<1>2. IInv /\ CheckInv /\ TaskInv /\ DrainInv /\ [Next]_vars => DrainInv'
    <2> SUFFICES ASSUME IInv, CheckInv, TaskInv, DrainInv, [Next]_vars PROVE DrainInv'
        BY Zenon
    <2>1. CASE UNCHANGED vars
        <3>1. /\ Stopping' = Stopping /\ AtPoison' = AtPoison /\ Removing' = Removing
              /\ taskQueue' = taskQueue /\ taskState' = taskState /\ due' = due
              /\ stoppedThreads' = stoppedThreads /\ count' = count /\ opc' = opc /\ call' = call
            BY <2>1, Zenon DEF vars, queues, workers, owner, Stopping, AtPoison, Removing
        <3> QED
            BY <3>1, Zenon DEF DrainInv, JoinDrains, Ahead
    <2> QED
        BY <2>1, OwnerDrainInv, ThreadDrainInv, Zenon DEF Next
<1> QED
    BY <1>1, <1>2, Invariance, CheckInvariance, TaskInvariance, PTL DEF Spec

-----------------------------------------------------------------------------
(***************************************************************************)
(* The observers, in a pool that is never stopped.                         *)
(***************************************************************************)

\* ObserverInv holds in every reachable state of a pool that is never stopped.
LEMMA ObserverInvariance == ASSUME "stop" \notin Calls PROVE Spec => []ObserverInv
<1>0. Careful
    BY Zenon DEF Careful
<1>1. Init => ObserverInv
    BY DEF Init, ObserverInv
<1>2. IInv /\ CheckInv /\ ObserverInv /\ [Next]_vars => ObserverInv'
    <2> SUFFICES ASSUME IInv, CheckInv, ObserverInv, [Next]_vars PROVE ObserverInv'
        BY Zenon
    <2> USE DEF queues, counts, workers, owner, watch
    <2>0. /\ pc \in [Thread -> ThreadPC] /\ threads \subseteq Thread /\ fresh \subseteq threads
          /\ seen = IF watching THEN {u \in threads : pc[u] # "exited"} \ fresh ELSE {}
          /\ opc # "starting" => fresh = {}
          /\ ~Counting => \A u \in threads : pc[u] \notin {"unborn", "exited"}
        BY DEF IInv, TypeOK, ObserverInv, CheckInv, CountInv, StoppedInv
    <2>a. ASSUME threads' = threads, fresh' = fresh, seen' = seen, watching' = watching,
                 opc' = "starting" <=> opc = "starting",
                 \A u \in Thread : pc'[u] = "exited" <=> pc[u] = "exited"
          PROVE  ObserverInv'
        BY <2>0, <2>a, Zenon DEF ObserverInv
    <2>1. CASE UNCHANGED vars
        BY <2>1, <2>a, Zenon DEF vars
    <2>2. CASE FinishAddThreads
        <3>1. /\ opc = "starting" /\ seen' = (IF watching THEN seen \cup fresh ELSE seen)
              /\ watching' = watching /\ fresh' = {} /\ threads' = threads /\ pc' = pc
            BY <2>2, Zenon DEF FinishAddThreads, Started
        <3> QED
            BY <2>0, <3>1, Zenon DEF ObserverInv, Counting
    <2>3. CASE StopThreads \/ AddPoison \/ FinishRemoveThreads \/ Shrink \/ Stop \/ Join
        <3>1. /\ threads' = threads /\ fresh' = fresh /\ seen' = seen /\ watching' = watching
              /\ pc' = pc /\ opc # "starting" /\ opc' # "starting"
            BY <2>3, Zenon DEF StopThreads, SetThreadsToStop, AddPoison, PoisonRound,
                    FinishRemoveThreads, Collected, Shrink, Stop, Join, RemoveThreads
        <3> QED
            BY <2>a, <3>1, Zenon
    <2>4. CASE Collect
        <3>1. /\ threads' = threads \ {Head(stoppedThreads)} /\ fresh' = fresh /\ seen' = seen
              /\ watching' = watching /\ pc' = pc /\ opc = "collecting" /\ opc' = opc
            BY <2>4, Zenon DEF Collect
        <3>2. stoppedThreads \in Seq(Thread) /\ stoppedThreads # <<>>
            BY <2>4, Zenon DEF Collect, IInv, TypeOK
        <3>3. pc[Head(stoppedThreads)] = "exited"
            BY <3>2 DEF IInv
        <3> QED
            BY <2>0, <3>1, <3>3, Zenon DEF ObserverInv
    <2>5. CASE Grow
        <3>1. PICK n \in 1..Cardinality(Thread) : AddThreads(n)
            BY <2>5, Zenon DEF Grow
        <3>2. PICK new \in Newcomers(n) :
                 /\ threads' = threads \cup new /\ fresh' = new
                 /\ pc' = [u \in Thread |-> IF u \in new THEN "created" ELSE pc[u]]
                 /\ opc' = "starting"
            BY <3>1, Zenon DEF AddThreads
        <3>3. new \subseteq Thread /\ \A u \in new : pc[u] = "unborn"
            BY Zenon DEF Newcomers
        <3>4. watching' = watching /\ seen' = seen /\ opc = "idle"
            BY <2>5, Zenon DEF Grow
        <3>5. \A u \in threads : u \notin new /\ pc[u] # "exited"
            BY <2>0, <3>3, <3>4, Zenon DEF Counting
        <3> QED
            BY <2>0, <3>2, <3>3, <3>4, <3>5, Zenon DEF ObserverInv
    <2>6. CASE AddObserver \/ RemoveObserver
        <3>1. /\ threads' = threads /\ fresh' = fresh /\ pc' = pc /\ opc = "idle" /\ opc' = opc
              /\ \/ ~watching /\ watching' /\ seen' = seen \cup threads
                 \/ watching /\ ~watching' /\ seen' = seen \ threads
            BY <2>6, Zenon DEF AddObserver, RemoveObserver
        <3>2. fresh = {} /\ \A u \in threads : pc[u] # "exited"
            BY <2>0, <3>1, Zenon DEF Counting
        <3> QED
            BY <2>0, <3>1, <3>2, Zenon DEF ObserverInv
    <2>7. ASSUME NEW k \in Task, Add(k) PROVE ObserverInv'
        BY <2>7, <2>a, Zenon DEF Add
    <2>8. ASSUME NEW t \in Thread, ThreadStep(t) PROVE ObserverInv'
        <3>1. CASE StopOnPoison(t)
            <4>1. /\ threads' = threads /\ fresh' = fresh /\ opc' = opc /\ watching' = watching
                  /\ seen' = (IF watching THEN seen \ {t} ELSE seen)
                  /\ pc[t] = "stopping" /\ pc' = [pc EXCEPT ![t] = "exited"]
                BY <3>1, Zenon DEF StopOnPoison, Goto
            <4> QED
                BY <2>0, <4>1, Zenon DEF ObserverInv
        <3>2. CASE StopEarly(t)
            BY <3>2, Zenon DEF StopEarly, Goto, CheckInv, EarlyInv, Counting, Removing
        <3>3. CASE ~StopOnPoison(t) /\ ~StopEarly(t)
            <4>1. /\ threads' = threads /\ fresh' = fresh /\ opc' = opc /\ seen' = seen
                  /\ watching' = watching
                  /\ \A u \in Thread : pc'[u] = "exited" <=> pc[u] = "exited"
                BY <2>0, <2>8, <3>3, Zenon DEF ThreadStep, Startup, Take, TakePoison, RunTask,
                        ReadCount, ReadJoin, Overshoot, Undo, Goto
            <4> QED
                BY <2>a, <4>1, Zenon
        <3> QED
            BY <3>1, <3>2, <3>3, Zenon
    <2> QED
        BY <2>1, <2>2, <2>3, <2>4, <2>5, <2>6, <2>7, <2>8, Zenon DEF Next, OwnerStep, OwnerCall
<1> QED
    BY <1>0, <1>1, <1>2, Invariance, CheckInvariance, PTL DEF Spec

-----------------------------------------------------------------------------
\* Every variable of the pool keeps its type, whatever the owner calls.
THEOREM TypeCorrect == Spec => []TypeOK
BY Invariance, PTL DEF IInv

\* stop() and join() return only when every thread the pool ever made has left
\* threadRun, so the destructor frees no pool that a thread still uses.
THEOREM StopWaitsForAll == Spec => []AllExited
BY Invariance, PTL DEF IInv

\* From the moment stop() sets threadsToStop_, no thread takes more than one
\* further task, whatever the owner called before.
THEOREM StopPromptly == Spec => []StopIsPrompt
<1>1. PromptInv => StopIsPrompt
    BY Zenon DEF PromptInv, StopIsPrompt, Counting
<1> QED
    BY <1>1, PromptInvariance, PTL

\* No RDDCHECK fails in a pool whose owner does not both stop and resize it: a
\* thread takes a poison only while threadsToStop_ > 0, removeThreads begins and
\* ends with an empty stoppedThreads_, and only threads of threads_ enter that.
THEOREM ChecksHold == ASSUME Careful PROVE Spec => []NoCheckFails
BY CheckInvariance, PTL DEF CheckInv, NoCheckFails

\* In such a pool join() returns only when every task that was queued or running
\* at the call has been run or has expired.
THEOREM JoinDrainsQueue == ASSUME Careful PROVE Spec => []JoinDrains
BY DrainInvariance, PTL DEF DrainInv

\* In a pool that is never stopped nothing of a removal outlives it: between
\* calls threadsToStop_ is 0, no poison is queued and every thread works.
THEOREM RemovalsSettle == ASSUME "stop" \notin Calls PROVE Spec => []Settled
<1>1. IInv /\ CheckInv => Settled
    <2> SUFFICES ASSUME IInv, CheckInv, opc = "idle" PROVE Settled
        BY Zenon DEF Settled
    <2>1. threadsToStop = 0 /\ PoisonsOf(taskQueue) = {} /\ AtPoison = {} /\ Stopping = {}
        BY Zenon DEF CheckInv, CountInv, PoisonInv, Counting
    <2>2. \A t \in threads : pc[t] # "exited"
        BY DEF CheckInv, CountInv, StoppedInv, Counting
    <2>3. threads \subseteq Thread /\ DOMAIN taskQueue = 1..Len(taskQueue)
        BY DEF IInv, TypeOK
    <2> QED
        BY <2>1, <2>2, <2>3, Zenon DEF Settled, PoisonsOf, AtPoison, Stopping
<1>2. Careful
    BY Zenon DEF Careful
<1> QED
    BY <1>1, <1>2, Invariance, CheckInvariance, PTL

\* In a pool that is never stopped an attached observer has been told of exactly
\* the threads of threads_ between calls, and a detached one of none.
THEOREM ObserversAgree == ASSUME "stop" \notin Calls PROVE Spec => []ObserverAgrees
<1>1. CheckInv /\ ObserverInv => ObserverAgrees
    <2> SUFFICES ASSUME CheckInv, ObserverInv, opc = "idle"
                 PROVE  seen = IF watching THEN threads ELSE {}
        BY Zenon DEF ObserverAgrees
    <2>1. fresh = {} /\ \A t \in threads : pc[t] # "exited"
        BY DEF CheckInv, CountInv, StoppedInv, Counting, ObserverInv
    <2>2. {t \in threads : pc[t] # "exited"} \ fresh = threads
        BY <2>1, Zenon
    <2> QED
        BY <2>2, Zenon DEF ObserverInv
<1>2. Careful
    BY Zenon DEF Careful
<1> QED
    BY <1>1, <1>2, CheckInvariance, ObserverInvariance, PTL
=============================================================================
