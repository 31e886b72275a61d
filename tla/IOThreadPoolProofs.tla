------------------------- MODULE IOThreadPoolProofs -------------------------
(***************************************************************************)
(* IOThreadPool, for every finite set of threads and of tasks: the calls   *)
(* leave the pool settled, pendingTasks is exact, and join drains.         *)
(***************************************************************************)
EXTENDS IOThreadPool, FiniteSetTheorems, TLAPS

Removing == opc \in {"flag", "stop", "collect"}

\* The threads that have been told to end and are not collected yet.
Doomed == {t \in ioThreads : ~shouldRun[t]}

\* What a thread has depends on where it is; only a thread that was told to end
\* leaves its loops, and only such a thread is found among the stopped ones.
ThreadsOK ==
    \A t \in IOThread :
        /\ eventLoop[t] = "on" <=> tpc[t] \notin {"unborn", "created", "exited"}
        /\ tpc[t] \in {"drain", "once", "leave", "null", "exited"} => ~shouldRun[t]
        /\ tpc[t] \in {"unborn", "created"} => shouldRun[t]
        /\ tpc[t] = "created" => opc = "starting"
        /\ tpc[t] = "unborn" => t \notin ioThreads
        /\ t \notin ioThreads => tpc[t] \in {"unborn", "exited"}
        /\ t \in stopped <=> t \in ioThreads /\ tpc[t] \in {"null", "exited"}
        /\ shouldRun[t] => ~stopLoop[t]

\* removeThreads collects as many threads as it told to end, one at a time.
OwnerOK ==
    /\ bad # "failed"
    /\ ~Removing => Doomed = {}
    /\ opc = "idle" => known = ioThreads
    /\ opc = "starting" => known \subseteq ioThreads /\ call = "grow"
    /\ Removing =>
         /\ known = ioThreads \ Doomed
         /\ victims \subseteq ioThreads
         /\ count = Cardinality(victims \cup Doomed)
    /\ opc = "flag" => \A t \in victims : shouldRun[t]
    /\ opc = "stop" => \A t, u \in victims : ~shouldRun[t] /\ ~shouldRun[u] => t = u
    /\ opc = "collect" => victims = {}
    /\ call = "join" /\ Removing => victims \cup Doomed = ioThreads
    /\ call = "join" /\ opc = "idle" => ioThreads = {}

\* A callback belongs to a task that was added to this thread and has not run.
TasksOK ==
    /\ \A k \in IOTask : taskAt[k] \in {"picked", "counted", "queued"} => worker[k] \in IOThread
    /\ \A t \in IOThread : inbox[t] \cap batch[t] = {}
    /\ \A t \in IOThread : \A k \in inbox[t] \cup batch[t] : taskAt[k] = "queued" /\ worker[k] = t

\* A task that join owes is with a thread that still has its loops before it.
SureOK ==
    /\ Removing /\ ~joining => sure = {}
    /\ \A k \in sure : taskAt[k] = "queued" =>
           worker[k] \in ioThreads /\ tpc[worker[k]] \notin {"leave", "null", "exited"}

IInv == IOTypeOK /\ ThreadsOK /\ OwnerOK /\ TasksOK /\ PendingExact /\ SureOK

-----------------------------------------------------------------------------
LEMMA HeldFinite == \A t : IsFiniteSet(Held(t))
<1> SUFFICES ASSUME NEW t PROVE IsFiniteSet(Held(t))
  BY Zenon
<1>1. Held(t) \subseteq IOTask
  BY Zenon DEF Held
<1> QED BY <1>1, IOAssumption, FS_Subset, Zenon

\* A step that counts no task and runs none leaves pendingTasks exact.
LEMMA PendingKept ==
    ASSUME PendingExact, UNCHANGED pending,
           \A t \in IOThread : Held(t)' = Held(t)
    PROVE  PendingExact'
BY Zenon DEF PendingExact

LEMMA PendingUnchanged ==
    ASSUME PendingExact, UNCHANGED <<pending, taskAt, worker>>
    PROVE  PendingExact'
<1>1. \A t \in IOThread : Held(t)' = Held(t)
  BY Zenon DEF Held
<1> QED BY <1>1, PendingKept, Zenon

LEMMA TasksUnchanged ==
    ASSUME TasksOK, UNCHANGED <<taskAt, worker, inbox, batch>>
    PROVE  TasksOK'
BY Zenon DEF TasksOK

\* A thread that the owner does not touch goes on; what that leaves of IInv.
LEMMA OwnerUnchanged ==
    ASSUME OwnerOK, UNCHANGED <<ioThreads, shouldRun, opc, call, victims, count, known, bad>>
    PROVE  OwnerOK'
BY Zenon DEF OwnerOK, Removing, Doomed

LEMMA DoomedFinite ==
    ASSUME IOTypeOK PROVE IsFiniteSet(victims \cup Doomed) /\ IsFiniteSet(ioThreads)
<1>1. victims \cup Doomed \subseteq IOThread /\ ioThreads \subseteq IOThread
  BY Zenon DEF IOTypeOK, Doomed
<1> QED BY <1>1, IOAssumption, FS_Subset, Zenon

-----------------------------------------------------------------------------
(***************************************************************************)
(* The owner.                                                              *)
(***************************************************************************)

LEMMA AddThreadsStep == ASSUME IInv, AddIOThreads PROVE IInv'
<1> USE DEF IInv
<1>1. PICK new \in SUBSET {t \in IOThread : tpc[t] = "unborn"} \ {{}} :
          /\ ioThreads' = ioThreads \cup new
          /\ tpc' = [t \in IOThread |-> IF t \in new THEN "created" ELSE tpc[t]]
  BY Zenon DEF AddIOThreads
<1>2. /\ opc = "idle" /\ opc' = "starting" /\ call' = "grow"
      /\ UNCHANGED <<stopped, joining, flags, pending, eventLoop, loops, tasks,
                     victims, count, known, bad>>
  BY Zenon DEF AddIOThreads
<1>3. IOTypeOK'
  BY <1>1, <1>2, Zenon DEF IOTypeOK, flags, loops, tasks
<1>4. ThreadsOK'
  BY <1>1, <1>2, Zenon DEF IOTypeOK, ThreadsOK, OwnerOK, flags, Doomed, Removing
<1>5. OwnerOK'
  <2>1. Doomed' = {}
    BY <1>1, <1>2, Zenon DEF ThreadsOK, OwnerOK, flags, Doomed, Removing
  <2> QED BY <1>1, <1>2, <2>1, Zenon DEF OwnerOK, Removing
<1>6. TasksOK' /\ PendingExact'
  BY <1>2, TasksUnchanged, PendingUnchanged, Zenon DEF loops, tasks
<1>7. SureOK'
  BY <1>1, <1>2, Zenon DEF IOTypeOK, SureOK, ThreadsOK, Removing, tasks
<1> QED BY <1>3, <1>4, <1>5, <1>6, <1>7, Zenon

LEMMA StartedStep == ASSUME IInv, AllStarted PROVE IInv'
<1> USE DEF IInv
<1>1. IOTypeOK'
  BY Zenon DEF AllStarted, IOTypeOK, pool, flags, loops, tasks
<1>2. ThreadsOK'
  BY Zenon DEF AllStarted, IOTypeOK, ThreadsOK, pool, flags
<1>3. OwnerOK'
  BY Zenon DEF AllStarted, OwnerOK, Removing, Doomed, pool, flags
<1>4. TasksOK' /\ PendingExact'
  BY TasksUnchanged, PendingUnchanged, Zenon DEF AllStarted, loops, tasks
<1>5. SureOK'
  BY Zenon DEF AllStarted, SureOK, Removing, pool, tasks
<1> QED BY <1>1, <1>2, <1>3, <1>4, <1>5, Zenon

LEMMA RemoveStep ==
    ASSUME IInv, NEW n \in Nat, n <= Cardinality(ioThreads), NEW name, NEW join \in BOOLEAN,
           name \in {"shrink", "stop", "join"}, name = "stop" <=> ~join,
           name = "join" => n = Cardinality(ioThreads),
           RemoveIOThreads(name, n, join)
    PROVE  IInv'
<1> USE DEF IInv
<1>1. /\ opc = "idle" /\ victims' \subseteq ioThreads /\ Cardinality(victims') = n
      /\ bad' = IF stopped # {} THEN "failed" ELSE bad
      /\ joining' = join
      /\ count' = n
      /\ opc' = (IF n = 0 THEN "collect" ELSE "flag") /\ call' = name
      /\ sure' = IF join THEN sure ELSE {}
      /\ UNCHANGED <<ioThreads, stopped, flags, pending, eventLoop, loops, tpc, taskAt,
                     worker, known>>
  BY Zenon DEF RemoveIOThreads
<1>2. Doomed = {} /\ Doomed' = {} /\ known = ioThreads
  BY <1>1, Zenon DEF OwnerOK, Removing, Doomed, flags
<1>3. stopped = {}
  BY <1>1, <1>2, Zenon DEF ThreadsOK, Doomed, IOTypeOK
<1>4. IOTypeOK'
  BY <1>1, Zenon DEF IOTypeOK, flags, loops
<1>5. ThreadsOK'
  BY <1>1, Zenon DEF IOTypeOK, ThreadsOK, flags
<1>6. OwnerOK'
  <2>1. IsFiniteSet(victims') /\ IsFiniteSet(ioThreads)
    BY <1>1, DoomedFinite, FS_Subset, Zenon
  <2>2. n = 0 => victims' = {}
    BY <1>1, <2>1, FS_EmptySet, Zenon
  <2>3. n = Cardinality(ioThreads) => victims' = ioThreads
    BY <1>1, <2>1, FS_Subset, Zenon
  <2>4. \A t \in ioThreads : shouldRun'[t]
    BY <1>1, <1>2, Zenon DEF Doomed, flags
  <2>5. bad' # "failed"
    BY <1>1, <1>3, Zenon DEF OwnerOK
  <2>6. victims' \cup Doomed' = victims'
    BY <1>2, Zenon
  <2> QED BY <1>1, <1>2, <2>2, <2>3, <2>4, <2>5, <2>6, Zenon DEF OwnerOK, Removing
<1>7. TasksOK' /\ PendingExact'
  BY <1>1, TasksUnchanged, PendingUnchanged, Zenon DEF loops
<1>8. SureOK'
  BY <1>1, Zenon DEF SureOK, Removing
<1> QED BY <1>4, <1>5, <1>6, <1>7, <1>8, Zenon

LEMMA CallStep == ASSUME IInv, IOCall PROVE IInv'
<1>1. Cardinality(ioThreads) \in Nat
  BY DoomedFinite, FS_CardinalityType, Zenon DEF IInv
<1>2. CASE \E n \in 1..Cardinality(ioThreads) : RemoveIOThreads("shrink", n, TRUE)
  <2> PICK n \in 1..Cardinality(ioThreads) : RemoveIOThreads("shrink", n, TRUE)
    BY <1>2, Zenon
  <2>1. n \in Nat /\ n <= Cardinality(ioThreads)
    BY <1>1
  <2> QED BY <2>1, RemoveStep, Zenon
<1>3. CASE RemoveIOThreads("stop", Cardinality(ioThreads), FALSE)
  <2>1. Cardinality(ioThreads) <= Cardinality(ioThreads)
    BY <1>1
  <2> QED BY <1>1, <1>3, <2>1, RemoveStep, Zenon
<1>4. CASE RemoveIOThreads("join", Cardinality(ioThreads), TRUE)
  <2>1. Cardinality(ioThreads) <= Cardinality(ioThreads)
    BY <1>1
  <2> QED BY <1>1, <1>4, <2>1, RemoveStep, Zenon
<1> QED BY <1>2, <1>3, <1>4, Zenon DEF IOCall

LEMMA FlagStep == ASSUME IInv, NEW t \in IOThread, ClearShouldRun(t) PROVE IInv'
<1> USE DEF IInv
<1>1. /\ opc = "flag" /\ t \in victims /\ opc' = "stop"
      /\ known' = known \ {t}
      /\ shouldRun' = [shouldRun EXCEPT ![t] = FALSE]
      /\ UNCHANGED <<pool, stopLoop, pending, eventLoop, loops, tpc, tasks, call,
                     victims, count, bad>>
  BY Zenon DEF ClearShouldRun
<1>2. IOTypeOK'
  BY <1>1, Zenon DEF IOTypeOK, pool, loops, tasks
<1>3. t \in ioThreads
  BY <1>1, Zenon DEF OwnerOK, Removing
<1>4. tpc[t] \notin {"unborn", "created"}
  BY <1>1, <1>3, Zenon DEF ThreadsOK
<1>5. ThreadsOK'
  BY <1>1, <1>4, Zenon DEF IOTypeOK, ThreadsOK, pool
<1>6. OwnerOK'
  <2>1. Doomed' = Doomed \cup {t}
    BY <1>1, <1>3, Zenon DEF Doomed, IOTypeOK, pool
  <2>2. victims' \cup Doomed' = victims \cup Doomed
    BY <1>1, <2>1, Zenon
  <2>3. known' = ioThreads' \ Doomed'
    BY <1>1, <2>1, Zenon DEF OwnerOK, Removing, pool
  <2>4. \A u, v \in victims' : ~shouldRun'[u] /\ ~shouldRun'[v] => u = v
    BY <1>1, Zenon DEF OwnerOK, IOTypeOK
  <2> QED BY <1>1, <2>2, <2>3, <2>4, Zenon DEF OwnerOK, Removing, pool
<1>7. TasksOK' /\ PendingExact'
  BY <1>1, TasksUnchanged, PendingUnchanged, Zenon DEF loops, tasks
<1>8. SureOK'
  BY <1>1, Zenon DEF SureOK, Removing, pool, tasks
<1> QED BY <1>2, <1>5, <1>6, <1>7, <1>8, Zenon

LEMMA StopStep == ASSUME IInv, NEW t \in IOThread, StopEventLoop(t) PROVE IInv'
<1> USE DEF IInv
<1>1. /\ opc = "stop" /\ t \in victims /\ ~shouldRun[t]
      /\ stopLoop' = [stopLoop EXCEPT ![t] = @ \/ eventLoop[t] = "on"]
      /\ victims' = victims \ {t}
      /\ opc' = IF victims = {t} THEN "collect" ELSE "flag"
      /\ UNCHANGED <<pool, shouldRun, pending, eventLoop, loops, tpc, tasks, call, count,
                     known, bad>>
  BY Zenon DEF StopEventLoop, StopLoopIf
<1>2. IOTypeOK'
  <2>1. stopLoop' \in [IOThread -> BOOLEAN]
    BY <1>1, Zenon DEF IOTypeOK
  <2> QED BY <1>1, <2>1, Zenon DEF IOTypeOK, pool, loops, tasks
<1>3. ThreadsOK'
  BY <1>1, Zenon DEF IOTypeOK, ThreadsOK, pool
<1>4. OwnerOK'
  <2>1. Doomed' = Doomed /\ t \in Doomed
    BY <1>1, Zenon DEF Doomed, pool, OwnerOK, Removing
  <2>2. victims' \cup Doomed' = victims \cup Doomed
    BY <1>1, <2>1, Zenon
  <2>3. \A u \in victims' : shouldRun'[u]
    BY <1>1, Zenon DEF OwnerOK
  <2> QED BY <1>1, <2>1, <2>2, <2>3, Zenon DEF OwnerOK, Removing, pool
<1>5. TasksOK' /\ PendingExact'
  BY <1>1, TasksUnchanged, PendingUnchanged, Zenon DEF loops, tasks
<1>6. SureOK'
  BY <1>1, Zenon DEF SureOK, Removing, pool, tasks
<1> QED BY <1>2, <1>3, <1>4, <1>5, <1>6, Zenon

LEMMA CollectStep == ASSUME IInv, NEW t \in IOThread, CollectIO(t) PROVE IInv'
<1> USE DEF IInv
<1>1. /\ opc = "collect" /\ count > 0 /\ t \in stopped /\ tpc[t] = "exited"
      /\ stopped' = stopped \ {t}
      /\ bad' = IF t \in ioThreads THEN bad ELSE "failed"
      /\ ioThreads' = ioThreads \ {t}
      /\ count' = count - 1
      /\ UNCHANGED <<joining, flags, pending, eventLoop, loops, tpc, tasks, opc, call,
                     victims, known>>
  BY Zenon DEF CollectIO, CollectAt
<1>2. IOTypeOK'
  BY <1>1 DEF IOTypeOK, flags, loops, tasks
<1>3. t \in ioThreads /\ ~shouldRun[t]
  BY <1>1, Zenon DEF ThreadsOK
<1>4. ThreadsOK'
  BY <1>1, Zenon DEF IOTypeOK, ThreadsOK, flags
<1>5. OwnerOK'
  <2>1. victims = {} /\ t \in Doomed /\ Doomed' = Doomed \ {t}
    BY <1>1, <1>3, Zenon DEF OwnerOK, Doomed, flags
  <2>2. count = Cardinality(Doomed) /\ IsFiniteSet(Doomed)
    BY <1>1, <2>1, DoomedFinite, Zenon DEF OwnerOK, Removing
  <2>3. count' = Cardinality(Doomed')
    BY <1>1, <2>1, <2>2, FS_RemoveElement, Zenon
  <2>4. known' = ioThreads' \ Doomed'
    BY <1>1, <1>3, <2>1, Zenon DEF OwnerOK, Removing
  <2>5. call = "join" => Doomed' = ioThreads'
    BY <1>1, <2>1, Zenon DEF OwnerOK, Removing
  <2>6. victims' \cup Doomed' = Doomed' /\ victims' = {}
    BY <1>1, <2>1, Zenon
  <2> QED BY <1>1, <1>3, <2>3, <2>4, <2>5, <2>6, Zenon DEF OwnerOK, Removing
<1>6. TasksOK' /\ PendingExact'
  BY <1>1, TasksUnchanged, PendingUnchanged, Zenon DEF loops, tasks
<1>7. SureOK'
  BY <1>1, Zenon DEF SureOK, Removing, tasks
<1> QED BY <1>2, <1>4, <1>5, <1>6, <1>7, Zenon

LEMMA EndRemoveStep == ASSUME IInv, EndRemove PROVE IInv'
<1> USE DEF IInv
<1>1. /\ opc = "collect" /\ count = 0 /\ opc' = "idle"
      /\ bad' = IF stopped = {} THEN bad ELSE "failed"
      /\ UNCHANGED <<pool, flags, pending, eventLoop, loops, tpc, tasks, call, victims,
                     count, known>>
  BY Zenon DEF EndRemove
<1>2. IOTypeOK'
  BY <1>1, Zenon DEF IOTypeOK, pool, flags, loops, tasks
<1>3. victims \cup Doomed = {}
  BY <1>1, DoomedFinite, FS_EmptySet, Zenon DEF OwnerOK, Removing
<1>4. stopped = {}
  BY <1>3, Zenon DEF ThreadsOK, Doomed, IOTypeOK
<1>5. ThreadsOK'
  BY <1>1, Zenon DEF ThreadsOK, pool, flags
<1>6. OwnerOK'
  <2>1. Doomed' = {} /\ known = ioThreads /\ (call = "join" => ioThreads = {})
    BY <1>1, <1>3, Zenon DEF OwnerOK, Removing, Doomed, pool, flags
  <2> QED BY <1>1, <1>4, <2>1, Zenon DEF OwnerOK, Removing, pool
<1>7. TasksOK' /\ PendingExact'
  BY <1>1, TasksUnchanged, PendingUnchanged, Zenon DEF loops, tasks
<1>8. SureOK'
  BY <1>1, Zenon DEF SureOK, Removing, pool, tasks
<1> QED BY <1>2, <1>5, <1>6, <1>7, <1>8, Zenon

-----------------------------------------------------------------------------
(***************************************************************************)
(* Callers of add.                                                         *)
(***************************************************************************)

LEMMA PickStep == ASSUME IInv, NEW k \in IOTask, PickThread(k) PROVE IInv'
<1> USE DEF IInv
<1>1. /\ taskAt[k] = "new"
      /\ taskAt' \in {[taskAt EXCEPT ![k] = "refused"], [taskAt EXCEPT ![k] = "picked"]}
      /\ worker' \in [IOTask -> IOThread \cup {NoThread}]
      /\ \A j \in IOTask \ {k} : worker'[j] = worker[j]
      /\ taskAt'[k] = "picked" => worker'[k] \in IOThread
      /\ sure' \in {sure, sure \cup {k}}
      /\ sure' # sure => opc = "idle"
      /\ UNCHANGED <<pool, flags, pending, eventLoop, loops, tpc, owner, bad>>
  BY DEF PickThread, IOTypeOK
<1>2. IOTypeOK'
  BY <1>1 DEF IOTypeOK, pool, flags, loops, owner
<1>3. ThreadsOK'
  BY <1>1, Zenon DEF ThreadsOK, pool, flags, owner
<1>4. OwnerOK'
  BY <1>1, OwnerUnchanged, Zenon DEF pool, flags, owner
<1>5. taskAt'[k] \in {"refused", "picked"} /\ \A j \in IOTask \ {k} : taskAt'[j] = taskAt[j]
  BY <1>1 DEF IOTypeOK
<1>6. TasksOK'
  BY <1>1, <1>5 DEF IOTypeOK, TasksOK, loops
<1>7. PendingExact'
  <2>1. \A t \in IOThread : Held(t)' = Held(t)
    BY <1>1, <1>5, Zenon DEF Held
  <2> QED BY <1>1, <2>1, PendingKept, Zenon
<1>8. SureOK'
  BY <1>1, <1>5, Zenon DEF IOTypeOK, SureOK, Removing, pool, owner
<1> QED BY <1>2, <1>3, <1>4, <1>6, <1>7, <1>8, Zenon

LEMMA CountStep == ASSUME IInv, NEW k \in IOTask, CountTask(k) PROVE IInv'
<1> USE DEF IInv
<1>1. /\ taskAt[k] = "picked"
      /\ taskAt' = [taskAt EXCEPT ![k] = "counted"]
      /\ pending' = [pending EXCEPT ![worker[k]] = @ + 1]
      /\ sure' \subseteq sure
      /\ UNCHANGED <<pool, flags, eventLoop, loops, tpc, worker, owner, bad>>
  BY Zenon DEF CountTask
<1>2. worker[k] \in IOThread
  BY <1>1, Zenon DEF TasksOK
<1>3. IOTypeOK'
  BY <1>1, <1>2 DEF IOTypeOK, pool, flags, loops, owner
<1>4. ThreadsOK'
  BY <1>1, Zenon DEF ThreadsOK, pool, flags, owner
<1>5. OwnerOK'
  BY <1>1, OwnerUnchanged, Zenon DEF pool, flags, owner
<1>6. TasksOK'
  BY <1>1 DEF IOTypeOK, TasksOK, loops
<1>7. PendingExact'
  <2> SUFFICES ASSUME NEW t \in IOThread PROVE pending'[t] = Cardinality(Held(t)')
    BY Zenon DEF PendingExact
  <2>1. CASE t = worker[k]
    <3>1. Held(t)' = Held(t) \cup {k} /\ k \notin Held(t)
      BY <1>1, <2>1, Zenon DEF Held, IOTypeOK
    <3>2. pending'[t] = pending[t] + 1
      BY <1>1, <2>1, Zenon DEF IOTypeOK
    <3>3. IsFiniteSet(Held(t))
      BY HeldFinite, Zenon
    <3>4. Cardinality(Held(t) \cup {k}) = Cardinality(Held(t)) + 1
      BY <3>1, <3>3, FS_AddElement, Zenon
    <3> QED BY <3>1, <3>2, <3>4, Zenon DEF PendingExact
  <2>2. CASE t # worker[k]
    <3>1. Held(t)' = Held(t)
      BY <1>1, <2>2, Zenon DEF Held, IOTypeOK
    <3>2. pending'[t] = pending[t]
      BY <1>1, <2>2, Zenon DEF IOTypeOK
    <3> QED BY <3>1, <3>2, Zenon DEF PendingExact
  <2> QED BY <2>1, <2>2, Zenon
<1>8. SureOK'
  BY <1>1, Zenon DEF IOTypeOK, SureOK, Removing, pool, owner
<1> QED BY <1>3, <1>4, <1>5, <1>6, <1>7, <1>8, Zenon

LEMMA QueueStep == ASSUME IInv, NEW k \in IOTask, QueueTask(k) PROVE IInv'
<1> USE DEF IInv
<1>1. /\ taskAt[k] = "counted" /\ sure' = IF opc = "idle" THEN sure ELSE sure \ {k}
      /\ UNCHANGED <<pool, flags, pending, eventLoop, batch, tpc, worker, owner>>
  BY Zenon DEF QueueTask
<1>2. worker[k] \in IOThread
  BY <1>1, Zenon DEF TasksOK
<1>3. CASE eventLoop[worker[k]] # "on"
  <2>1. bad' = "crashed" /\ UNCHANGED <<inbox, taskAt>>
    BY <1>3, Zenon DEF QueueTask
  <2>2. IOTypeOK'
    BY <1>1, <2>1, Zenon DEF IOTypeOK, pool, flags, owner
  <2>3. ThreadsOK'
    BY <1>1, Zenon DEF ThreadsOK, pool, flags, owner
  <2>4. OwnerOK'
    BY <1>1, <2>1, Zenon DEF OwnerOK, Removing, Doomed, pool, flags, owner
  <2>5. TasksOK' /\ PendingExact'
    BY <1>1, <2>1, TasksUnchanged, PendingUnchanged, Zenon
  <2>6. SureOK'
    BY <1>1, <2>1, Zenon DEF SureOK, Removing, pool, owner
  <2> QED BY <2>2, <2>3, <2>4, <2>5, <2>6, Zenon
<1>4. CASE eventLoop[worker[k]] = "on"
  <2>1. /\ inbox' = [inbox EXCEPT ![worker[k]] = @ \cup {k}]
        /\ taskAt' = [taskAt EXCEPT ![k] = "queued"]
        /\ UNCHANGED bad
    BY <1>4, Zenon DEF QueueTask
  <2>2. IOTypeOK'
    BY <1>1, <1>2, <2>1, Zenon DEF IOTypeOK, pool, flags, owner
  <2>3. ThreadsOK'
    BY <1>1, Zenon DEF ThreadsOK, pool, flags, owner
  <2>4. OwnerOK'
    BY <1>1, <2>1, OwnerUnchanged, Zenon DEF pool, flags, owner
  <2>5. TasksOK'
    BY <1>1, <1>2, <2>1 DEF IOTypeOK, TasksOK
  <2>6. PendingExact'
    <3>1. \A t \in IOThread : Held(t)' = Held(t)
      BY <1>1, <2>1, Zenon DEF Held, IOTypeOK
    <3> QED BY <1>1, <3>1, PendingKept, Zenon
  <2>7. SureOK'
    <3>1. opc = "idle" => worker[k] \in ioThreads /\ tpc[worker[k]] \notin {"leave", "null", "exited"}
      BY <1>2, <1>4, Zenon DEF ThreadsOK, OwnerOK, Removing, Doomed
    <3> QED BY <1>1, <2>1, <3>1 DEF IOTypeOK, SureOK, Removing, pool, owner
  <2> QED BY <2>2, <2>3, <2>4, <2>5, <2>6, <2>7, Zenon
<1> QED BY <1>3, <1>4, Zenon

-----------------------------------------------------------------------------
(***************************************************************************)
(* threadRun.                                                              *)
(***************************************************************************)

\* A thread that goes on without a callback.  It leaves its loops only when it
\* has none of the tasks that join owes.
LEMMA MoveStep ==
    ASSUME IInv, NEW t \in IOThread, NEW from, NEW to, Goto(t, from, to),
           UNCHANGED <<pending, taskAt, sure>>, IOTypeOK', ThreadsOK', TasksOK',
           \/ to \notin {"leave", "null", "exited"}
           \/ from \in {"leave", "null", "exited"}
           \/ \A k \in sure : taskAt[k] = "queued" => worker[k] # t
    PROVE  IInv'
<1> USE DEF IInv
<1>1. /\ tpc[t] = from /\ tpc' = [tpc EXCEPT ![t] = to]
      /\ UNCHANGED <<ioThreads, joining, shouldRun, worker, owner, bad>>
  BY Zenon DEF Goto
<1>2. OwnerOK'
  BY <1>1, OwnerUnchanged, Zenon DEF owner
<1>3. PendingExact'
  BY <1>1, PendingUnchanged, Zenon
<1>4. SureOK'
  <2>1. (Removing /\ ~joining => sure = {})'
    BY <1>1, Zenon DEF SureOK, Removing, owner
  <2>2. ASSUME NEW k \in sure', taskAt'[k] = "queued"
        PROVE  worker'[k] \in ioThreads' /\ tpc'[worker'[k]] \notin {"leave", "null", "exited"}
    <3>1. worker[k] \in ioThreads /\ tpc[worker[k]] \notin {"leave", "null", "exited"}
      BY <2>2, Zenon DEF SureOK
    <3>2. CASE worker[k] = t
      BY <1>1, <2>2, <3>1, <3>2, Zenon DEF IOTypeOK
    <3>3. CASE worker[k] # t
      BY <1>1, <3>1, <3>3, Zenon DEF IOTypeOK
    <3> QED BY <3>2, <3>3, Zenon
  <2> QED BY <2>1, <2>2, Zenon DEF SureOK
<1> QED BY <1>2, <1>3, <1>4, Zenon

LEMMA BeginStep == ASSUME IInv, NEW t \in IOThread, Begin(t) PROVE IInv'
<1> USE DEF IInv
<1>1. /\ Goto(t, "created", "check")
      /\ eventLoop' = [eventLoop EXCEPT ![t] = "on"]
      /\ UNCHANGED <<stopped, stopLoop, pending, loops, taskAt, sure>>
  BY Zenon DEF Begin
<1>2. IOTypeOK'
  BY <1>1, Zenon DEF Goto, IOTypeOK, loops, owner
<1>3. ThreadsOK'
  BY <1>1, Zenon DEF Goto, IOTypeOK, ThreadsOK, owner
<1>4. TasksOK'
  BY <1>1, TasksUnchanged, Zenon DEF Goto, loops
<1> QED BY <1>1, <1>2, <1>3, <1>4, MoveStep, Zenon

\* Only a call that removes threads has told a thread of threads_ to end.
LEMMA LateOnlyRemoving ==
    ASSUME IInv, NEW t \in IOThread, ~shouldRun[t], tpc[t] # "exited" PROVE Removing
BY Zenon DEF IInv, ThreadsOK, OwnerOK, Doomed

LEMMA CheckStep == ASSUME IInv, NEW t \in IOThread, CheckShouldRun(t) PROVE IInv'
<1> USE DEF IInv
<1> DEFINE to == IF shouldRun[t] THEN "top" ELSE IF joining THEN "drain" ELSE "leave"
<1>1. /\ Goto(t, "check", to)
      /\ UNCHANGED <<stopped, stopLoop, pending, eventLoop, loops, taskAt, sure>>
  BY Zenon DEF CheckShouldRun
<1>2. to \in {"top", "drain", "leave"} /\ (to # "top" => ~shouldRun[t])
  BY Zenon
<1>3. to = "leave" => sure = {}
  BY <1>1, LateOnlyRemoving, Zenon DEF Goto, SureOK
<1> HIDE DEF to
<1>4. IOTypeOK'
  BY <1>1, <1>2 DEF Goto, IOTypeOK, loops, owner
<1>5. ThreadsOK'
  BY <1>1, <1>2 DEF Goto, IOTypeOK, ThreadsOK, owner
<1>6. TasksOK'
  BY <1>1, TasksUnchanged, Zenon DEF Goto, loops
<1> QED BY <1>1, <1>2, <1>3, <1>4, <1>5, <1>6, MoveStep, Zenon

\* loopBody at its condition, from loop() or from loopOnce().
LEMMA SwapStep ==
    ASSUME IInv, NEW t \in IOThread, NEW from, NEW run, NEW out, Swap(t, from, run, out),
           \/ from = "top" /\ run = "run" /\ out = "check"
           \/ from = "drain" /\ run = "once" /\ out = "drain"
    PROVE  IInv'
<1> USE DEF IInv
<1>1. UNCHANGED <<stopped, pending, eventLoop, taskAt, sure>>
  BY Zenon DEF Swap
<1>2. CASE /\ stopLoop[t] /\ Goto(t, from, out)
           /\ stopLoop' = [stopLoop EXCEPT ![t] = FALSE]
           /\ UNCHANGED loops
  <2>0. stopLoop' \in [IOThread -> BOOLEAN]
    BY <1>2, Zenon DEF IOTypeOK
  <2>1. IOTypeOK'
    BY <1>1, <1>2, <2>0, Zenon DEF Goto, IOTypeOK, loops, owner
  <2>2. ThreadsOK'
    <3>1. UNCHANGED <<ioThreads, stopped, shouldRun, eventLoop, opc>>
      BY <1>1, <1>2, Zenon DEF Goto, owner
    <3>2. \A u \in IOThread \ {t} : tpc'[u] = tpc[u] /\ stopLoop'[u] = stopLoop[u]
      BY <1>2, Zenon DEF Goto, IOTypeOK
    <3>3. tpc[t] = from /\ tpc'[t] = out /\ ~stopLoop'[t]
      BY <1>2, Zenon DEF Goto, IOTypeOK
    <3> QED BY <3>1, <3>2, <3>3, Zenon DEF ThreadsOK
  <2>3. TasksOK'
    BY <1>1, <1>2, TasksUnchanged, Zenon DEF Goto, loops
  <2> QED BY <1>1, <1>2, <2>1, <2>2, <2>3, MoveStep, Zenon
<1>3. CASE /\ ~stopLoop[t] /\ Goto(t, from, run)
           /\ batch' = [batch EXCEPT ![t] = inbox[t]]
           /\ inbox' = [inbox EXCEPT ![t] = {}]
           /\ UNCHANGED stopLoop
  <2>1. IOTypeOK'
    BY <1>1, <1>3 DEF Goto, IOTypeOK, owner
  <2>2. ThreadsOK'
    BY <1>1, <1>3 DEF Goto, IOTypeOK, ThreadsOK, owner
  <2>3. TasksOK'
    <3>1. UNCHANGED <<taskAt, worker>>
      BY <1>1, <1>3, Zenon DEF Goto
    <3>2. inbox'[t] = {} /\ batch'[t] = inbox[t]
      BY <1>3, Zenon DEF IOTypeOK
    <3>3. \A u \in IOThread \ {t} : inbox'[u] = inbox[u] /\ batch'[u] = batch[u]
      BY <1>3, Zenon DEF IOTypeOK
    <3>4. \A u \in IOThread : inbox'[u] \cap batch'[u] = {}
      BY <3>2, <3>3, Zenon DEF TasksOK
    <3>5. \A u \in IOThread : inbox'[u] \cup batch'[u] \subseteq inbox[u] \cup batch[u]
      BY <3>2, <3>3, Zenon
    <3> QED BY <3>1, <3>4, <3>5, Zenon DEF TasksOK
  <2> QED BY <1>1, <1>3, <2>1, <2>2, <2>3, MoveStep, Zenon
<1> QED BY <1>2, <1>3, Zenon DEF Swap

LEMMA RoundStep == ASSUME IInv, NEW t \in IOThread, NextRound(t) PROVE IInv'
<1> USE DEF IInv
<1>1. /\ Goto(t, "run", "top")
      /\ UNCHANGED <<stopped, stopLoop, pending, eventLoop, loops, taskAt, sure>>
  BY Zenon DEF NextRound
<1>2. IOTypeOK'
  BY <1>1, Zenon DEF Goto, IOTypeOK, loops, owner
<1>3. ThreadsOK'
  BY <1>1 DEF Goto, IOTypeOK, ThreadsOK, owner
<1>4. TasksOK'
  BY <1>1, TasksUnchanged, Zenon DEF Goto, loops
<1> QED BY <1>1, <1>2, <1>3, <1>4, MoveStep, Zenon

\* A thread that drains leaves only when pendingTasks is zero, so that it holds
\* no task.
LEMMA DrainStep == ASSUME IInv, NEW t \in IOThread, Drain(t) PROVE IInv'
<1> USE DEF IInv
<1>1. CASE Swap(t, "drain", "once", "drain")
  BY <1>1, SwapStep, Zenon
<1>2. CASE /\ pending[t] = 0 /\ Goto(t, "drain", "leave")
           /\ UNCHANGED <<stopped, stopLoop, pending, eventLoop, loops, taskAt, sure>>
  <2>1. IOTypeOK'
    BY <1>2, Zenon DEF Goto, IOTypeOK, loops, owner
  <2>2. ThreadsOK'
    BY <1>2 DEF Goto, IOTypeOK, ThreadsOK, owner
  <2>3. TasksOK'
    BY <1>2, TasksUnchanged, Zenon DEF Goto, loops
  <2>4. Held(t) = {}
    <3>1. Cardinality(Held(t)) = 0
      BY <1>2, Zenon DEF PendingExact
    <3> QED BY <3>1, HeldFinite, FS_EmptySet, Zenon
  <2>5. \A k \in sure : taskAt[k] = "queued" => worker[k] # t
    BY <2>4, Zenon DEF Held, IOTypeOK
  <2> QED BY <1>2, <2>1, <2>2, <2>3, <2>5, MoveStep, Zenon
<1> QED BY <1>1, <1>2, Zenon DEF Drain

LEMMA EndOnceStep == ASSUME IInv, NEW t \in IOThread, EndOnce(t) PROVE IInv'
<1> USE DEF IInv
<1>1. /\ Goto(t, "once", "drain")
      /\ stopLoop' = [stopLoop EXCEPT ![t] = FALSE]
      /\ UNCHANGED <<stopped, pending, eventLoop, loops, taskAt, sure>>
  BY Zenon DEF EndOnce
<1>2. IOTypeOK'
  BY <1>1, Zenon DEF Goto, IOTypeOK, loops, owner
<1>3. ThreadsOK'
  BY <1>1 DEF Goto, IOTypeOK, ThreadsOK, owner
<1>4. TasksOK'
  BY <1>1, TasksUnchanged, Zenon DEF Goto, loops
<1> QED BY <1>1, <1>2, <1>3, <1>4, MoveStep, Zenon

LEMMA LeaveStep == ASSUME IInv, NEW t \in IOThread, Leave(t) PROVE IInv'
<1> USE DEF IInv
<1>1. /\ Goto(t, "leave", "null")
      /\ stopped' = stopped \cup {t}
      /\ UNCHANGED <<stopLoop, pending, eventLoop, loops, taskAt, sure>>
  BY Zenon DEF Leave
<1>2. IOTypeOK'
  BY <1>1, Zenon DEF Goto, IOTypeOK, loops, owner
<1>3. ThreadsOK'
  BY <1>1 DEF Goto, IOTypeOK, ThreadsOK, owner
<1>4. TasksOK'
  BY <1>1, TasksUnchanged, Zenon DEF Goto, loops
<1> QED BY <1>1, <1>2, <1>3, <1>4, MoveStep, Zenon

LEMMA DropStep == ASSUME IInv, NEW t \in IOThread, DropLoop(t) PROVE IInv'
<1> USE DEF IInv
<1>1. /\ Goto(t, "null", "exited")
      /\ eventLoop' = [eventLoop EXCEPT ![t] = "null"]
      /\ UNCHANGED <<stopped, stopLoop, pending, loops, taskAt, sure>>
  BY Zenon DEF DropLoop
<1>2. IOTypeOK'
  BY <1>1, Zenon DEF Goto, IOTypeOK, loops, owner
<1>3. ThreadsOK'
  BY <1>1, Zenon DEF Goto, IOTypeOK, ThreadsOK, owner
<1>4. TasksOK'
  BY <1>1, TasksUnchanged, Zenon DEF Goto, loops
<1> QED BY <1>1, <1>2, <1>3, <1>4, MoveStep, Zenon

LEMMA RunStep ==
    ASSUME IInv, NEW t \in IOThread, NEW k \in IOTask, RunCallback(t, k) PROVE IInv'
<1> USE DEF IInv
<1>1. /\ tpc[t] \in {"run", "once"} /\ k \in batch[t]
      /\ batch' = [batch EXCEPT ![t] = @ \ {k}]
      /\ UNCHANGED <<pool, flags, eventLoop, tpc, owner, bad>>
  BY Zenon DEF RunCallback
<1>2. PICK more \in {{}} \cup {{j} : j \in {j \in IOTask : taskAt[j] = "new"}} :
          /\ inbox' = [inbox EXCEPT ![t] = @ \cup more]
          /\ pending' = [pending EXCEPT ![t] = @ + Cardinality(more) - 1]
          /\ taskAt' = [j \in IOTask |-> IF j = k THEN "ran"
                                         ELSE IF j \in more THEN "queued" ELSE taskAt[j]]
          /\ worker' = [j \in IOTask |-> IF j \in more THEN t
                                         ELSE IF j = k THEN NoThread ELSE worker[j]]
          /\ sure' = IF k \in sure THEN (sure \ {k}) \cup more ELSE sure
  BY Zenon DEF RunCallback
<1>3. taskAt[k] = "queued" /\ worker[k] = t
  BY <1>1, Zenon DEF TasksOK
<1>4. more \subseteq IOTask /\ (\A j \in more : taskAt[j] = "new") /\ k \notin more
  BY <1>3, Zenon
<1>5. Cardinality(more) \in Nat /\ \A S : IsFiniteSet(S) /\ S \cap more = {} =>
          Cardinality(S \cup more) = Cardinality(S) + Cardinality(more)
  <2>1. CASE more = {}
    <3>1. Cardinality(more) = 0
      BY <2>1, FS_EmptySet, Zenon
    <3> QED BY <2>1, <3>1, FS_CardinalityType
  <2>2. CASE \E j : more = {j}
    <3> PICK j : more = {j}
      BY <2>2, Zenon
    <3>1. Cardinality(more) = 1
      BY FS_Singleton, Zenon
    <3>2. ASSUME NEW S, IsFiniteSet(S), S \cap more = {}
          PROVE  Cardinality(S \cup more) = Cardinality(S) + 1
      BY <3>2, FS_AddElement, Zenon
    <3> QED BY <3>1, <3>2
  <2> QED BY <2>1, <2>2, Zenon
<1>6. IOTypeOK'
  <2>1. inbox' \in [IOThread -> SUBSET IOTask]
    BY <1>2, <1>4, Zenon DEF IOTypeOK
  <2>2. batch' \in [IOThread -> SUBSET IOTask]
    BY <1>1, Zenon DEF IOTypeOK
  <2>3. pending' \in [IOThread -> Int]
    <3>1. pending[t] + Cardinality(more) - 1 \in Int
      BY <1>5 DEF IOTypeOK
    <3> QED BY <1>2, <3>1, Zenon DEF IOTypeOK
  <2>4. taskAt' \in [IOTask -> {"new", "picked", "counted", "queued", "ran", "refused"}]
    BY <1>2, Zenon DEF IOTypeOK
  <2>5. worker' \in [IOTask -> IOThread \cup {NoThread}]
    BY <1>2, Zenon DEF IOTypeOK
  <2>6. sure' \subseteq IOTask
    BY <1>2, <1>4, Zenon DEF IOTypeOK
  <2> QED BY <1>1, <2>1, <2>2, <2>4, <2>5, <2>6, <2>3, Zenon DEF IOTypeOK, pool, flags, owner
<1>7. ThreadsOK'
  BY <1>1, Zenon DEF ThreadsOK, pool, flags, owner
<1>8. OwnerOK'
  BY <1>1, OwnerUnchanged, Zenon DEF pool, flags, owner
<1>9. TasksOK'
  <2>1. \A j \in IOTask : taskAt'[j] \in {"picked", "counted", "queued"} => worker'[j] \in IOThread
    <3> SUFFICES ASSUME NEW j \in IOTask, taskAt'[j] \in {"picked", "counted", "queued"}
                 PROVE  worker'[j] \in IOThread
      BY Zenon
    <3>1. CASE j \in more
      BY <1>2, <3>1, Zenon
    <3>2. CASE j \notin more
      <4>1. taskAt'[j] = taskAt[j] /\ worker'[j] = worker[j]
        BY <1>2, <3>2, Zenon
      <4> QED BY <4>1, Zenon DEF TasksOK
    <3> QED BY <3>1, <3>2, Zenon
  <2>2. \A u \in IOThread : inbox'[u] \cap batch'[u] = {}
    <3>1. inbox'[t] = inbox[t] \cup more /\ batch'[t] = batch[t] \ {k}
      BY <1>1, <1>2, Zenon DEF IOTypeOK
    <3>2. \A u \in IOThread \ {t} : inbox'[u] = inbox[u] /\ batch'[u] = batch[u]
      BY <1>1, <1>2, Zenon DEF IOTypeOK
    <3>3. batch[t] \cap more = {} /\ \A u \in IOThread : inbox[u] \cap batch[u] = {}
      BY <1>4, Zenon DEF TasksOK
    <3> QED BY <3>1, <3>2, <3>3, Zenon
  <2>3. ASSUME NEW u \in IOThread, NEW j \in inbox'[u] \cup batch'[u]
        PROVE  taskAt'[j] = "queued" /\ worker'[j] = u
    <3>1. j \in IOTask
      BY <1>6, Zenon DEF IOTypeOK
    <3>2. CASE u = t
      <4>1. inbox'[t] = inbox[t] \cup more /\ batch'[t] = batch[t] \ {k}
        BY <1>1, <1>2, Zenon DEF IOTypeOK
      <4>2. j # k
        BY <1>1, <1>4, <2>3, <3>2, <4>1 DEF TasksOK
      <4> QED BY <1>2, <2>3, <3>1, <3>2, <4>1, <4>2, Zenon DEF TasksOK
    <3>3. CASE u # t
      <4>1. inbox'[u] = inbox[u] /\ batch'[u] = batch[u]
        BY <1>1, <1>2, <3>3, Zenon DEF IOTypeOK
      <4>2. taskAt[j] = "queued" /\ worker[j] = u
        BY <2>3, <4>1, Zenon DEF TasksOK
      <4> QED BY <1>2, <1>3, <1>4, <3>1, <3>3, <4>2, Zenon
    <3> QED BY <3>2, <3>3, Zenon
  <2> QED BY <2>1, <2>2, <2>3, Zenon DEF TasksOK
<1>10. PendingExact'
  <2> SUFFICES ASSUME NEW u \in IOThread PROVE pending'[u] = Cardinality(Held(u)')
    BY Zenon DEF PendingExact
  <2>1. CASE u = t
    <3>1. Held(t)' = (Held(t) \ {k}) \cup more /\ k \in Held(t) /\ (Held(t) \ {k}) \cap more = {}
      BY <1>2, <1>3, <1>4, Zenon DEF Held
    <3>2. IsFiniteSet(Held(t)) /\ Cardinality(Held(t)) \in Nat
      BY HeldFinite, FS_CardinalityType, Zenon
    <3>3. IsFiniteSet(Held(t) \ {k}) /\ Cardinality(Held(t) \ {k}) = Cardinality(Held(t)) - 1
      BY <3>1, <3>2, FS_RemoveElement, Zenon
    <3>4. Cardinality(Held(t)') = Cardinality(Held(t)) - 1 + Cardinality(more)
      BY <1>5, <3>1, <3>3, Zenon
    <3>5. pending'[t] = pending[t] + Cardinality(more) - 1
      BY <1>2, Zenon DEF IOTypeOK
    <3>6. pending[t] = Cardinality(Held(t))
      BY Zenon DEF PendingExact
    <3>7. \A a, b \in Nat : a + b - 1 = a - 1 + b
      OBVIOUS
    <3>8. pending'[t] = Cardinality(Held(t)) - 1 + Cardinality(more)
      BY <1>5, <3>2, <3>5, <3>6, <3>7, Zenon
    <3> QED BY <2>1, <3>4, <3>8, Zenon
  <2>2. CASE u # t
    <3>1. Held(u)' = Held(u)
      BY <1>2, <1>3, <1>4, <2>2, Zenon DEF Held
    <3>2. pending'[u] = pending[u]
      BY <1>2, <2>2, Zenon DEF IOTypeOK
    <3> QED BY <3>1, <3>2, Zenon DEF PendingExact
  <2> QED BY <2>1, <2>2, Zenon
<1>11. SureOK'
  <2>1. t \in ioThreads
    BY <1>1, Zenon DEF ThreadsOK
  <2>2. (Removing /\ ~joining => sure = {})' 
    BY <1>1, <1>2, Zenon DEF SureOK, Removing, pool, owner
  <2>3. ASSUME NEW j \in sure', taskAt'[j] = "queued"
        PROVE  worker'[j] \in ioThreads' /\ tpc'[worker'[j]] \notin {"leave", "null", "exited"}
    <3>1. j \in IOTask /\ j # k
      BY <1>2, <1>6, <2>3, Zenon DEF IOTypeOK
    <3>2. CASE j \in more
      BY <1>1, <1>2, <2>1, <3>1, <3>2, Zenon DEF pool
    <3>3. CASE j \notin more
      <4>1. j \in sure /\ taskAt[j] = "queued" /\ worker'[j] = worker[j]
        BY <1>2, <2>3, <3>1, <3>3, Zenon
      <4> QED BY <1>1, <4>1, Zenon DEF SureOK, pool
    <3> QED BY <3>2, <3>3, Zenon
  <2> QED BY <2>2, <2>3, Zenon DEF SureOK
<1> QED BY <1>6, <1>7, <1>8, <1>9, <1>10, <1>11, Zenon

-----------------------------------------------------------------------------
LEMMA InitIInv == Init => IInv
<1> SUFFICES ASSUME Init PROVE IInv
  BY Zenon
<1> USE DEF Init
<1>1. IOTypeOK
  <2>1. /\ joining \in BOOLEAN
        /\ shouldRun \in [IOThread -> BOOLEAN] /\ stopLoop \in [IOThread -> BOOLEAN]
    BY Zenon
  <2>2. /\ inbox \in [IOThread -> SUBSET IOTask] /\ batch \in [IOThread -> SUBSET IOTask]
        /\ pending \in [IOThread -> Int]
    OBVIOUS
  <2>3. worker \in [IOTask -> IOThread \cup {NoThread}]
    BY Zenon
  <2> QED BY <2>1, <2>2, <2>3, Zenon DEF IOTypeOK
<1>2. ThreadsOK
  BY Zenon DEF ThreadsOK
<1>3. OwnerOK
  BY Zenon DEF OwnerOK, Removing, Doomed
<1>4. TasksOK
  BY Zenon DEF TasksOK
<1>5. PendingExact
  <2>1. \A t \in IOThread : Held(t) = {}
    BY Zenon DEF Held
  <2> QED BY <2>1, FS_EmptySet, Zenon DEF PendingExact
<1>6. SureOK
  BY Zenon DEF SureOK, Removing
<1> QED BY <1>1, <1>2, <1>3, <1>4, <1>5, <1>6, Zenon DEF IInv

LEMMA StepIInv == IInv /\ [Next]_ioVars => IInv'
<1> SUFFICES ASSUME IInv, [Next]_ioVars PROVE IInv'
  BY Zenon
<1>1. CASE AddIOThreads
  BY <1>1, AddThreadsStep, Zenon
<1>2. CASE IOCall
  BY <1>2, CallStep, Zenon
<1>3. CASE OwnerStep
  BY <1>3, StartedStep, EndRemoveStep, FlagStep, StopStep, CollectStep, Zenon DEF OwnerStep
<1>4. ASSUME NEW t \in IOThread, ThreadStep(t) PROVE IInv'
  <2>1. CASE LoopTop(t)
    BY <2>1, SwapStep, Zenon DEF LoopTop
  <2> QED BY <1>4, <2>1, BeginStep, CheckStep, RoundStep, DrainStep, EndOnceStep, LeaveStep,
             DropStep, RunStep, Zenon DEF ThreadStep
<1>5. ASSUME NEW k \in IOTask, PickThread(k) \/ AddStep(k) PROVE IInv'
  BY <1>5, PickStep, CountStep, QueueStep, Zenon DEF AddStep
<1>6. CASE UNCHANGED ioVars
  <2> USE <1>6 DEF IInv, ioVars, pool, flags, loops, tasks, owner
  <2>1. IOTypeOK'
    BY Zenon DEF IOTypeOK
  <2>2. ThreadsOK'
    BY Zenon DEF ThreadsOK
  <2>3. OwnerOK'
    BY OwnerUnchanged, Zenon
  <2>4. TasksOK' /\ PendingExact'
    BY TasksUnchanged, PendingUnchanged, Zenon
  <2>5. SureOK'
    BY Zenon DEF SureOK, Removing
  <2> QED BY <2>1, <2>2, <2>3, <2>4, <2>5, Zenon
<1> QED BY <1>1, <1>2, <1>3, <1>4, <1>5, <1>6, Zenon DEF Next

LEMMA Invariance == Spec => []IInv
BY InitIInv, StepIInv, PTL DEF Spec

\* The variables of IOThreadPool keep their types.
THEOREM TypeCorrect == Spec => []IOTypeOK
<1>1. IInv => IOTypeOK
  BY Zenon DEF IInv
<1> QED BY <1>1, Invariance, PTL

\* Between calls of setNumThreads, stop and join the pool is settled, however many
\* threads there are and whatever was added meanwhile; no RDDCHECK fails.
THEOREM CallsSettle == Spec => []IOSettled
<1>1. IInv => IOSettled
  <2> SUFFICES ASSUME IInv PROVE IOSettled
    BY Zenon
  <2> USE DEF IInv
  <2>1. bad # "failed"
    BY Zenon DEF OwnerOK
  <2>2. ASSUME opc = "idle"
        PROVE  /\ known = ioThreads /\ stopped = {}
               /\ \A t \in ioThreads : shouldRun[t] /\ eventLoop[t] = "on" /\ ~stopLoop[t]
               /\ \A t \in IOThread \ ioThreads : tpc[t] \in {"unborn", "exited"}
    <3>1. known = ioThreads /\ \A t \in ioThreads : shouldRun[t]
      BY <2>2, Zenon DEF OwnerOK, Removing, Doomed
    <3>2. \A t \in ioThreads : t \in IOThread
      BY Zenon DEF IOTypeOK
    <3>3. \A t \in ioThreads : eventLoop[t] = "on" /\ ~stopLoop[t]
      BY <2>2, <3>1, <3>2, Zenon DEF ThreadsOK, IOTypeOK
    <3>4. stopped = {}
      BY <3>1, <3>2, Zenon DEF ThreadsOK, IOTypeOK
    <3> QED BY <3>1, <3>3, <3>4, Zenon DEF ThreadsOK
  <2> QED BY <2>1, <2>2, Zenon DEF IOSettled
<1> QED BY <1>1, Invariance, PTL

\* pendingTasks is exact at every moment, although add counts a task before it
\* queues it and the callback counts it down after it ran.
THEOREM PendingStaysExact == Spec => []PendingExact
<1>1. IInv => PendingExact
  BY Zenon DEF IInv
<1> QED BY <1>1, Invariance, PTL

\* join leaves no task that was added before it, for any number of threads, tasks
\* and earlier calls.
THEOREM JoinLeavesNothing == Spec => []IOJoinDrains
<1>1. IInv => IOJoinDrains
  BY Zenon DEF IInv, OwnerOK, SureOK, IOJoinDrains
<1> QED BY <1>1, Invariance, PTL
=============================================================================
