---------------------------- MODULE ActorProofs ----------------------------
(***************************************************************************)
(* Proofs about Actor: when handlers connect before they yield and use no  *)
(* client in callback mode, the protocol keeps fibers and events to one    *)
(* thread at a time, for any number of requests, clients, CPU threads and  *)
(* loops.                                                                  *)
(***************************************************************************)
EXTENDS Actor, FiniteSetTheorems, TLAPS

-----------------------------------------------------------------------------
(***************************************************************************)
(* Sequences and sets.                                                     *)
(***************************************************************************)

\* A queue with one more member.
LEMMA Appended ==
    ASSUME NEW S, NEW s \in Seq(S), NEW x \in S, NEW r, r = Append(s, x)
    PROVE  /\ r \in Seq(S) /\ Len(r) = Len(s) + 1
           /\ \A i \in 1..Len(r) : \/ i \in 1..Len(s) /\ r[i] = s[i]
                                   \/ i = Len(s) + 1 /\ r[i] = x
           /\ \A i \in 1..Len(s) : i \in 1..Len(r) /\ r[i] = s[i]
           /\ Len(s) + 1 \in 1..Len(r) /\ r[Len(s) + 1] = x
           /\ Len(s) + 1 \notin 1..Len(s)
OBVIOUS

\* A queue without its first member.
LEMMA Removed ==
    ASSUME NEW S, NEW s \in Seq(S), s # <<>>, NEW r, r = Tail(s)
    PROVE  /\ r \in Seq(S) /\ Len(r) = Len(s) - 1
           /\ Head(s) = s[1] /\ Head(s) \in S /\ 1 \in 1..Len(s)
           /\ \A i \in 1..Len(r) : i + 1 \in 1..Len(s) /\ i + 1 # 1 /\ r[i] = s[i + 1]
           /\ \A i, j \in 1..Len(r) : i + 1 = j + 1 => i = j
OBVIOUS

\* A sequence that is not empty.
LEMMA NonEmpty ==
    ASSUME NEW S, NEW s \in Seq(S), s # <<>>
    PROVE  /\ Len(s) \in Nat \ {0} /\ Len(s) \in 1..Len(s)
           /\ \A i \in 1..Len(s) : s[i] \in S
<1>1. Len(s) \in Nat \ {0}
  OBVIOUS
<1>2. \A i \in 1..Len(s) : s[i] \in S
  OBVIOUS
<1> QED BY <1>1, <1>2

\* A sequence without its last member.
LEMMA Shorter ==
    ASSUME NEW S, NEW s \in Seq(S), s # <<>>
    PROVE  /\ Len(s) \in Nat \ {0}
           /\ SubSeq(s, 1, Len(s) - 1) \in Seq(S)
           /\ Len(SubSeq(s, 1, Len(s) - 1)) = Len(s) - 1
           /\ \A i \in 1..(Len(s) - 1) : SubSeq(s, 1, Len(s) - 1)[i] = s[i]
<1> DEFINE t == SubSeq(s, 1, Len(s) - 1)
<1>1. Len(s) \in Nat \ {0} /\ Len(s) - 1 \in Nat
  OBVIOUS
<1>2. t \in Seq(S)
  OBVIOUS
<1>3. Len(t) \in Nat /\ DOMAIN t = 1..Len(t)
  BY <1>2
<1>4. DOMAIN t = 1..(Len(s) - 1)
  BY <1>1
<1>5. Len(t) = Len(s) - 1
  <2> HIDE DEF t
  <2> QED BY <1>1, <1>3, <1>4
<1>6. \A i \in 1..(Len(s) - 1) : t[i] = s[i]
  BY <1>1
<1> QED BY <1>1, <1>2, <1>5, <1>6, Zenon

\* A set of events has a cardinality; without one of its members it is one less.
LEMMA EventSets ==
    ASSUME NEW es \in SUBSET Event
    PROVE  /\ Cardinality(es) \in Nat
           /\ Cardinality(es) = 0 <=> es = {}
           /\ \A e \in es : Cardinality(es \ {e}) = Cardinality(es) - 1
           /\ Cardinality(es) = 1 => \A d, e \in es : d = e
<1>1. IsFiniteSet(es)
  BY ActorAssumption, FS_Subset, Zenon
<1>2. Cardinality(es) \in Nat
  BY <1>1, FS_CardinalityType, Zenon
<1>3. Cardinality(es) = 0 <=> es = {}
  BY <1>1, FS_EmptySet, Zenon
<1>4. \A e \in es : Cardinality(es \ {e}) = Cardinality(es) - 1
  BY <1>1, FS_RemoveElement, Zenon
<1>5. ASSUME Cardinality(es) = 1, NEW d \in es, NEW e \in es PROVE d = e
  <2>1. Cardinality(es \ {e}) = 0
    BY <1>4, <1>5
  <2>2. IsFiniteSet(es \ {e})
    BY <1>1, FS_Subset, Zenon
  <2>3. es \ {e} = {}
    BY <2>1, <2>2, FS_EmptySet, Zenon
  <2> QED BY <2>3, Zenon
<1> QED BY <1>2, <1>3, <1>4, <1>5, Zenon

-----------------------------------------------------------------------------
(***************************************************************************)
(* The inductive invariant of Actor.                                       *)
(***************************************************************************)

\* The worker is inside Executor::callback.
Handing(t) == wpc[t] \in {"advance", "callback"}

\* The k-th callback is still to be called by t, and will add e.
Ahead(t, k, e) ==
    /\ Handing(t) /\ k \in 1..Len(callbacks[running[t]]) /\ callbacks[running[t]][k] = e
    /\ next[t] < k \/ (next[t] = k /\ wpc[t] = "callback")

\* The events for which a blocked fiber waits.
Waited ==
    {e \in Event : /\ executor[e] \in Fiber /\ e \in clients[executor[e]]
                   /\ status[executor[e]] = "BLOCK" /\ Unfinished(e)}

TypeOK ==
    /\ status \in [Fiber -> {"new", "INIT", "RUNNING", "BLOCK", "EXIT", "deleted"}]
    /\ kind = [f \in Fiber |-> "request"]
    /\ clients \in [Fiber -> SUBSET Event] /\ closed \in [Fiber -> BOOLEAN]
    /\ callbacks \in [Fiber -> Seq(Event)] /\ answers \in [Fiber -> Nat]
    /\ runQueue \in Seq(Fiber)
    /\ running \in [Worker -> Fiber \cup {None}]
    /\ wpc \in [Worker -> {"idle", "fiber", "advance", "callback", "schedule"}]
    /\ next \in [Worker -> Nat]
    /\ etype \in [Event -> {"new", "CONNECT", "TOWRITE", "READED", "FAIL"}]
    /\ executor \in [Event -> Fiber \cup {None}] /\ group \in [Event -> Nat]
    /\ added \in [Loop -> Seq(Event)] /\ polled \subseteq Loop \X Event
    /\ eventPool \subseteq Event

\* A fiber's clients are the events its callbacks will add; it connects before it
\* blocks, blocks once, and has closed them before it exits.
FiberOK(f) ==
    /\ \A e \in clients[f] : executor[e] = f /\ etype[e] # "new"
    /\ \A i, j \in 1..Len(callbacks[f]) : callbacks[f][i] = callbacks[f][j] => i = j
    /\ closed[f] => clients[f] = {}
    /\ ~closed[f] => \A e \in Event :
          e \in clients[f] <=> \E i \in 1..Len(callbacks[f]) : callbacks[f][i] = e
    /\ status[f] \in {"new", "INIT"} => ~closed[f] /\ callbacks[f] = <<>>
    /\ status[f] = "RUNNING" => \/ \A e \in clients[f] : Unfinished(e)
                                \/ \A e \in clients[f] : ~Unfinished(e)
    /\ status[f] = "BLOCK" => clients[f] # {}
    /\ status[f] \in {"EXIT", "deleted"} => clients[f] = {}
    /\ answers[f] = IF status[f] = "deleted" THEN 1 ELSE 0

FiberInv == \A f \in Fiber : FiberOK(f)

\* Where the workers are, and that a fiber for which callback() is still running
\* can no longer connect.
WorkerInv ==
    /\ \A t \in Worker :
         /\ wpc[t] # "idle" => running[t] \in Fiber
         /\ wpc[t] = "fiber" => status[running[t]] = "RUNNING"
         /\ wpc[t] = "schedule" => status[running[t]] = "EXIT"
         /\ wpc[t] = "callback" => next[t] > 0
         /\ Handing(t) =>
              /\ next[t] <= Len(callbacks[running[t]])
              /\ status[running[t]] \notin {"new", "INIT"}
              /\ status[running[t]] = "RUNNING" =>
                   \/ closed[running[t]]
                   \/ \E e \in clients[running[t]] : ~Unfinished(e)
    /\ \A t, u \in Worker :
         /\ wpc[t] \in {"fiber", "schedule"} /\ wpc[u] \in {"fiber", "schedule"}
              /\ running[t] = running[u] => t = u
         /\ Handing(t) /\ Handing(u) /\ running[t] = running[u] => t = u

QueueInv ==
    /\ \A i, j \in 1..Len(runQueue) : runQueue[i] = runQueue[j] => i = j
    /\ \A i \in 1..Len(runQueue) :
         /\ status[runQueue[i]] \in {"INIT", "BLOCK"}
         /\ \A e \in clients[runQueue[i]] : ~Unfinished(e)

\* An event is in one place at most, to be added by a worker, added to a loop or
\* polled there, and only while a fiber is blocked for it.
AheadInv ==
    \A t \in Worker, k \in Nat, e \in Event : Ahead(t, k, e) =>
        /\ e \in Waited /\ executor[e] = running[t]
        /\ \A l \in Loop : /\ <<l, e>> \notin polled
                           /\ \A i \in 1..Len(added[l]) : added[l][i] # e

AddedInv ==
    \A l \in Loop : \A i \in 1..Len(added[l]) :
        /\ added[l][i] \in Waited
        /\ \A m \in Loop : <<m, added[l][i]>> \notin polled
        /\ \A m \in Loop : \A j \in 1..Len(added[m]) :
             added[l][i] = added[m][j] => l = m /\ i = j

PolledInv ==
    \A l \in Loop, e \in Event : <<l, e>> \in polled =>
        e \in Waited /\ \A m \in Loop : <<m, e>> \in polled => l = m

PlaceInv == AheadInv /\ AddedInv /\ PolledInv

\* The events of a group are the unfinished clients of one blocked fiber; a fiber
\* that blocks without a group has one client.
GroupInv ==
    /\ G!GroupTypeOK /\ GroupCountExact
    /\ \A e \in Event : group[e] # 0 => group[e] <= capacity /\ e \in Waited
    /\ \A d, e \in Event : group[d] # 0 /\ group[d] = group[e] => executor[d] = executor[e]
    /\ \A f \in Fiber : status[f] = "BLOCK" =>
         \A d, e \in clients[f] : Unfinished(d) /\ Unfinished(e) =>
              group[d] = group[e] /\ (group[d] = 0 => d = e)

PoolInv == \A e \in eventPool : etype[e] # "new" /\ \A f \in Fiber : e \notin clients[f]

IInv ==
    /\ fault = "none" /\ TypeOK
    /\ FiberInv /\ WorkerInv /\ QueueInv /\ PlaceInv /\ GroupInv /\ PoolInv

\* No handler connects again after it closed a client, and none uses a client in
\* callback mode: the runs show that either breaks what is proved here.
Disciplined == ~CallbackMode /\ ~Again

-----------------------------------------------------------------------------
(***************************************************************************)
(* What a step may change without disturbing a part of the invariant.      *)
(***************************************************************************)

\* An event that is waited for goes on being waited for, by the same fiber.
StillWaited == \A e \in Waited : e \in Waited' /\ executor'[e] = executor[e]

\* Blocked and new fibers are left alone.
Calm ==
    \A f \in Fiber : status[f] \in {"INIT", "BLOCK"} =>
        /\ status'[f] = status[f] /\ clients'[f] = clients[f]
        /\ \A e \in clients[f] : Unfinished(e)' => Unfinished(e)

LEMMA QueueTypes ==
    ASSUME TypeOK
    PROVE  runQueue \in Seq(Fiber) /\ \A i \in 1..Len(runQueue) : runQueue[i] \in Fiber
  BY DEF TypeOK

LEMMA QueueSame ==
    ASSUME TypeOK, QueueInv, Calm, runQueue' = runQueue
    PROVE  QueueInv'
  BY QueueTypes, Zenon DEF QueueInv, Calm

\* No callback is left that was not left before.
LEMMA PlaceSame ==
    ASSUME PlaceInv, StillWaited, added' = added, polled' = polled,
           \A t \in Worker, k \in Nat, e \in Event :
               Ahead(t, k, e)' => Ahead(t, k, e) /\ running'[t] = running[t]
    PROVE  PlaceInv'
<1>1. AheadInv'
  BY DEF PlaceInv, AheadInv, StillWaited
<1>2. AddedInv'
  BY DEF PlaceInv, AddedInv, StillWaited
<1>3. PolledInv'
  BY Zenon DEF PlaceInv, PolledInv, StillWaited
<1> QED BY <1>1, <1>2, <1>3, Zenon DEF PlaceInv

\* A fiber that the step does not concern.
LEMMA FiberSame ==
    ASSUME NEW f \in Fiber, FiberOK(f), status'[f] = status[f], clients'[f] = clients[f],
           closed'[f] = closed[f], callbacks'[f] = callbacks[f], answers'[f] = answers[f],
           \A e \in clients[f] : executor'[e] = executor[e] /\ etype'[e] = etype[e]
    PROVE  FiberOK(f)'
<1>1. \A e \in clients[f] : Unfinished(e)' <=> Unfinished(e)
  BY Zenon DEF Unfinished
<1> QED BY <1>1 DEF FiberOK

\* The step concerns no fiber.
LEMMA FibersSame ==
    ASSUME FiberInv, QueueInv, PoolInv,
           UNCHANGED <<status, clients, closed, callbacks, answers, runQueue, etype, executor>>,
           eventPool' \subseteq eventPool
    PROVE  FiberInv' /\ QueueInv' /\ PoolInv' /\ StillWaited
<1>1. FiberInv'
  BY FiberSame, Zenon DEF FiberInv
<1>2. \A e : Unfinished(e)' <=> Unfinished(e)
  BY Zenon DEF Unfinished
<1>3. QueueInv'
  BY <1>2, Zenon DEF QueueInv
<1>4. PoolInv' /\ StillWaited
  BY <1>2, Zenon DEF PoolInv, StillWaited, Waited
<1> QED BY <1>1, <1>3, <1>4, Zenon

\* The step concerns no worker.
LEMMA WorkersSame ==
    ASSUME WorkerInv, UNCHANGED <<status, clients, closed, callbacks, running, wpc, next, etype>>
    PROVE  WorkerInv'
  BY DEF WorkerInv, Handing, Unfinished

\* The step concerns no group.
LEMMA CountsSame ==
    ASSUME GroupInv, UNCHANGED <<group, groups>>
    PROVE  G!GroupTypeOK' /\ GroupCountExact'
<1>1. /\ group' = group /\ capacity' = capacity /\ groupKeys' = groupKeys
      /\ groupCounts' = groupCounts
  BY Zenon DEF groups
<1>2. G!GroupTypeOK'
  BY <1>1, Zenon DEF GroupInv, G!GroupTypeOK
<1>3. GroupCountExact'
  BY <1>1 DEF GroupInv, GroupCountExact, G!KeysExact
<1> QED BY <1>2, <1>3, Zenon

LEMMA GroupSame ==
    ASSUME TypeOK, GroupInv, StillWaited, UNCHANGED <<group, groups>>,
           \A f \in Fiber : status'[f] = "BLOCK" =>
               /\ status[f] = "BLOCK" /\ clients'[f] = clients[f]
               /\ \A e \in clients[f] : Unfinished(e)' => Unfinished(e)
    PROVE  GroupInv'
<1>1. G!GroupTypeOK' /\ GroupCountExact'
  BY CountsSame, Zenon
<1>2. \A e \in Event : group'[e] # 0 => group'[e] <= capacity' /\ e \in Waited'
  BY Zenon DEF GroupInv, groups, StillWaited
<1>3. \A d, e \in Event : group'[d] # 0 /\ group'[d] = group'[e] => executor'[d] = executor'[e]
  BY Zenon DEF GroupInv, StillWaited
<1>4. \A f \in Fiber : status'[f] = "BLOCK" =>
         \A d, e \in clients'[f] : Unfinished(d)' /\ Unfinished(e)' =>
              group'[d] = group'[e] /\ (group'[d] = 0 => d = e)
  <2>1. group' = group
    BY Zenon
  <2> QED BY <2>1 DEF GroupInv
<1> QED BY <1>1, <1>2, <1>3, <1>4, Zenon DEF GroupInv
-----------------------------------------------------------------------------
(***************************************************************************)
(* The steps that leave the Group alone.                                   *)
(***************************************************************************)

LEMMA RequestKeeps ==
    ASSUME IInv, NEW f \in Fiber, Request(f)
    PROVE  IInv'
<1> USE DEF IInv
<1>1. /\ status[f] = "new" /\ status' = [status EXCEPT ![f] = "INIT"]
      /\ runQueue' = Append(runQueue, f) /\ kind' = [kind EXCEPT ![f] = "request"]
      /\ UNCHANGED <<clients, closed, callbacks, answers, running, wpc, next, etype,
                     executor, group, added, polled, eventPool, capacity, groupKeys,
                     groupCounts, fault>>
  BY Zenon DEF Request, NewFiber, threads, events, loops, groups
<1>2. \A g \in Fiber : status'[g] = IF g = f THEN "INIT" ELSE status[g]
  BY <1>1, Zenon DEF TypeOK
<1>3. TypeOK'
  BY <1>1 DEF TypeOK
<1>4. ~closed[f] /\ clients[f] = {} /\ callbacks[f] = <<>>
  BY <1>1 DEF FiberInv, FiberOK, TypeOK
<1>5. FiberInv'
  BY <1>1, <1>2, <1>4 DEF FiberInv, FiberOK, Unfinished
<1>6. WorkerInv'
  BY <1>1, <1>2 DEF WorkerInv, Handing, Unfinished
<1>7. QueueInv'
  <2>1. \A i \in 1..Len(runQueue) : runQueue[i] # f /\ runQueue[i] \in Fiber
    BY <1>1, QueueTypes, Zenon DEF QueueInv
  <2>2. \A i \in 1..Len(runQueue') : \/ i \in 1..Len(runQueue) /\ runQueue'[i] = runQueue[i]
                                     \/ i = Len(runQueue) + 1 /\ runQueue'[i] = f
    BY ONLY <1>1, TypeOK, QueueTypes, Appended
  <2> QED BY <1>1, <1>2, <1>4, <2>1, <2>2 DEF QueueInv, Unfinished
<1>8. StillWaited
  BY <1>1, <1>2, Zenon DEF StillWaited, Waited, Unfinished
<1>9. PlaceInv'
  BY <1>1, <1>8, PlaceSame, Zenon DEF Ahead, Handing
<1>10. GroupInv'
  BY <1>1, <1>2, <1>8, GroupSame DEF groups, Unfinished
<1>11. PoolInv' /\ fault' = "none"
  BY <1>1, Zenon DEF PoolInv
<1> QED BY <1>3, <1>5, <1>6, <1>7, <1>9, <1>10, <1>11, Zenon

LEMMA RunKeeps ==
    ASSUME IInv, NEW t \in Worker, Run(t)
    PROVE  IInv'
<1> USE DEF IInv
<1>0. runQueue # <<>> /\ runQueue \in Seq(Fiber) /\ Tail(runQueue) = runQueue'
  BY QueueTypes, Zenon DEF Run
<1>1. PICK f \in Fiber : f = Head(runQueue)
  BY <1>0
<1>2. /\ wpc[t] = "idle" /\ status' = [status EXCEPT ![f] = "RUNNING"]
      /\ running' = [running EXCEPT ![t] = f] /\ wpc' = [wpc EXCEPT ![t] = "fiber"]
      /\ UNCHANGED <<kind, clients, closed, callbacks, answers, next, etype,
                     executor, group, added, polled, eventPool, capacity, groupKeys,
                     groupCounts>>
  BY <1>1, Zenon DEF Run, events, loops, groups
<1>3. /\ f = runQueue[1] /\ 1 \in 1..Len(runQueue)
      /\ runQueue' \in Seq(Fiber)
      /\ \A i \in 1..Len(runQueue') :
           i + 1 \in 1..Len(runQueue) /\ i + 1 # 1 /\ runQueue'[i] = runQueue[i + 1]
      /\ \A i, j \in 1..Len(runQueue') : i + 1 = j + 1 => i = j
  BY <1>0, <1>1, Removed
<1>4. status[f] \in {"INIT", "BLOCK"} /\ \A e \in clients[f] : ~Unfinished(e)
  BY <1>3, Zenon DEF QueueInv
<1>5. /\ \A g \in Fiber : status'[g] = IF g = f THEN "RUNNING" ELSE status[g]
      /\ \A u \in Worker : wpc'[u] = IF u = t THEN "fiber" ELSE wpc[u]
      /\ \A u \in Worker : running'[u] = IF u = t THEN f ELSE running[u]
  BY <1>2, Zenon DEF TypeOK
<1>6. TypeOK' /\ fault' = "none"
  <2>1. TypeOK'
    BY <1>2, <1>3, <1>4, Zenon DEF TypeOK
  <2>2. status[f] # "deleted" /\ kind[f] # "stray"
    BY <1>4, Zenon DEF TypeOK
  <2> QED BY <1>1, <2>1, <2>2, Zenon DEF Run
<1>7. FiberInv'
  <2>1. ASSUME NEW g \in Fiber, g # f PROVE FiberOK(g)'
    BY <1>2, <1>5, <2>1, FiberSame, Zenon DEF FiberInv
  <2>2. FiberOK(f)'
    BY <1>2, <1>4, <1>5 DEF FiberInv, FiberOK, Unfinished
  <2> QED BY <2>1, <2>2, Zenon DEF FiberInv
<1>8. WorkerInv'
  BY <1>2, <1>4, <1>5 DEF WorkerInv, Handing, Unfinished, FiberInv, FiberOK
<1>9. QueueInv'
  <2>1. \A i \in 1..Len(runQueue') : runQueue'[i] # f /\ runQueue'[i] \in Fiber
    BY <1>3, QueueTypes, Zenon DEF QueueInv
  <2> QED BY <1>2, <1>3, <1>5, <2>1 DEF QueueInv, Unfinished
<1>10. StillWaited
  BY <1>2, <1>4, <1>5, Zenon DEF StillWaited, Waited, Unfinished
<1>11. PlaceInv'
  <2>1. ASSUME NEW u \in Worker, NEW k \in Nat, NEW e \in Event, Ahead(u, k, e)'
        PROVE  Ahead(u, k, e) /\ running'[u] = running[u]
    <3>1. u # t
      BY ONLY <1>5, <2>1, t \in Worker, Zenon DEF Ahead, Handing
    <3>2. /\ wpc'[u] = wpc[u] /\ running'[u] = running[u] /\ callbacks' = callbacks
          /\ next' = next
      BY ONLY <1>2, <1>5, <3>1, Zenon
    <3> QED BY ONLY <2>1, <3>2, Zenon DEF Ahead, Handing
  <2> QED BY <1>2, <1>10, <2>1, PlaceSame, Zenon
<1>12. GroupInv'
  BY <1>2, <1>5, <1>10, GroupSame DEF groups, Unfinished
<1>13. PoolInv'
  BY <1>2, Zenon DEF PoolInv
<1> QED BY <1>6, <1>7, <1>8, <1>9, <1>11, <1>12, <1>13, Zenon

LEMMA AdvanceKeeps ==
    ASSUME IInv, NEW t \in Worker, Advance(t)
    PROVE  IInv'
<1> USE DEF IInv
<1>1. /\ wpc[t] = "advance" /\ next' = [next EXCEPT ![t] = @ + 1]
      /\ IF next'[t] <= Len(callbacks[running[t]])
           THEN wpc' = [wpc EXCEPT ![t] = "callback"] /\ running' = running
           ELSE wpc' = [wpc EXCEPT ![t] = "idle"] /\ running' = [running EXCEPT ![t] = None]
      /\ UNCHANGED <<status, kind, clients, closed, callbacks, answers, runQueue, etype,
                     executor, group, added, polled, eventPool, capacity, groupKeys,
                     groupCounts, fault>>
  BY Zenon DEF Advance, Release, fibers, events, loops, groups
<1>2. TypeOK'
  <2>1. /\ next' \in [Worker -> Nat] /\ running' \in [Worker -> Fiber \cup {None}]
        /\ wpc' \in [Worker -> {"idle", "fiber", "advance", "callback", "schedule"}]
    <3>1. /\ wpc \in [Worker -> {"idle", "fiber", "advance", "callback", "schedule"}]
          /\ next \in [Worker -> Nat] /\ running \in [Worker -> Fiber \cup {None}]
      BY Zenon DEF TypeOK
    <3> QED BY ONLY <1>1, <3>1, t \in Worker
  <2> QED BY <1>1, <2>1, Zenon DEF TypeOK
<1>3. /\ \A u \in Worker : u # t => /\ wpc'[u] = wpc[u] /\ next'[u] = next[u]
                                    /\ running'[u] = running[u]
      /\ next'[t] = next[t] + 1 /\ next[t] \in Nat
      /\ \/ /\ next'[t] <= Len(callbacks[running[t]])
            /\ wpc'[t] = "callback" /\ running'[t] = running[t]
         \/ wpc'[t] = "idle"
  BY <1>1, Zenon DEF TypeOK
<1>4. FiberInv' /\ QueueInv' /\ PoolInv' /\ StillWaited
  BY <1>1, FibersSame, Zenon
<1>5. WorkerInv'
  BY <1>1, <1>3 DEF WorkerInv, Handing, Unfinished
<1>6. PlaceInv'
  <2>1. \A u \in Worker, k \in Nat, e \in Event :
          Ahead(u, k, e)' => Ahead(u, k, e) /\ running'[u] = running[u]
    BY <1>1, <1>3 DEF Ahead, Handing
  <2> QED BY <1>1, <1>4, <2>1, PlaceSame, Zenon
<1>7. GroupInv'
  BY <1>1, <1>4, GroupSame, Zenon DEF groups, Unfinished
<1> QED BY <1>1, <1>2, <1>4, <1>5, <1>6, <1>7, Zenon

LEMMA ScheduleKeeps ==
    ASSUME IInv, NEW t \in Worker, Schedule(t)
    PROVE  IInv'
<1> USE DEF IInv
<1>1. PICK f \in Fiber : f = running[t] /\ status[f] = "EXIT" /\ clients[f] = {}
  BY Zenon DEF Schedule, WorkerInv, FiberInv, FiberOK
<1>2. /\ wpc[t] = "schedule" /\ status' = [status EXCEPT ![f] = "deleted"]
      /\ wpc' = [wpc EXCEPT ![t] = "idle"] /\ running' = [running EXCEPT ![t] = None]
      /\ answers' = [answers EXCEPT ![f] = IF kind[f] = "request" THEN @ + 1 ELSE @]
      /\ clients' = [clients EXCEPT ![f] = {}]
      /\ eventPool' = eventPool \cup {e \in clients[f] : KeepAlive /\ etype[e] # "FAIL"}
      /\ UNCHANGED <<kind, closed, callbacks, runQueue, next, etype, executor, group,
                     added, polled, capacity, groupKeys, groupCounts, fault>>
  BY <1>1, Zenon DEF Schedule, Release, FreeConnections, events, loops, groups
<1>3. clients' = clients /\ eventPool' = eventPool /\ answers'[f] = answers[f] + 1
  BY <1>1, <1>2, Zenon DEF TypeOK
<1>4. TypeOK'
  <2>1. answers' \in [Fiber -> Nat]
    <3>1. kind[f] = "request" /\ answers \in [Fiber -> Nat]
      BY Zenon DEF TypeOK
    <3> QED BY ONLY <1>2, <3>1, f \in Fiber
  <2> QED BY <1>2, <1>3, <2>1, Zenon DEF TypeOK
<1>5. /\ \A g \in Fiber : status'[g] = IF g = f THEN "deleted" ELSE status[g]
      /\ \A g \in Fiber : g # f => answers'[g] = answers[g]
      /\ \A u \in Worker : wpc'[u] = IF u = t THEN "idle" ELSE wpc[u]
      /\ \A u \in Worker : u # t => running'[u] = running[u]
  BY <1>2, Zenon DEF TypeOK
<1>6. FiberInv' /\ PoolInv' /\ StillWaited
  <2>1. ASSUME NEW g \in Fiber, g # f PROVE FiberOK(g)'
    BY <1>2, <1>3, <1>5, <2>1, FiberSame, Zenon DEF FiberInv
  <2>2. FiberOK(f)'
    <3>1. answers[f] = 0
      BY <1>1, Zenon DEF FiberInv, FiberOK
    <3>2. answers'[f] = 1 /\ status'[f] = "deleted" /\ clients'[f] = {}
      BY <1>1, <1>3, <1>5, <3>1
    <3>3. /\ FiberOK(f) /\ clients' = clients /\ closed' = closed /\ callbacks' = callbacks
          /\ executor' = executor /\ etype' = etype
      BY <1>2, <1>3, Zenon DEF FiberInv
    <3> QED BY ONLY <3>2, <3>3 DEF FiberOK
  <2>3. PoolInv'
    BY <1>2, <1>3, Zenon DEF PoolInv
  <2>4. ASSUME NEW e \in Waited PROVE e \in Waited' /\ executor'[e] = executor[e]
    <3>1. executor[e] \in Fiber /\ executor[e] # f
      BY <1>1, <2>4, Zenon DEF Waited
    <3>2. /\ status'[executor[e]] = status[executor[e]] /\ clients' = clients
          /\ executor' = executor /\ etype' = etype
      BY <1>2, <1>3, <1>5, <3>1, Zenon
    <3> QED BY ONLY <2>4, <3>1, <3>2, Zenon DEF Waited, Unfinished
  <2> QED BY <2>1, <2>2, <2>3, <2>4, Zenon DEF FiberInv, StillWaited
<1>7. WorkerInv'
  BY <1>1, <1>2, <1>3, <1>5 DEF WorkerInv, Handing, Unfinished
<1>8. QueueInv'
  <2>1. Calm
    BY <1>1, <1>2, <1>3, <1>5, Zenon DEF Calm, Unfinished
  <2> QED BY <1>2, <2>1, QueueSame, Zenon
<1>9. PlaceInv'
  <2>1. \A u \in Worker, k \in Nat, e \in Event :
          Ahead(u, k, e)' => Ahead(u, k, e) /\ running'[u] = running[u]
    BY <1>2, <1>5 DEF Ahead, Handing
  <2> QED BY <1>2, <1>6, <2>1, PlaceSame, Zenon
<1>10. GroupInv'
  BY <1>2, <1>3, <1>5, <1>6, GroupSame DEF groups, Unfinished
<1> QED BY <1>2, <1>4, <1>6, <1>7, <1>8, <1>9, <1>10, Zenon

\* While a fiber runs it is neither queued nor blocked for an event.
LEMMA RunningFiber ==
    ASSUME IInv, NEW t \in Worker, wpc[t] = "fiber"
    PROVE  /\ running[t] \in Fiber /\ status[running[t]] = "RUNNING"
           /\ kind[running[t]] = "request"
           /\ \A e \in Waited : executor[e] # running[t]
  BY Zenon DEF IInv, WorkerInv, Waited, TypeOK

LEMMA DiscardKeeps ==
    ASSUME IInv, NEW t \in Worker, Discard(t)
    PROVE  IInv'
<1> USE DEF IInv
<1>1. /\ eventPool' \subseteq eventPool
      /\ UNCHANGED <<status, kind, clients, closed, callbacks, answers, runQueue, running,
                     wpc, next, etype, executor, group, added, polled, capacity,
                     groupKeys, groupCounts, fault>>
  BY Zenon DEF Discard, fibers, threads, events, loops, groups
<1>2. TypeOK'
  BY <1>1, Zenon DEF TypeOK
<1>3. FiberInv' /\ WorkerInv' /\ QueueInv' /\ PoolInv' /\ StillWaited
  BY <1>1, FibersSame, WorkersSame, Zenon
<1>4. PlaceInv'
  BY <1>1, <1>3, PlaceSame, Zenon DEF Ahead, Handing
<1>5. GroupInv'
  BY <1>1, <1>3, GroupSame, Zenon DEF groups, Unfinished
<1> QED BY <1>1, <1>2, <1>3, <1>4, <1>5, Zenon

LEMMA CloseKeeps ==
    ASSUME IInv, NEW t \in Worker, Close(t)
    PROVE  IInv'
<1> USE DEF IInv
<1>1. PICK f \in Fiber : /\ f = running[t] /\ status[f] = "RUNNING"
                        /\ \A e \in Waited : executor[e] # f
  BY RunningFiber, Zenon DEF Close, InFiber
<1>2. /\ clients' = [clients EXCEPT ![f] = {}] /\ closed' = [closed EXCEPT ![f] = TRUE]
      /\ eventPool' = eventPool \cup {e \in clients[f] : KeepAlive /\ etype[e] # "FAIL"}
      /\ UNCHANGED <<status, kind, callbacks, answers, runQueue, running, wpc, next, etype,
                     executor, group, added, polled, capacity, groupKeys, groupCounts,
                     fault>>
  BY <1>1, Zenon DEF Close, FreeConnections, threads, events, loops, groups
<1>3. /\ \A g \in Fiber : clients'[g] = IF g = f THEN {} ELSE clients[g]
      /\ closed'[f] /\ \A g \in Fiber : g # f => closed'[g] = closed[g]
  BY <1>2, Zenon DEF TypeOK
<1>4. TypeOK'
  <2>1. eventPool' \subseteq Event /\ clients' \in [Fiber -> SUBSET Event]
    BY <1>2, Zenon DEF TypeOK
  <2>2. closed' \in [Fiber -> BOOLEAN]
    BY <1>2, Zenon DEF TypeOK
  <2> QED BY <1>2, <2>1, <2>2, Zenon DEF TypeOK
<1>5. FiberInv'
  <2>1. ASSUME NEW g \in Fiber, g # f PROVE FiberOK(g)'
    BY <1>2, <1>3, <2>1, FiberSame, Zenon DEF FiberInv
  <2>2. FiberOK(f)'
    <3>1. clients'[f] = {} /\ closed'[f]
      BY <1>3, Zenon
    <3> QED BY <1>1, <1>2, <3>1 DEF FiberInv, FiberOK
  <2> QED BY <2>1, <2>2, Zenon DEF FiberInv
<1>6. PoolInv'
  BY <1>1, <1>2, <1>3 DEF PoolInv, FiberInv, FiberOK
<1>7. StillWaited /\ Calm
  BY <1>1, <1>2, <1>3 DEF StillWaited, Waited, Calm, Unfinished
<1>8. WorkerInv'
  BY <1>1, <1>2, <1>3 DEF WorkerInv, Handing, Unfinished
<1>9. QueueInv'
  BY <1>2, <1>7, QueueSame, Zenon
<1>10. PlaceInv'
  BY <1>2, <1>7, PlaceSame, Zenon DEF Ahead, Handing
<1>11. GroupInv'
  BY <1>1, <1>2, <1>3, <1>7, GroupSame, Zenon DEF groups, Unfinished
<1> QED BY <1>2, <1>4, <1>5, <1>6, <1>8, <1>9, <1>10, <1>11, Zenon

LEMMA ExitKeeps ==
    ASSUME IInv, NEW t \in Worker, Exit(t)
    PROVE  IInv'
<1> USE DEF IInv
<1>1. wpc[t] = "fiber"
  BY Zenon DEF Exit, InFiber
<1>2. PICK f \in Fiber : /\ f = running[t] /\ status[f] = "RUNNING" /\ clients[f] = {}
                        /\ \A e \in Waited : executor[e] # f
  BY <1>1, RunningFiber, Zenon DEF Exit, InFiber
<1>3. /\ status' = [status EXCEPT ![f] = "EXIT"] /\ wpc' = [wpc EXCEPT ![t] = "schedule"]
      /\ next' = [next EXCEPT ![t] = 0]
      /\ UNCHANGED <<kind, clients, closed, callbacks, answers, runQueue, running, etype,
                     executor, group, added, polled, eventPool, capacity, groupKeys,
                     groupCounts, fault>>
  BY <1>2, Zenon DEF Exit, Leave, loops, groups
<1>4. /\ \A g \in Fiber : status'[g] = IF g = f THEN "EXIT" ELSE status[g]
      /\ \A u \in Worker : wpc'[u] = IF u = t THEN "schedule" ELSE wpc[u]
      /\ \A u \in Worker : u # t => next'[u] = next[u]
  BY <1>3, Zenon DEF TypeOK
<1>5. TypeOK'
  BY <1>3, Zenon DEF TypeOK
<1>6. FiberInv' /\ PoolInv'
  <2>1. ASSUME NEW g \in Fiber, g # f PROVE FiberOK(g)'
    BY <1>3, <1>4, <2>1, FiberSame, Zenon DEF FiberInv
  <2>2. FiberOK(f)'
    <3>1. /\ FiberOK(f) /\ status[f] = "RUNNING" /\ status'[f] = "EXIT" /\ clients[f] = {}
          /\ UNCHANGED <<clients, closed, callbacks, answers>>
      BY <1>2, <1>3, <1>4, Zenon DEF FiberInv
    <3> QED BY ONLY <3>1 DEF FiberOK
  <2>3. PoolInv'
    BY <1>3, Zenon DEF PoolInv
  <2> QED BY <2>1, <2>2, <2>3, Zenon DEF FiberInv
<1>7. StillWaited /\ Calm
  BY <1>2, <1>3, <1>4, Zenon DEF StillWaited, Waited, Calm, Unfinished
<1>8. WorkerInv'
  BY <1>1, <1>2, <1>3, <1>4 DEF WorkerInv, Handing, Unfinished
<1>9. QueueInv'
  BY <1>3, <1>7, QueueSame, Zenon
<1>10. PlaceInv'
  <2>1. ASSUME NEW u \in Worker, NEW k \in Nat, NEW e \in Event, Ahead(u, k, e)'
        PROVE  Ahead(u, k, e) /\ running'[u] = running[u]
    <3>1. u # t
      BY ONLY <1>4, <2>1, t \in Worker, Zenon DEF Ahead, Handing
    <3>2. /\ wpc'[u] = wpc[u] /\ next'[u] = next[u] /\ callbacks' = callbacks
          /\ running' = running
      BY ONLY <1>3, <1>4, <3>1, Zenon
    <3> QED BY ONLY <2>1, <3>2, Zenon DEF Ahead, Handing
  <2> QED BY <1>3, <1>7, <2>1, PlaceSame, Zenon
<1>11. GroupInv'
  BY <1>3, <1>4, <1>7, GroupSame DEF groups, Unfinished
<1> QED BY <1>3, <1>5, <1>6, <1>8, <1>9, <1>10, <1>11, Zenon

\* connect with an event that no client has.
LEMMA ConnectedKeeps ==
    ASSUME IInv, ~Again, NEW t \in Worker, wpc[t] = "fiber", MayConnect(running[t]),
           NEW e \in Event, \A f \in Fiber : e \notin clients[f],
           NEW ty \in {"CONNECT", "TOWRITE"}, Connected(running[t], e, ty),
           eventPool' \subseteq eventPool, e \notin eventPool',
           UNCHANGED <<status, kind, closed, answers, runQueue, running, wpc, next, group,
                       added, polled, capacity, groupKeys, groupCounts, fault>>
    PROVE  IInv'
<1> USE DEF IInv
<1>1. PICK f \in Fiber : /\ f = running[t] /\ status[f] = "RUNNING"
                        /\ \A d \in Waited : executor[d] # f
  BY RunningFiber, Zenon
<1>2. /\ etype' = [etype EXCEPT ![e] = ty] /\ executor' = [executor EXCEPT ![e] = f]
      /\ clients' = [clients EXCEPT ![f] = @ \cup {e}]
      /\ callbacks' = [callbacks EXCEPT ![f] = Append(@, e)]
      /\ ~closed[f] /\ \A d \in clients[f] : Unfinished(d)
  BY <1>1, Zenon DEF Connected, MayConnect
<1>3. /\ \A d \in Event : d # e => etype'[d] = etype[d] /\ executor'[d] = executor[d]
      /\ etype'[e] = ty /\ executor'[e] = f
      /\ \A g \in Fiber : g # f => clients'[g] = clients[g] /\ callbacks'[g] = callbacks[g]
      /\ clients'[f] = clients[f] \cup {e} /\ callbacks'[f] = Append(callbacks[f], e)
  BY <1>2, Zenon DEF TypeOK
<1>4. TypeOK'
  BY <1>2 DEF TypeOK
<1>5. \A d \in Event : d # e => (Unfinished(d)' <=> Unfinished(d))
  BY <1>3, Zenon DEF Unfinished
<1>6. Unfinished(e)' /\ etype'[e] # "new"
  BY <1>3, Zenon DEF Unfinished
<1>7. \A g \in Fiber : clients[g] \subseteq Event
  BY Zenon DEF TypeOK
<1>8. FiberInv'
  <2>1. ASSUME NEW g \in Fiber, g # f PROVE FiberOK(g)'
    <3>1. /\ FiberOK(g) /\ clients'[g] = clients[g] /\ callbacks'[g] = callbacks[g]
          /\ \A d \in clients[g] : executor'[d] = executor[d] /\ etype'[d] = etype[d]
      BY <2>1, <1>3, <1>7, Zenon DEF FiberInv
    <3> QED BY <3>1, FiberSame, Zenon
  <2>2. /\ \A i, j \in 1..Len(callbacks[f]) : callbacks[f][i] = callbacks[f][j] => i = j
        /\ \A d \in Event :
             d \in clients[f] <=> \E i \in 1..Len(callbacks[f]) : callbacks[f][i] = d
        /\ callbacks[f] \in Seq(Event)
    BY <1>2, Zenon DEF FiberInv, FiberOK, TypeOK
  <2>3. PICK r \in Seq(Event) : r = callbacks'[f]
    BY <1>4, Zenon DEF TypeOK
  <2>4. /\ \A i \in 1..Len(r) : \/ i \in 1..Len(callbacks[f]) /\ r[i] = callbacks[f][i]
                                \/ i = Len(callbacks[f]) + 1 /\ r[i] = e
        /\ \A i \in 1..Len(callbacks[f]) : i \in 1..Len(r) /\ r[i] = callbacks[f][i]
        /\ Len(callbacks[f]) + 1 \in 1..Len(r) /\ r[Len(callbacks[f]) + 1] = e
    <3>1. callbacks[f] \in Seq(Event) /\ r = Append(callbacks[f], e)
      BY <1>3, <2>2, <2>3, Zenon
    <3> QED BY ONLY <3>1, e \in Event, Appended
  <2>5. \A i \in 1..Len(callbacks[f]) : callbacks[f][i] # e
    BY <2>2, Zenon
  <2>6. \A i, j \in 1..Len(r) : r[i] = r[j] => i = j
    <3>1. ASSUME NEW i \in 1..Len(r), NEW j \in 1..Len(r), r[i] = r[j] PROVE i = j
      <4>1. \/ i \in 1..Len(callbacks[f]) /\ r[i] = callbacks[f][i]
            \/ i = Len(callbacks[f]) + 1 /\ r[i] = e
        BY ONLY <2>4, i \in 1..Len(r), Zenon
      <4>2. \/ j \in 1..Len(callbacks[f]) /\ r[j] = callbacks[f][j]
            \/ j = Len(callbacks[f]) + 1 /\ r[j] = e
        BY ONLY <2>4, j \in 1..Len(r), Zenon
      <4> QED BY ONLY <2>2, <2>5, <3>1, <4>1, <4>2, Zenon
    <3> QED BY ONLY <3>1, Zenon
  <2>7. \A d \in Event : d \in clients'[f] <=> \E i \in 1..Len(r) : r[i] = d
    <3>1. \A d \in Event : d \in clients'[f] <=> d \in clients[f] \/ d = e
      BY ONLY <1>3, Zenon
    <3>2. ASSUME NEW d \in Event, d \in clients'[f] PROVE \E i \in 1..Len(r) : r[i] = d
      BY ONLY <3>1, <3>2, <2>2, <2>4, Zenon
    <3>3. ASSUME NEW d \in Event, NEW i \in 1..Len(r), r[i] = d PROVE d \in clients'[f]
      BY ONLY <3>1, <3>3, <2>2, <2>4, Zenon
    <3> QED BY ONLY <3>2, <3>3, Zenon
  <2>8. \A d \in clients'[f] : /\ executor'[d] = f /\ etype'[d] # "new"
                              /\ Unfinished(d)'
    <3>1. ASSUME NEW d \in clients[f]
          PROVE  executor'[d] = f /\ etype'[d] # "new" /\ Unfinished(d)'
      <4>1. d \in Event /\ d # e /\ Unfinished(d)
        BY <1>2, <1>7, <3>1, Zenon
      <4>2. FiberOK(f)
        BY Zenon DEF FiberInv
      <4>3. executor[d] = f /\ etype[d] # "new"
        BY ONLY <3>1, <4>2, Zenon DEF FiberOK
      <4> QED BY ONLY <1>3, <1>5, <4>1, <4>3, Zenon
    <3> QED BY ONLY <1>3, <1>6, <3>1, Zenon
  <2>9. /\ ~closed'[f] /\ status'[f] = "RUNNING" /\ answers'[f] = 0
        /\ \A i, j \in 1..Len(callbacks'[f]) : callbacks'[f][i] = callbacks'[f][j] => i = j
        /\ \A d \in Event :
             d \in clients'[f] <=> \E i \in 1..Len(callbacks'[f]) : callbacks'[f][i] = d
    <3>1. answers[f] = 0
      BY <1>1, Zenon DEF FiberInv, FiberOK
    <3>2. ~closed'[f] /\ status'[f] = "RUNNING" /\ answers'[f] = 0
      BY <1>1, <1>2, <3>1, Zenon
    <3>3. r = callbacks'[f]
      BY <2>3, Zenon
    <3> QED BY ONLY <2>6, <2>7, <3>2, <3>3
  <2>10. FiberOK(f)'
    BY ONLY <2>8, <2>9, Zenon DEF FiberOK
  <2> QED BY <2>1, <2>10, Zenon DEF FiberInv
<1>9. PoolInv'
  <2>1. eventPool \subseteq Event
    BY Zenon DEF TypeOK
  <2> QED BY <1>3, <2>1 DEF PoolInv
<1>10. StillWaited /\ Calm
  BY <1>1, <1>3, <1>5, <1>7, Zenon DEF StillWaited, Waited, Calm
<1>11. \A u \in Worker : Handing(u) => running[u] # f
  BY <1>1, <1>2, Zenon DEF WorkerInv
<1>12. WorkerInv'
  <2>1. WorkerInv /\ UNCHANGED <<status, closed, running, wpc, next>>
    BY Zenon
  <2>2. \A g \in Fiber : g # f => /\ clients'[g] = clients[g] /\ callbacks'[g] = callbacks[g]
                                 /\ \A d \in clients[g] : Unfinished(d)' <=> Unfinished(d)
    BY <1>3, <1>5, <1>7, Zenon
  <2> QED BY ONLY <1>11, <2>1, <2>2 DEF WorkerInv, Handing
<1>13. QueueInv'
  BY <1>10, QueueSame, Zenon
<1>14. PlaceInv'
  <2>1. ASSUME NEW u \in Worker, NEW k \in Nat, NEW d \in Event, Ahead(u, k, d)'
        PROVE  Ahead(u, k, d) /\ running'[u] = running[u]
    <3>1. running[u] \in Fiber /\ running[u] # f /\ running' = running
      BY <1>11, <2>1, Zenon DEF Ahead, Handing, WorkerInv
    <3>2. callbacks'[running[u]] = callbacks[running[u]] /\ wpc' = wpc /\ next' = next
      BY <1>3, <3>1, Zenon
    <3> QED BY ONLY <2>1, <3>1, <3>2, Zenon DEF Ahead, Handing
  <2> QED BY <1>10, <2>1, PlaceSame, Zenon
<1>15. GroupInv'
  BY <1>1, <1>3, <1>5, <1>7, <1>10, GroupSame, Zenon DEF groups
<1> QED BY <1>4, <1>8, <1>9, <1>12, <1>13, <1>14, <1>15, Zenon

LEMMA ConnectKeeps ==
    ASSUME IInv, ~Again, NEW t \in Worker, Connect(t)
    PROVE  IInv'
<1>1. PICK e \in Event : etype[e] = "new" /\ Connected(running[t], e, "CONNECT")
  BY Zenon DEF Connect
<1>2. e \notin eventPool /\ \A f \in Fiber : e \notin clients[f]
  BY <1>1, Zenon DEF IInv, PoolInv, FiberInv, FiberOK
<1>3. /\ UNCHANGED <<status, kind, closed, answers, runQueue, running, wpc, next, group,
                     added, polled, capacity, groupKeys, groupCounts, fault>>
      /\ eventPool' = eventPool /\ wpc[t] = "fiber" /\ MayConnect(running[t])
  BY Zenon DEF Connect, InFiber, threads, loops, groups
<1> QED BY <1>1, <1>2, <1>3, ConnectedKeeps, Zenon

LEMMA ReuseKeeps ==
    ASSUME IInv, ~Again, NEW t \in Worker, Reuse(t)
    PROVE  IInv'
<1>1. PICK e \in eventPool : /\ eventPool' = eventPool \ {e}
                            /\ group' = [group EXCEPT ![e] = 0]
                            /\ Connected(running[t], e, "TOWRITE")
  BY Zenon DEF Reuse
<1>2. e \in Event /\ group \in [Event -> Nat]
  BY Zenon DEF IInv, TypeOK
<1>3. \A f \in Fiber : e \notin clients[f]
  BY Zenon DEF IInv, PoolInv
<1>4. group[e] = 0
  BY <1>2, <1>3, Zenon DEF IInv, GroupInv, Waited
<1>5. group' = group
  BY <1>1, <1>2, <1>4, Zenon
<1>6. /\ UNCHANGED <<status, kind, closed, answers, runQueue, running, wpc, next,
                     added, polled, capacity, groupKeys, groupCounts, fault>>
      /\ wpc[t] = "fiber" /\ MayConnect(running[t])
  BY Zenon DEF Reuse, InFiber, threads, loops, groups
<1> QED BY <1>1, <1>2, <1>3, <1>5, <1>6, ConnectedKeeps, Zenon

\* A fiber yields with clients of which none has been used: their callbacks are all
\* still to be called, and nobody else calls callbacks for the fiber.
LEMMA BlockKeeps ==
    ASSUME IInv, NEW t \in Worker, wpc[t] = "fiber", clients[running[t]] # {},
           \A e \in clients[running[t]] : Unfinished(e), Leave(t, "BLOCK", "advance"),
           group' \in [Event -> Nat]
    PROVE  /\ fault' = "none" /\ TypeOK' /\ FiberInv' /\ WorkerInv' /\ QueueInv'
           /\ PlaceInv' /\ PoolInv' /\ StillWaited
           /\ \A e \in clients[running[t]] : e \in Waited' /\ executor'[e] = running[t]
<1> USE DEF IInv
<1>1. PICK f \in Fiber : /\ f = running[t] /\ status[f] = "RUNNING"
                        /\ \A e \in Waited : executor[e] # f
  BY RunningFiber, Zenon
<1>2. /\ status' = [status EXCEPT ![f] = "BLOCK"] /\ wpc' = [wpc EXCEPT ![t] = "advance"]
      /\ next' = [next EXCEPT ![t] = 0]
      /\ UNCHANGED <<kind, clients, closed, callbacks, answers, runQueue, running, etype,
                     executor, added, polled, eventPool, fault>>
  BY <1>1, Zenon DEF Leave, loops
<1>3. /\ \A g \in Fiber : status'[g] = IF g = f THEN "BLOCK" ELSE status[g]
      /\ \A u \in Worker : wpc'[u] = IF u = t THEN "advance" ELSE wpc[u]
      /\ \A u \in Worker : next'[u] = IF u = t THEN 0 ELSE next[u]
  <2>1. DOMAIN status = Fiber /\ DOMAIN wpc = Worker /\ DOMAIN next = Worker
    BY Zenon DEF TypeOK
  <2> QED BY ONLY <1>2, <2>1, Zenon
<1>4. TypeOK'
  BY <1>2, Zenon DEF TypeOK
<1>5. clients[f] # {} /\ ~closed[f] /\ \A e \in clients[f] : Unfinished(e)
  BY <1>1, Zenon DEF FiberInv, FiberOK
<1>6. FiberInv' /\ PoolInv'
  <2>1. ASSUME NEW g \in Fiber, g # f PROVE FiberOK(g)'
    BY <1>2, <1>3, <2>1, FiberSame, Zenon DEF FiberInv
  <2>2. FiberOK(f)'
    <3>1. /\ FiberOK(f) /\ status[f] = "RUNNING" /\ status'[f] = "BLOCK"
          /\ UNCHANGED <<clients, closed, callbacks, answers, executor, etype>>
      BY <1>1, <1>2, <1>3, Zenon DEF FiberInv
    <3> QED BY ONLY <1>5, <3>1 DEF FiberOK
  <2>3. PoolInv'
    BY <1>2, Zenon DEF PoolInv
  <2> QED BY <2>1, <2>2, <2>3, Zenon DEF FiberInv
<1>7. StillWaited /\ Calm
  BY <1>1, <1>2, <1>3 DEF StillWaited, Waited, Calm, Unfinished
<1>8. \A u \in Worker : Handing(u) => running[u] # f
  BY <1>1, <1>5, Zenon DEF WorkerInv
<1>9. WorkerInv'
  BY <1>1, <1>2, <1>3, <1>8 DEF WorkerInv, Handing, Unfinished, TypeOK
<1>10. QueueInv'
  BY <1>2, <1>7, QueueSame, Zenon
<1>11. \A e \in clients[f] : e \in Waited' /\ e \notin Waited /\ executor'[e] = f
  BY <1>1, <1>2, <1>3, <1>5 DEF Waited, FiberInv, FiberOK, Unfinished, TypeOK
<1>12. PlaceInv'
  <2>1. \A u \in Worker, k \in Nat, e \in Event : Ahead(u, k, e)' =>
          running'[u] = running[u] /\ (u # t => Ahead(u, k, e)) /\ (u = t => e \in clients[f])
    <3>1. ASSUME NEW u \in Worker, NEW k \in Nat, NEW e \in Event, Ahead(u, k, e)'
          PROVE  running'[u] = running[u] /\ (u # t => Ahead(u, k, e))
      BY <1>2, <1>3, <3>1, Zenon DEF Ahead, Handing
    <3>2. ASSUME NEW k \in Nat, NEW e \in Event, Ahead(t, k, e)' PROVE e \in clients[f]
      <4>1. k \in 1..Len(callbacks[f]) /\ callbacks[f][k] = e
        BY <1>1, <1>2, <3>2, Zenon DEF Ahead
      <4> QED BY <4>1, <1>5, Zenon DEF FiberInv, FiberOK
    <3> QED BY <3>1, <3>2, Zenon
  <2>2. ASSUME NEW e \in clients[f], NEW l \in Loop
        PROVE  <<l, e>> \notin polled /\ \A i \in 1..Len(added[l]) : added[l][i] # e
    <3>1. e \in Event /\ e \notin Waited
      BY <1>11, Zenon DEF TypeOK
    <3>2. <<l, e>> \notin polled
      BY <3>1, Zenon DEF PlaceInv, PolledInv
    <3>3. ASSUME NEW i \in 1..Len(added[l]) PROVE added[l][i] # e
      <4>1. added[l][i] \in Waited
        BY <3>3, Zenon DEF PlaceInv, AddedInv
      <4> QED BY ONLY <3>1, <4>1, Zenon
    <3> QED BY <3>2, <3>3, Zenon
  <2>3. AheadInv'
    <3>1. ASSUME NEW u \in Worker, NEW k \in Nat, NEW e \in Event, Ahead(u, k, e)'
          PROVE  /\ e \in Waited' /\ executor'[e] = running'[u]
                 /\ \A l \in Loop : /\ <<l, e>> \notin polled
                                    /\ \A i \in 1..Len(added[l]) : added[l][i] # e
      <4>1. CASE u # t
        <5>1. Ahead(u, k, e) /\ running'[u] = running[u]
          BY ONLY <2>1, <3>1, <4>1, Zenon
        <5>2. /\ e \in Waited /\ executor[e] = running[u]
              /\ \A l \in Loop : /\ <<l, e>> \notin polled
                                 /\ \A i \in 1..Len(added[l]) : added[l][i] # e
          <6>1. AheadInv
            BY Zenon DEF PlaceInv
          <6> QED BY ONLY <5>1, <6>1, u \in Worker, k \in Nat, e \in Event, Zenon DEF AheadInv
        <5> QED BY ONLY <1>7, <5>1, <5>2, Zenon DEF StillWaited
      <4>2. CASE u = t
        <5>1. e \in clients[f] /\ running'[u] = f
          BY <1>1, <2>1, <3>1, <4>2, Zenon
        <5> QED BY ONLY <1>11, <2>2, <5>1, Zenon
      <4> QED BY ONLY <4>1, <4>2, Zenon
    <3>2. added' = added /\ polled' = polled
      BY <1>2, Zenon
    <3> QED BY ONLY <3>1, <3>2, Zenon DEF AheadInv
  <2>4. AddedInv'
    <3>1. AddedInv /\ added' = added /\ polled' = polled
      BY <1>2, Zenon DEF PlaceInv
    <3>2. \A e \in Waited : e \in Waited'
      BY ONLY <1>7, Zenon DEF StillWaited
    <3> QED BY ONLY <3>1, <3>2 DEF AddedInv
  <2>5. PolledInv'
    BY <1>2, <1>7, Zenon DEF PlaceInv, PolledInv, StillWaited
  <2> QED BY <2>3, <2>4, <2>5, Zenon DEF PlaceInv
<1> QED BY <1>1, <1>2, <1>4, <1>6, <1>7, <1>9, <1>10, <1>11, <1>12, Zenon

LEMMA FetchKeeps ==
    ASSUME IInv, NEW t \in Worker, Fetch(t)
    PROVE  IInv'
<1> USE DEF IInv
<1>1. PICK f \in Fiber : /\ f = running[t] /\ status[f] = "RUNNING"
                        /\ \A e \in Waited : executor[e] # f
  BY RunningFiber, Zenon DEF Fetch
<1>2. /\ wpc[t] = "fiber" /\ Leave(t, "BLOCK", "advance") /\ UNCHANGED <<group, groups>>
      /\ Cardinality(clients[f]) = 1 /\ \A e \in clients[f] : Unfinished(e)
  BY <1>1, Zenon DEF Fetch
<1>3. clients[f] # {} /\ \A d, e \in clients[f] : d = e
  <2>1. clients[f] \in SUBSET Event
    BY Zenon DEF TypeOK
  <2> QED BY ONLY <1>2, <2>1, EventSets
<1>4. /\ fault' = "none" /\ TypeOK' /\ FiberInv' /\ WorkerInv' /\ QueueInv'
      /\ PlaceInv' /\ PoolInv' /\ StillWaited
  <2>1. group' \in [Event -> Nat]
    BY <1>2, Zenon DEF TypeOK
  <2> QED BY <1>1, <1>2, <1>3, <2>1, BlockKeeps, Zenon
<1>5. GroupInv'
  <2>1. G!GroupTypeOK' /\ GroupCountExact'
    BY <1>2, CountsSame, Zenon
  <2>2. /\ UNCHANGED <<clients, etype, executor>>
        /\ \A g \in Fiber : g # f => status'[g] = status[g]
    BY <1>1, <1>2, Zenon DEF Leave, TypeOK
  <2>3. \A e \in Event : group'[e] # 0 => group'[e] <= capacity' /\ e \in Waited'
    BY <1>2, <1>4, Zenon DEF GroupInv, groups, StillWaited
  <2>4. \A d, e \in Event : group'[d] # 0 /\ group'[d] = group'[e] => executor'[d] = executor'[e]
    BY <1>2, <2>2, Zenon DEF GroupInv
  <2>5. \A g \in Fiber : status'[g] = "BLOCK" =>
           \A d, e \in clients'[g] : Unfinished(d)' /\ Unfinished(e)' =>
                group'[d] = group'[e] /\ (group'[d] = 0 => d = e)
    <3>1. ASSUME NEW g \in Fiber, status'[g] = "BLOCK", NEW d \in clients'[g],
                 NEW e \in clients'[g], Unfinished(d)', Unfinished(e)'
          PROVE  group'[d] = group'[e] /\ (group'[d] = 0 => d = e)
      <4>1. CASE g = f
        <5>1. d = e
          BY <1>3, <2>2, <4>1, Zenon
        <5> QED BY ONLY <5>1, Zenon
      <4>2. CASE g # f
        <5>1. status[g] = "BLOCK" /\ d \in clients[g] /\ e \in clients[g] /\ group' = group
          BY <1>2, <2>2, <3>1, <4>2, Zenon
        <5>2. Unfinished(d) /\ Unfinished(e)
          BY <2>2, <3>1, Zenon DEF Unfinished
        <5> QED BY <5>1, <5>2, Zenon DEF GroupInv
      <4> QED BY ONLY <4>1, <4>2, Zenon
    <3> QED BY ONLY <3>1, Zenon
  <2> QED BY <2>1, <2>3, <2>4, <2>5, Zenon DEF GroupInv
<1> QED BY <1>4, <1>5, Zenon

\* A worker adds an event that nobody else will add, and that is in no loop yet.
LEMMA CallbackKeeps ==
    ASSUME IInv, NEW t \in Worker, Callback(t)
    PROVE  IInv'
<1> USE DEF IInv
<1>1. /\ wpc[t] = "callback" /\ wpc' = [wpc EXCEPT ![t] = "advance"]
      /\ UNCHANGED <<status, kind, clients, closed, callbacks, answers, runQueue, running,
                     next, etype, executor, group, polled, eventPool, capacity, groupKeys,
                     groupCounts, fault>>
  BY Zenon DEF Callback, fibers, events, groups
<1>2. PICK f \in Fiber, n \in Nat : f = running[t] /\ n = next[t] /\ n \in 1..Len(callbacks[f])
  <2>1. /\ running[t] \in Fiber /\ next[t] \in Nat /\ next[t] > 0
        /\ next[t] <= Len(callbacks[running[t]])
    BY <1>1, Zenon DEF WorkerInv, Handing, TypeOK
  <2>2. callbacks[running[t]] \in Seq(Event)
    BY <2>1, Zenon DEF TypeOK
  <2> QED BY <2>1, <2>2
<1>3. PICK e \in Event : e = callbacks[f][n]
  BY <1>2 DEF TypeOK
<1>4. PICK l \in Loop : added' = [added EXCEPT ![l] = Append(@, e)]
  BY <1>2, <1>3, Zenon DEF Callback
<1>5. \A u \in Worker : wpc'[u] = IF u = t THEN "advance" ELSE wpc[u]
  BY <1>1, Zenon DEF TypeOK
<1>6. TypeOK'
  <2>1. added \in [Loop -> Seq(Event)]
    BY Zenon DEF TypeOK
  <2>2. added' \in [Loop -> Seq(Event)]
    BY ONLY <1>4, <2>1, e \in Event, l \in Loop
  <2> QED BY <1>1, <2>2, Zenon DEF TypeOK
<1>7. FiberInv' /\ QueueInv' /\ PoolInv' /\ StillWaited
  BY <1>1, FibersSame, Zenon
<1>8. WorkerInv'
  BY <1>1, <1>5 DEF WorkerInv, Handing, Unfinished
<1>9. GroupInv'
  BY <1>1, <1>7, GroupSame, Zenon DEF groups, Unfinished
<1>10. /\ e \in Waited /\ executor[e] = f
       /\ \A m \in Loop : <<m, e>> \notin polled
       /\ \A m \in Loop : \A i \in 1..Len(added[m]) : added[m][i] # e
  <2>1. Ahead(t, n, e)
    BY <1>1, <1>2, <1>3, Zenon DEF Ahead, Handing
  <2> QED BY <1>2, <2>1, Zenon DEF PlaceInv, AheadInv
<1>11. \A m \in Loop : \A i \in 1..Len(added'[m]) :
         \/ i \in 1..Len(added[m]) /\ added'[m][i] = added[m][i]
         \/ m = l /\ i = Len(added[l]) + 1 /\ added'[m][i] = e
  <2>1. added \in [Loop -> Seq(Event)]
    BY Zenon DEF TypeOK
  <2>2. \A m \in Loop : m # l => added'[m] = added[m]
    BY <1>4, <2>1, Zenon
  <2>3. added[l] \in Seq(Event) /\ added'[l] = Append(added[l], e)
    BY <1>4, <2>1, Zenon
  <2>4. \A i \in 1..Len(added'[l]) :
          \/ i \in 1..Len(added[l]) /\ added'[l][i] = added[l][i]
          \/ i = Len(added[l]) + 1 /\ added'[l][i] = e
    BY ONLY <2>3, Appended, e \in Event
  <2> QED BY ONLY <2>2, <2>4, Zenon
<1>12. ASSUME NEW u \in Worker, NEW k \in Nat, NEW d \in Event, Ahead(u, k, d)'
       PROVE  Ahead(u, k, d) /\ running'[u] = running[u] /\ d # e
  <2>1. Ahead(u, k, d) /\ running'[u] = running[u]
    BY <1>1, <1>5, <1>12, Zenon DEF Ahead, Handing
  <2>2. CASE u = t
    <3>1. k \in 1..Len(callbacks[f]) /\ callbacks[f][k] = d /\ n < k
      BY <1>1, <1>2, <1>5, <1>12, <2>2 DEF Ahead
    <3>2. \A i, j \in 1..Len(callbacks[f]) : callbacks[f][i] = callbacks[f][j] => i = j
      BY Zenon DEF FiberInv, FiberOK
    <3>3. k # n
      BY ONLY <3>1, k \in Nat, n \in Nat
    <3> QED BY <1>2, <1>3, <2>1, <3>1, <3>2, <3>3, Zenon
  <2>3. CASE u # t
    <3>1. executor[d] = running[u] /\ Handing(u) /\ Handing(t)
      BY <1>1, <2>1, Zenon DEF PlaceInv, AheadInv, Ahead, Handing
    <3> QED BY <1>2, <1>10, <2>1, <2>3, <3>1, Zenon DEF WorkerInv
  <2> QED BY <2>2, <2>3, Zenon
<1>13. AheadInv'
  <2> SUFFICES ASSUME NEW u \in Worker, NEW k \in Nat, NEW d \in Event, Ahead(u, k, d)'
               PROVE  /\ d \in Waited' /\ executor'[d] = running'[u]
                      /\ \A m \in Loop : <<m, d>> \notin polled'
                      /\ \A m \in Loop : \A i \in 1..Len(added'[m]) : added'[m][i] # d
    BY Zenon DEF AheadInv
  <2>1. Ahead(u, k, d) /\ running'[u] = running[u] /\ d # e
    BY <1>12, Zenon
  <2>2. /\ d \in Waited /\ executor[d] = running[u]
        /\ \A m \in Loop : <<m, d>> \notin polled
        /\ \A m \in Loop : \A i \in 1..Len(added[m]) : added[m][i] # d
    BY <2>1, Zenon DEF PlaceInv, AheadInv
  <2>3. \A m \in Loop : \A i \in 1..Len(added'[m]) : added'[m][i] # d
    BY ONLY <2>1, <2>2, <1>11, Zenon
  <2> QED BY <2>1, <2>2, <2>3, <1>1, <1>7, Zenon DEF StillWaited
<1>14. AddedInv'
  <2>1. ASSUME NEW m \in Loop, NEW i \in 1..Len(added'[m])
        PROVE  added'[m][i] \in Waited' /\ \A h \in Loop : <<h, added'[m][i]>> \notin polled'
    <3>1. PICK d : d = added'[m][i]
      BY Zenon
    <3>2. d \in Waited /\ \A h \in Loop : <<h, d>> \notin polled
      BY <3>1, <1>10, <1>11, Zenon DEF PlaceInv, AddedInv
    <3> QED BY <3>1, <3>2, <1>1, <1>7, Zenon DEF StillWaited
  <2>2. ASSUME NEW m \in Loop, NEW i \in 1..Len(added'[m]),
               NEW h \in Loop, NEW j \in 1..Len(added'[h]), added'[m][i] = added'[h][j]
        PROVE  m = h /\ i = j
    <3>1. \/ i \in 1..Len(added[m]) /\ added'[m][i] = added[m][i]
          \/ m = l /\ i = Len(added[l]) + 1 /\ added'[m][i] = e
      BY <1>11, Zenon
    <3>2. \/ j \in 1..Len(added[h]) /\ added'[h][j] = added[h][j]
          \/ h = l /\ j = Len(added[l]) + 1 /\ added'[h][j] = e
      BY <1>11, Zenon
    <3>3. CASE i \in 1..Len(added[m]) /\ j \in 1..Len(added[h]) /\ added[m][i] = added[h][j]
      BY <3>3, Zenon DEF PlaceInv, AddedInv
    <3> QED BY <2>2, <3>1, <3>2, <3>3, <1>10, Zenon
  <2> QED BY <2>1, <2>2, Zenon DEF AddedInv
<1>15. PolledInv'
  BY <1>1, <1>7, Zenon DEF PlaceInv, PolledInv, StillWaited
<1> QED BY <1>1, <1>6, <1>7, <1>8, <1>9, <1>13, <1>14, <1>15, Zenon DEF PlaceInv

LEMMA DispatchKeeps ==
    ASSUME IInv, NEW l \in Loop, Dispatch(l)
    PROVE  IInv'
<1> USE DEF IInv
<1>1. added \in [Loop -> Seq(Event)] /\ added[l] \in Seq(Event) /\ added[l] # <<>>
  BY Zenon DEF Dispatch, TypeOK
<1>2. PICK e \in Event : e = Head(added[l])
  BY <1>1
<1>3. /\ e = added[l][1] /\ 1 \in 1..Len(added[l]) /\ Tail(added[l]) \in Seq(Event)
      /\ \A i \in 1..Len(Tail(added[l])) :
           i + 1 \in 1..Len(added[l]) /\ i + 1 # 1 /\ Tail(added[l])[i] = added[l][i + 1]
      /\ \A i, j \in 1..Len(Tail(added[l])) : i + 1 = j + 1 => i = j
  BY <1>1, <1>2, Removed
<1>4. /\ e \in Waited /\ \A m \in Loop : <<m, e>> \notin polled
      /\ \A m \in Loop : \A i \in 1..Len(added[m]) : added[m][i] = e => m = l /\ i = 1
  BY <1>3 DEF PlaceInv, AddedInv
<1>5. Unfinished(e) /\ e \in Owned
  BY <1>4, Zenon DEF Waited, Owned
<1>6. /\ added' = [added EXCEPT ![l] = Tail(added[l])]
      /\ polled' = polled \cup {<<l, e>>} /\ fault' = fault
      /\ UNCHANGED <<status, kind, clients, closed, callbacks, answers, runQueue, running,
                     wpc, next, etype, executor, group, eventPool, capacity, groupKeys,
                     groupCounts>>
  BY <1>2, <1>5, Zenon DEF Dispatch, fibers, threads, events, groups
<1>7. TypeOK'
  BY <1>3, <1>6 DEF TypeOK
<1>8. FiberInv' /\ QueueInv' /\ PoolInv' /\ StillWaited
  BY <1>6, FibersSame, Zenon
<1>9. WorkerInv'
  BY <1>6, WorkersSame, Zenon
<1>10. GroupInv'
  BY <1>6, <1>8, GroupSame, Zenon DEF groups, Unfinished
<1>11. added'[l] = Tail(added[l]) /\ \A m \in Loop : m # l => added'[m] = added[m]
  BY <1>1, <1>6, Zenon
<1>12. \A m \in Loop : \A i \in 1..Len(added'[m]) :
         \E j \in 1..Len(added[m]) : /\ added'[m][i] = added[m][j] /\ added[m][j] # e
                                    /\ j = IF m = l THEN i + 1 ELSE i
  <2>1. ASSUME NEW i \in 1..Len(added'[l])
        PROVE  /\ i + 1 \in 1..Len(added[l]) /\ added'[l][i] = added[l][i + 1]
               /\ added[l][i + 1] # e
    BY <1>3, <1>4, <1>11, Zenon
  <2>2. ASSUME NEW m \in Loop, m # l, NEW i \in 1..Len(added'[m])
        PROVE  i \in 1..Len(added[m]) /\ added'[m][i] = added[m][i] /\ added[m][i] # e
    BY <1>4, <1>11, <2>2, Zenon
  <2> QED BY ONLY <2>1, <2>2, Zenon
<1>13. \A m \in Loop, d \in Event : <<m, d>> \in polled' <=> <<m, d>> \in polled \/ (m = l /\ d = e)
  BY <1>6, Zenon
<1>14. AheadInv'
  <2>1. \A t \in Worker, k \in Nat, d \in Event :
          Ahead(t, k, d)' => Ahead(t, k, d) /\ running'[t] = running[t]
    BY <1>6, Zenon DEF Ahead, Handing
  <2>2. ASSUME NEW t \in Worker, NEW k \in Nat, NEW d \in Event, Ahead(t, k, d) PROVE d # e
    <3>1. \A i \in 1..Len(added[l]) : added[l][i] # d
      BY <2>2, Zenon DEF PlaceInv, AheadInv
    <3> QED BY <3>1, <1>3, Zenon
  <2> SUFFICES ASSUME NEW t \in Worker, NEW k \in Nat, NEW d \in Event, Ahead(t, k, d)'
               PROVE  /\ d \in Waited' /\ executor'[d] = running'[t]
                      /\ \A m \in Loop : <<m, d>> \notin polled'
                      /\ \A m \in Loop : \A i \in 1..Len(added'[m]) : added'[m][i] # d
    BY Zenon DEF AheadInv
  <2>3. Ahead(t, k, d) /\ running'[t] = running[t] /\ d # e
    BY <2>1, <2>2, Zenon
  <2>4. /\ d \in Waited /\ executor[d] = running[t]
        /\ \A m \in Loop : <<m, d>> \notin polled
        /\ \A m \in Loop : \A i \in 1..Len(added[m]) : added[m][i] # d
    BY <2>3, Zenon DEF PlaceInv, AheadInv
  <2>5. \A m \in Loop : \A i \in 1..Len(added'[m]) : added'[m][i] # d
    BY ONLY <2>4, <1>12
  <2>6. \A m \in Loop : <<m, d>> \notin polled'
    BY ONLY <2>3, <2>4, <1>13, d \in Event, Zenon
  <2> QED BY <2>3, <2>4, <2>5, <2>6, <1>8, Zenon DEF StillWaited
<1>15. AddedInv'
  <2>1. ASSUME NEW m \in Loop, NEW i \in 1..Len(added'[m])
        PROVE  added'[m][i] \in Waited' /\ \A h \in Loop : <<h, added'[m][i]>> \notin polled'
    <3>1. PICK j \in 1..Len(added[m]) : added'[m][i] = added[m][j] /\ added[m][j] # e
      BY <1>12, Zenon
    <3>2. PICK d : d = added[m][j]
      BY Zenon
    <3>3. d \in Waited /\ d \in Event /\ \A h \in Loop : <<h, d>> \notin polled
      BY <3>2, Zenon DEF PlaceInv, AddedInv, Waited
    <3> QED BY <3>1, <3>2, <3>3, <1>8, <1>13, Zenon DEF StillWaited
  <2>2. ASSUME NEW m \in Loop, NEW i \in 1..Len(added'[m]),
               NEW h \in Loop, NEW j \in 1..Len(added'[h]), added'[m][i] = added'[h][j]
        PROVE  m = h /\ i = j
    <3>1. PICK a \in 1..Len(added[m]) : /\ added'[m][i] = added[m][a]
                                       /\ a = IF m = l THEN i + 1 ELSE i
      BY <1>12, Zenon
    <3>2. PICK b \in 1..Len(added[h]) : /\ added'[h][j] = added[h][b]
                                       /\ b = IF h = l THEN j + 1 ELSE j
      BY <1>12, Zenon
    <3>3. m = h /\ a = b
      <4>1. added[m][a] = added[h][b]
        BY <2>2, <3>1, <3>2, Zenon
      <4> QED BY <4>1, Zenon DEF PlaceInv, AddedInv
    <3>4. CASE m = l
      BY <3>1, <3>2, <3>3, <3>4, <1>3, <1>11, Zenon
    <3>5. CASE m # l
      BY <3>1, <3>2, <3>3, <3>5, Zenon
    <3> QED BY <3>4, <3>5, Zenon
  <2> QED BY <2>1, <2>2, Zenon DEF AddedInv
<1>16. PolledInv'
  BY <1>4, <1>8, <1>13, Zenon DEF PlaceInv, PolledInv, StillWaited
<1> QED BY <1>6, <1>7, <1>8, <1>9, <1>10, <1>14, <1>15, <1>16, Zenon DEF PlaceInv

-----------------------------------------------------------------------------
(***************************************************************************)
(* Group, as Actor uses it: the stack of keys and the counts agree, before *)
(* and after create and finish.                                            *)
(***************************************************************************)
GInv == G!GroupTypeOK /\ G!KeysExact

\* GInv of the members as given, not of the variables.
Exact(cap, keys, counts) ==
    /\ cap \in Nat \ {0}
    /\ keys \in Seq(1..cap)
    /\ counts \in [1..cap -> Nat]
    /\ \A i, j \in 1..Len(keys) : keys[i] = keys[j] => i = j
    /\ \A k \in 1..cap : counts[k] = 0 <=> \E i \in 1..Len(keys) : keys[i] = k

LEMMA GInvExact == GInv <=> Exact(capacity, groupKeys, groupCounts)
  BY Zenon DEF GInv, G!GroupTypeOK, G!KeysExact, Exact

\* increase(bound) pushes each key of bound..cap once.
LEMMA NewKeysExact ==
  ASSUME NEW cap \in Nat, NEW bound \in Nat \ {0}, bound <= cap
  PROVE  /\ G!NewKeys(cap, bound) \in Seq(bound..cap)
         /\ Len(G!NewKeys(cap, bound)) = cap - bound + 1
         /\ \A i \in 1..(cap - bound + 1) : G!NewKeys(cap, bound)[i] = cap - i + 1
  BY DEF G!NewKeys

\* Before create pops a key there is one, and the members agree; the counts of
\* the groups in use are what they were.
LEMMA RoomExact ==
  ASSUME GInv
  PROVE  /\ Exact(G!Room.cap, G!Room.keys, G!Room.counts)
         /\ G!Room.keys # <<>>
         /\ G!Room.cap >= capacity
         /\ \A k \in 1..capacity : G!Room.counts[k] = groupCounts[k]
         /\ \A k \in 1..G!Room.cap : k \notin 1..capacity => G!Room.counts[k] = 0
<1> USE DEF GInv, G!GroupTypeOK
<1>1. CASE groupKeys # <<>>
  BY <1>1 DEF G!Room, G!KeysExact, Exact
<1>2. CASE groupKeys = <<>>
  <2> DEFINE new == G!NewKeys(2 * capacity, capacity + 1)
  <2>1. G!Room = G!Increase(2 * capacity, capacity + 1, groupKeys, groupCounts)
    BY <1>2, Zenon DEF G!Room
  <2>2. /\ new \in Seq((capacity + 1)..(2 * capacity))
        /\ Len(new) = capacity
        /\ \A i \in 1..capacity : new[i] = 2 * capacity - i + 1
    <3>1. /\ 2 * capacity \in Nat /\ capacity + 1 \in Nat \ {0}
          /\ capacity + 1 <= 2 * capacity
          /\ 2 * capacity - (capacity + 1) + 1 = capacity
      OBVIOUS
    <3> HIDE DEF GInv, G!GroupTypeOK
    <3> QED BY <3>1, NewKeysExact, Zenon
  <2>3. <<>> \o new = new
    BY <2>2
  <2>4. /\ G!Room.cap = 2 * capacity
        /\ G!Room.keys = new
        /\ G!Room.counts = [k \in 1..(2 * capacity) |->
                            IF k \in 1..capacity THEN groupCounts[k] ELSE 0]
    BY <2>1, <2>3, <1>2, Zenon DEF G!Increase
  <2> HIDE DEF new
  <2>5. \A k \in 1..capacity : groupCounts[k] # 0
    BY <1>2 DEF G!KeysExact
  <2>6. new \in Seq(1..(2 * capacity))
    BY <2>2
  <2>7. \A k \in 1..(2 * capacity) :
          G!Room.counts[k] = 0 <=> \E i \in 1..Len(new) : new[i] = k
    <3> TAKE k \in 1..(2 * capacity)
    <3>1. CASE k \in 1..capacity
      BY <3>1, <2>2, <2>4, <2>5
    <3>2. CASE k \in (capacity + 1)..(2 * capacity)
      <4>1. /\ 2 * capacity - k + 1 \in 1..capacity
            /\ new[2 * capacity - k + 1] = k
        BY <3>2, <2>2
      <4>2. G!Room.counts[k] = 0
        BY <3>2, <2>4
      <4>3. Len(new) = capacity
        BY <2>2, Zenon
      <4>4. \E i \in 1..Len(new) : new[i] = k
        BY <4>1, <4>3, Zenon
      <4> QED BY <4>2, <4>4, Zenon
    <3>3. k \in 1..capacity \/ k \in (capacity + 1)..(2 * capacity)
      OBVIOUS
    <3> QED BY <3>1, <3>2, <3>3, Zenon
  <2>8. \A i, j \in 1..Len(new) : new[i] = new[j] => i = j
    BY <2>2
  <2>9. G!Room.counts \in [1..(2 * capacity) -> Nat]
    BY <2>4
  <2>10. Exact(G!Room.cap, G!Room.keys, G!Room.counts)
    <3>1. 2 * capacity \in Nat \ {0}
      OBVIOUS
    <3> QED BY ONLY <2>4, <2>6, <2>7, <2>8, <2>9, <3>1, Zenon DEF Exact
  <2>11. capacity \in Nat \ {0}
    BY Zenon
  <2>12. G!Room.keys # <<>>
    BY ONLY <2>2, <2>4, <2>11
  <2>13. /\ G!Room.cap >= capacity
         /\ \A k \in 1..capacity : G!Room.counts[k] = groupCounts[k]
         /\ \A k \in 1..G!Room.cap : k \notin 1..capacity => G!Room.counts[k] = 0
    BY ONLY <2>4, <2>11
  <2> QED BY ONLY <2>10, <2>12, <2>13, Zenon
<1> QED BY <1>1, <1>2, Zenon

\* Popping the top key and giving it a positive count keeps the members exact.
LEMMA PopExact ==
  ASSUME NEW cap, NEW keys, NEW counts, NEW n \in Nat \ {0},
         Exact(cap, keys, counts), keys # <<>>
  PROVE  Exact(cap, SubSeq(keys, 1, Len(keys) - 1),
               [counts EXCEPT ![keys[Len(keys)]] = n])
<1> USE DEF Exact
<1> DEFINE m    == Len(keys)
           rest == SubSeq(keys, 1, m - 1)
           top  == keys[m]
           cs   == [counts EXCEPT ![top] = n]
<1>0. keys \in Seq(1..cap) /\ keys # <<>>
  BY Zenon
<1>1. m \in Nat \ {0} /\ top \in 1..cap /\ \A i \in 1..m : keys[i] \in 1..cap
  BY ONLY <1>0, NonEmpty, Zenon
<1>2. \A i, j \in 1..m : keys[i] = keys[j] => i = j
  BY Zenon
<1>3. \A k \in 1..cap : counts[k] = 0 <=> \E i \in 1..m : keys[i] = k
  BY Zenon
<1>4. counts \in [1..cap -> Nat] /\ cap \in Nat \ {0}
  BY Zenon
<1> HIDE DEF Exact, m, top
<1>5. /\ rest \in Seq(1..cap) /\ Len(rest) = m - 1
      /\ \A i \in 1..(m - 1) : rest[i] = keys[i]
  BY ONLY <1>0, Shorter, Zenon DEF m, rest
<1> HIDE DEF rest
<1>6. cs \in [1..cap -> Nat]
  BY <1>1, <1>4, Zenon
<1>7. \A i, j \in 1..Len(rest) : rest[i] = rest[j] => i = j
  BY <1>1, <1>2, <1>5
<1>8. \A k \in 1..cap : cs[k] = 0 <=> \E i \in 1..Len(rest) : rest[i] = k
  <2> TAKE k \in 1..cap
  <2>1. CASE k = top
    <3>1. cs[k] = n
      BY <2>1, <1>1, <1>4, Zenon
    <3>2. \A i \in 1..(m - 1) : keys[i] # top
      BY <1>1, <1>2 DEF top
    <3> QED BY <3>1, <3>2, <2>1, <1>1, <1>5, Zenon
  <2>2. CASE k # top
    <3>1. cs[k] = counts[k]
      BY <2>2, <1>1, <1>4, Zenon
    <3>2. (\E i \in 1..m : keys[i] = k) <=> \E i \in 1..(m - 1) : keys[i] = k
      BY <2>2, <1>1 DEF top
    <3> QED BY <3>1, <3>2, <1>1, <1>3, <1>5, Zenon
  <2> QED BY <2>1, <2>2, Zenon
<1> QED BY <1>4, <1>5, <1>6, <1>7, <1>8, Zenon DEF Exact, m, top, rest

LEMMA InitExact == G!GroupInit => GInv
<1> SUFFICES ASSUME G!GroupInit PROVE Exact(capacity, groupKeys, groupCounts)
  BY GInvExact, Zenon
<1>1. /\ capacity = InitCapacity /\ capacity \in Nat \ {0}
      /\ groupKeys = G!NewKeys(capacity, 1)
      /\ groupCounts = [k \in 1..capacity |-> 0]
  BY ActorAssumption, Zenon DEF G!GroupInit
<1>2. capacity \in Nat /\ 1 \in Nat \ {0} /\ 1 <= capacity
  BY <1>1
<1>3. /\ groupKeys \in Seq(1..capacity)
      /\ Len(groupKeys) = capacity
      /\ \A i \in 1..capacity : groupKeys[i] = capacity - i + 1
  <2>1. /\ G!NewKeys(capacity, 1) \in Seq(1..capacity)
        /\ Len(G!NewKeys(capacity, 1)) = capacity - 1 + 1
        /\ \A i \in 1..(capacity - 1 + 1) : G!NewKeys(capacity, 1)[i] = capacity - i + 1
    BY ONLY <1>2, NewKeysExact, Zenon
  <2>2. capacity - 1 + 1 = capacity
    BY <1>2
  <2> QED BY ONLY <2>1, <2>2, <1>1, Zenon
<1>4. \A k \in 1..capacity : \E i \in 1..Len(groupKeys) : groupKeys[i] = k
  <2> TAKE k \in 1..capacity
  <2>1. capacity - k + 1 \in 1..Len(groupKeys)
    BY ONLY <1>2, <1>3, k \in 1..capacity
  <2>2. groupKeys[capacity - k + 1] = k
    BY ONLY <2>1, <1>2, <1>3, k \in 1..capacity
  <2> QED BY ONLY <2>1, <2>2, Zenon
<1>5. \A i, j \in 1..Len(groupKeys) : groupKeys[i] = groupKeys[j] => i = j
  BY ONLY <1>2, <1>3
<1>6. groupCounts \in [1..capacity -> Nat] /\ \A k \in 1..capacity : groupCounts[k] = 0
  BY <1>1, Zenon
<1> QED BY <1>1, <1>3, <1>4, <1>5, <1>6, Zenon DEF Exact

\* create makes a group of n events, with a key that no group in use has, and
\* leaves the other groups alone.
LEMMA CreateExact ==
  ASSUME GInv, NEW n \in Nat \ {0}, G!Create(n)
  PROVE  /\ GInv'
         /\ capacity \in Nat /\ capacity' \in Nat /\ capacity' >= capacity
         /\ G!NextKey \in 1..capacity' /\ groupCounts'[G!NextKey] = n
         /\ G!NextKey \in 1..capacity => groupCounts[G!NextKey] = 0
         /\ \A k \in 1..capacity' : k # G!NextKey =>
              /\ k \in 1..capacity => groupCounts'[k] = groupCounts[k]
              /\ k \notin 1..capacity => groupCounts'[k] = 0
<1>1. /\ Exact(G!Room.cap, G!Room.keys, G!Room.counts) /\ G!Room.keys # <<>>
      /\ G!Room.cap >= capacity
      /\ \A k \in 1..capacity : G!Room.counts[k] = groupCounts[k]
      /\ \A k \in 1..G!Room.cap : k \notin 1..capacity => G!Room.counts[k] = 0
  BY RoomExact, Zenon
<1>2. Exact(G!Room.cap, SubSeq(G!Room.keys, 1, Len(G!Room.keys) - 1),
            [G!Room.counts EXCEPT ![G!Room.keys[Len(G!Room.keys)]] = n])
  BY <1>1, PopExact, Zenon
<1>3. Exact(capacity', groupKeys', groupCounts')
  BY <1>2, Zenon DEF G!Create, G!NextKey
<1>4. GInv'
  BY <1>3, Zenon DEF GInv, G!GroupTypeOK, G!KeysExact, Exact
<1>5. /\ Len(G!Room.keys) \in 1..Len(G!Room.keys) /\ G!NextKey \in 1..G!Room.cap
      /\ G!NextKey = G!Room.keys[Len(G!Room.keys)]
  <2>1. G!Room.keys \in Seq(1..G!Room.cap)
    BY <1>1, Zenon DEF Exact
  <2> QED BY ONLY <1>1, <2>1, NonEmpty, Zenon DEF G!NextKey
<1>6. G!Room.counts[G!NextKey] = 0 /\ G!Room.counts \in [1..G!Room.cap -> Nat]
  <2>1. /\ G!Room.counts \in [1..G!Room.cap -> Nat]
        /\ \A k \in 1..G!Room.cap :
             G!Room.counts[k] = 0 <=> \E i \in 1..Len(G!Room.keys) : G!Room.keys[i] = k
    BY ONLY <1>1, Zenon DEF Exact
  <2> QED BY ONLY <1>5, <2>1, Zenon
<1>7. /\ capacity' = G!Room.cap
      /\ groupCounts' = [G!Room.counts EXCEPT ![G!NextKey] = n]
  BY Zenon DEF G!Create
<1>8. capacity \in Nat /\ G!Room.cap \in Nat
  BY <1>1, Zenon DEF Exact, GInv, G!GroupTypeOK
<1>9. \A k \in 1..G!Room.cap :
        groupCounts'[k] = IF k = G!NextKey THEN n ELSE G!Room.counts[k]
  BY <1>6, <1>7, Zenon
<1>10. G!NextKey \in 1..capacity => groupCounts[G!NextKey] = 0
  BY <1>1, <1>6, Zenon
<1> QED BY <1>1, <1>4, <1>5, <1>7, <1>8, <1>9, <1>10, Zenon

\* finish counts one event of its group, and leaves the other groups alone.
LEMMA FinishExact ==
  ASSUME GInv, NEW key \in 1..capacity, G!Finish(key)
  PROVE  /\ GInv' /\ capacity' = capacity /\ groupCounts'[key] = groupCounts[key] - 1
         /\ \A k \in 1..capacity : k # key => groupCounts'[k] = groupCounts[k]
<1> DEFINE m == Len(groupKeys)
<1>1. /\ capacity \in Nat \ {0} /\ groupCounts \in [1..capacity -> Nat]
      /\ groupKeys \in Seq(1..capacity) /\ m \in Nat
      /\ \A i \in 1..m : groupKeys[i] \in 1..capacity
  <2>1. /\ capacity \in Nat \ {0} /\ groupCounts \in [1..capacity -> Nat]
        /\ groupKeys \in Seq(1..capacity)
    BY Zenon DEF GInv, G!GroupTypeOK
  <2>2. m \in Nat /\ \A i \in 1..m : groupKeys[i] \in 1..capacity
    BY ONLY <2>1
  <2> QED BY ONLY <2>1, <2>2, Zenon
<1>2. /\ \A i, j \in 1..m : groupKeys[i] = groupKeys[j] => i = j
      /\ \A k \in 1..capacity : groupCounts[k] = 0 <=> \E i \in 1..m : groupKeys[i] = k
  BY Zenon DEF GInv, G!KeysExact
<1>3. /\ capacity' = capacity
      /\ groupCounts[key] > 0
      /\ groupCounts' = [groupCounts EXCEPT ![key] = @ - 1]
  BY Zenon DEF G!Finish
<1>4. /\ groupCounts' \in [1..capacity -> Nat]
      /\ groupCounts'[key] = groupCounts[key] - 1
      /\ \A k \in 1..capacity : k # key => groupCounts'[k] = groupCounts[k]
  BY <1>1, <1>3
<1>5. \A i \in 1..m : groupKeys[i] # key
  <2>1. groupCounts[key] # 0
    BY <1>1, <1>3
  <2> QED BY <2>1, <1>2, Zenon
<1>6. CASE G!IsLast(key)
  <2>1. groupKeys' = Append(groupKeys, key)
    BY <1>6, Zenon DEF G!Finish
  <2>2. /\ groupKeys' \in Seq(1..capacity)
        /\ Len(groupKeys') = m + 1
        /\ \A i \in 1..m : groupKeys'[i] = groupKeys[i]
        /\ groupKeys'[m + 1] = key
    BY <2>1, <1>1
  <2>3. groupCounts'[key] = 0
    BY <1>1, <1>3, <1>4, <1>6 DEF G!IsLast
  <2> HIDE DEF m
  <2>4. \A i, j \in 1..Len(groupKeys') : groupKeys'[i] = groupKeys'[j] => i = j
    <3> TAKE i, j \in 1..Len(groupKeys')
    <3>1. (i \in 1..m \/ i = m + 1) /\ (j \in 1..m \/ j = m + 1)
      BY <2>2, <1>1
    <3> QED BY <3>1, <2>2, <1>2, <1>5
  <2>5. \A k \in 1..capacity :
          groupCounts'[k] = 0 <=> \E i \in 1..Len(groupKeys') : groupKeys'[i] = k
    <3> TAKE k \in 1..capacity
    <3>1. (\E i \in 1..Len(groupKeys') : groupKeys'[i] = k)
            <=> k = key \/ \E i \in 1..m : groupKeys[i] = k
      <4>1. \A i : i \in 1..Len(groupKeys') <=> i \in 1..m \/ i = m + 1
        BY ONLY <2>2, <1>1
      <4>2. /\ \A i \in 1..m : groupKeys'[i] = groupKeys[i]
            /\ groupKeys'[m + 1] = key
        BY ONLY <2>2, Zenon
      <4> QED BY ONLY <4>1, <4>2, Zenon
    <3> QED BY <3>1, <2>3, <1>2, <1>4, Zenon
  <2> QED BY <1>1, <1>3, <1>4, <2>2, <2>4, <2>5, Zenon DEF GInv, G!GroupTypeOK, G!KeysExact
<1>7. CASE ~G!IsLast(key)
  <2>1. groupKeys' = groupKeys
    BY <1>7, Zenon DEF G!Finish
  <2>2. groupCounts'[key] # 0
    BY <1>1, <1>3, <1>4, <1>7 DEF G!IsLast
  <2>3. \A k \in 1..capacity : groupCounts'[k] = 0 <=> \E i \in 1..m : groupKeys[i] = k
    BY <2>2, <1>2, <1>4, <1>5, Zenon
  <2> QED BY <1>1, <1>2, <1>3, <1>4, <2>1, <2>3, Zenon DEF GInv, G!GroupTypeOK, G!KeysExact
<1> QED BY <1>6, <1>7, Zenon

-----------------------------------------------------------------------------
(***************************************************************************)
(* The initial states, and the steps that change the Group.                *)
(***************************************************************************)

LEMMA InitIInv == Init => IInv
<1> SUFFICES ASSUME Init PROVE IInv
  BY Zenon
<1> USE DEF Init
<1>1. TypeOK
  BY DEF TypeOK
<1>2. FiberInv
  BY DEF FiberInv, FiberOK
<1>3. WorkerInv /\ QueueInv
  BY DEF WorkerInv, QueueInv, Handing
<1>4. PlaceInv
  BY DEF PlaceInv, AheadInv, AddedInv, PolledInv, Ahead, Handing
<1>5. GInv /\ \A k \in 1..capacity : groupCounts[k] = 0
  <2>1. G!GroupInit
    BY Zenon
  <2> QED BY <2>1, InitExact, Zenon DEF G!GroupInit
<1>6. \A k \in 1..capacity : groupCounts[k] = Cardinality({e \in Event : group[e] = k})
  <2> TAKE k \in 1..capacity
  <2>1. {e \in Event : group[e] = k} = {}
    <3>1. k # 0
      BY <1>5 DEF GInv, G!GroupTypeOK
    <3> QED BY <3>1, Zenon
  <2> QED BY <2>1, <1>5, EventSets, Zenon
<1>7. GroupInv
  BY <1>5, <1>6, Zenon DEF GroupInv, GInv, GroupCountExact
<1>8. PoolInv
  BY Zenon DEF PoolInv
<1> QED BY <1>1, <1>2, <1>3, <1>4, <1>7, <1>8, Zenon DEF IInv

\* The new group has exactly the fiber's clients.
LEMMA YieldMultiKeeps ==
    ASSUME IInv, NEW t \in Worker, YieldMulti(t)
    PROVE  IInv'
<1> USE DEF IInv
<1>1. PICK f \in Fiber : /\ f = running[t] /\ status[f] = "RUNNING"
                        /\ \A e \in Waited : executor[e] # f
  BY RunningFiber, Zenon DEF YieldMulti, InFiber
<1>2. PICK es \in SUBSET Event : es = clients[f]
  BY Zenon DEF TypeOK
<1>3. PICK key : key = G!NextKey
  BY Zenon
<1>4. /\ wpc[t] = "fiber" /\ Leave(t, "BLOCK", "advance")
      /\ es # {} /\ \A e \in es : Unfinished(e) /\ group[e] = 0
      /\ G!Create(Cardinality(es))
      /\ group' = [e \in Event |-> IF e \in es THEN key ELSE group[e]]
  BY <1>1, <1>2, <1>3, Zenon DEF YieldMulti, InFiber
<1>5. GInv /\ GroupCountExact
  BY Zenon DEF GroupInv, GroupCountExact, GInv
<1>6. /\ GInv' /\ capacity \in Nat /\ capacity' \in Nat /\ capacity' >= capacity
      /\ key \in 1..capacity' /\ groupCounts'[key] = Cardinality(es)
      /\ key \in 1..capacity => groupCounts[key] = 0
      /\ \A k \in 1..capacity' : k # key =>
           /\ k \in 1..capacity => groupCounts'[k] = groupCounts[k]
           /\ k \notin 1..capacity => groupCounts'[k] = 0
  <2>1. Cardinality(es) \in Nat \ {0}
    BY <1>4, EventSets, Zenon
  <2> QED BY <1>3, <1>4, <1>5, <2>1, CreateExact, Zenon
<1>7. \A e \in Event : /\ group[e] \in Nat
                       /\ group[e] # 0 => group[e] \in 1..capacity
                       /\ group'[e] = IF e \in es THEN key ELSE group[e]
  BY <1>4, <1>6 DEF TypeOK, GroupInv
<1>8. \A e \in Event : group[e] # key
  <2> SUFFICES ASSUME NEW e \in Event, group[e] = key PROVE FALSE
    BY Zenon
  <2>1. key \in 1..capacity /\ groupCounts[key] = 0
    <3>1. key # 0
      BY ONLY <1>6
    <3> QED BY ONLY <1>6, <1>7, <3>1, group[e] = key, Zenon
  <2>2. Cardinality({d \in Event : group[d] = key}) = 0
    BY <1>5, <2>1, Zenon DEF GroupCountExact
  <2>3. {d \in Event : group[d] = key} = {}
    BY <2>2, EventSets, Zenon
  <2> QED BY <2>3, Zenon
<1>9. /\ fault' = "none" /\ TypeOK' /\ FiberInv' /\ WorkerInv' /\ QueueInv'
      /\ PlaceInv' /\ PoolInv' /\ StillWaited
      /\ \A e \in es : e \in Waited' /\ executor'[e] = f
  <2>1. group' \in [Event -> Nat]
    <3>1. key \in Nat /\ \A e \in Event : group[e] \in Nat
      BY ONLY <1>6, <1>7
    <3> QED BY ONLY <1>4, <3>1, Zenon
  <2> QED BY <1>1, <1>2, <1>4, <2>1, BlockKeeps, Zenon
<1>10. \A k \in 1..capacity' : groupCounts'[k] = Cardinality({e \in Event : group'[e] = k})
  <2> TAKE k \in 1..capacity'
  <2>1. CASE k = key
    <3>1. {e \in Event : group'[e] = k} = es
      BY <1>7, <1>8, <2>1, Zenon
    <3> QED BY <3>1, <2>1, <1>6, Zenon
  <2>2. CASE k # key
    <3>1. {e \in Event : group'[e] = k} = {e \in Event : group[e] = k}
      <4>1. k # 0
        BY <1>6
      <4> QED BY <1>4, <1>7, <2>2, <4>1, Zenon
    <3>2. CASE k \in 1..capacity
      BY <1>5, <1>6, <2>2, <3>1, <3>2, Zenon DEF GroupCountExact
    <3>3. CASE k \notin 1..capacity
      <4>1. {e \in Event : group[e] = k} = {}
        <5>1. k # 0
          BY <1>6
        <5> QED BY <1>7, <3>3, <5>1, Zenon
      <4>2. Cardinality({e \in Event : group[e] = k}) = 0
        BY <4>1, EventSets, Zenon
      <4> QED BY <1>6, <2>2, <3>1, <3>3, <4>2, Zenon
    <3> QED BY <3>2, <3>3, Zenon
  <2> QED BY <2>1, <2>2, Zenon
<1>11. G!GroupTypeOK' /\ GroupCountExact'
  BY <1>6, <1>10, Zenon DEF GInv, GroupCountExact
<1>12. \A e \in Event : group'[e] # 0 => group'[e] <= capacity' /\ e \in Waited'
  <2> TAKE e \in Event
  <2>1. CASE e \in es
    BY <1>6, <1>7, <1>9, <2>1
  <2>2. CASE e \notin es
    <3>1. group'[e] = group[e] /\ group[e] \in Nat
      BY <1>7, <2>2, Zenon
    <3>2. group[e] # 0 => group[e] <= capacity /\ e \in Waited
      BY Zenon DEF GroupInv
    <3> QED BY <3>1, <3>2, <1>6, <1>9 DEF StillWaited
  <2> QED BY <2>1, <2>2, Zenon
<1>13. \A d, e \in Event : group'[d] # 0 /\ group'[d] = group'[e] => executor'[d] = executor'[e]
  <2>1. /\ \A e \in Event : group[e] # 0 => e \in Waited
        /\ \A d, e \in Event : group[d] # 0 /\ group[d] = group[e] => executor[d] = executor[e]
    BY Zenon DEF GroupInv
  <2>2. /\ \A e \in Waited : executor'[e] = executor[e]
        /\ \A e \in es : executor'[e] = f
    BY <1>1, <1>2, <1>9, Zenon DEF StillWaited
  <2> QED BY ONLY <1>7, <1>8, <2>1, <2>2
<1>14. \A g \in Fiber : status'[g] = "BLOCK" =>
         \A d, e \in clients'[g] : Unfinished(d)' /\ Unfinished(e)' =>
              group'[d] = group'[e] /\ (group'[d] = 0 => d = e)
  <2>1. /\ UNCHANGED <<clients, etype>>
        /\ \A g \in Fiber : g # f => status'[g] = status[g] /\ \A e \in clients[g] : e \notin es
    BY <1>1, <1>2, <1>4 DEF Leave, TypeOK, FiberInv, FiberOK
  <2>2. key # 0
    BY <1>6
  <2>3. \A g \in Fiber : clients[g] \subseteq Event
    BY Zenon DEF TypeOK
  <2>4. ASSUME NEW g \in Fiber, status'[g] = "BLOCK", NEW d \in clients'[g],
               NEW e \in clients'[g], Unfinished(d)', Unfinished(e)'
        PROVE  group'[d] = group'[e] /\ (group'[d] = 0 => d = e)
    <3>1. /\ d \in Event /\ d \in clients[g] /\ Unfinished(d)
          /\ e \in Event /\ e \in clients[g] /\ Unfinished(e)
      BY <2>1, <2>3, <2>4, Zenon DEF Unfinished
    <3>2. CASE g = f
      BY ONLY <1>2, <1>7, <2>2, <3>1, <3>2, Zenon
    <3>3. CASE g # f
      <4>1. status[g] = "BLOCK" /\ group'[d] = group[d] /\ group'[e] = group[e]
        BY ONLY <1>7, <2>1, <2>4, <3>1, <3>3, Zenon
      <4>2. group[d] = group[e] /\ (group[d] = 0 => d = e)
        BY <3>1, <4>1, Zenon DEF GroupInv
      <4> QED BY ONLY <4>1, <4>2, Zenon
    <3> QED BY ONLY <3>2, <3>3, Zenon
  <2> QED BY ONLY <2>4, Zenon
<1>15. GroupInv'
  BY <1>11, <1>12, <1>13, <1>14, Zenon DEF GroupInv
<1> QED BY <1>9, <1>15, Zenon

\* The group's other events are other unfinished clients of the same fiber: the
\* last one to finish makes the fiber runnable, when all of them are finished.
LEMMA DoneKeeps ==
    ASSUME IInv, NEW l \in Loop, NEW e \in Event, Done(l, e)
    PROVE  IInv'
<1> USE DEF IInv
<1>1. <<l, e>> \in polled /\ e \in Waited
  BY Zenon DEF Done, PlaceInv, PolledInv
<1>2. PICK f \in Fiber : /\ f = executor[e] /\ e \in clients[f] /\ status[f] = "BLOCK"
                        /\ Unfinished(e)
  BY <1>1, Zenon DEF Waited
<1>3. PICK g \in Nat : g = group[e]
  BY Zenon DEF TypeOK
<1>4. GInv /\ GroupCountExact /\ capacity \in Nat
  BY Zenon DEF GroupInv, GroupCountExact, GInv, G!GroupTypeOK
<1>5. PICK es \in SUBSET Event : es = {d \in Event : group[d] = g}
  BY Zenon
<1>6. g # 0 => /\ g \in 1..capacity /\ groupCounts[g] = Cardinality(es)
               /\ groupCounts[g] \in Nat \ {0}
  <2> SUFFICES ASSUME g # 0
               PROVE  /\ g \in 1..capacity /\ groupCounts[g] = Cardinality(es)
                      /\ groupCounts[g] \in Nat \ {0}
    BY Zenon
  <2>1. g \in 1..capacity
    BY <1>3, <1>4 DEF GroupInv
  <2>2. groupCounts[g] = Cardinality(es)
    BY <1>4, <1>5, <2>1, Zenon DEF GroupCountExact
  <2>3. e \in es
    BY <1>3, <1>5, Zenon
  <2> QED BY <2>1, <2>2, <2>3, EventSets
<1>7. e \in Owned /\ executor[e] # None /\ status[f] # "deleted" /\ f = executor[e]
  BY <1>2, ActorAssumption, Zenon DEF Owned
<1>8. /\ polled' = polled \ {<<l, e>>} /\ group' = [group EXCEPT ![e] = 0]
      /\ IF g = 0 THEN UNCHANGED groups ELSE G!Finish(g)
      /\ runQueue' = IF g = 0 \/ G!IsLast(g) THEN Append(runQueue, f) ELSE runQueue
      /\ UNCHANGED <<status, kind, clients, closed, callbacks, answers, running, wpc, next,
                     executor, added, eventPool, fault>>
  <2>1. g # 0 => groupCounts[g] > 0 /\ groupCounts[g] # 0
    BY <1>6
  <2> QED BY <1>3, <1>7, <2>1, Zenon DEF Done, Execute, ExecuteClient, fibers, threads
<1>9. PICK result \in {"READED", "FAIL"} : etype' = [etype EXCEPT ![e] = result]
  BY <1>2, Zenon DEF Done
<1>10. /\ \A d \in Event : d # e => etype'[d] = etype[d] /\ group'[d] = group[d]
       /\ etype'[e] = result /\ group'[e] = 0
  BY <1>8, <1>9, Zenon DEF TypeOK
<1>11. \A d \in Event : Unfinished(d)' <=> Unfinished(d) /\ d # e
  BY <1>10, Zenon DEF Unfinished
<1>12. \A h \in Fiber : /\ clients[h] \subseteq Event
                        /\ e \in clients[h] => h = f
  BY <1>2 DEF TypeOK, FiberInv, FiberOK
<1>13. runQueue' = runQueue \/ runQueue' = Append(runQueue, f)
  BY <1>8, Zenon
<1>14. TypeOK'
  <2>1. etype' \in [Event -> {"new", "CONNECT", "TOWRITE", "READED", "FAIL"}]
    BY <1>9, Zenon DEF TypeOK
  <2>2. group' \in [Event -> Nat]
    BY <1>8, Zenon DEF TypeOK
  <2>3. runQueue' \in Seq(Fiber)
    BY <1>13, QueueTypes
  <2>4. polled' \subseteq Loop \X Event
    BY <1>8, Zenon DEF TypeOK
  <2> QED BY <1>8, <2>1, <2>2, <2>3, <2>4, Zenon DEF TypeOK
<1>15. FiberInv' /\ PoolInv'
  <2>1. etype'[e] # "new"
    BY <1>10, Zenon
  <2>2. FiberInv'
    <3>1. ASSUME NEW h \in Fiber, h # f PROVE FiberOK(h)'
      <4>1. FiberOK(h) /\ \A d \in clients[h] : etype'[d] = etype[d]
        BY <1>10, <1>12, <3>1, Zenon DEF FiberInv
      <4> QED BY <1>8, <4>1, FiberSame, Zenon
    <3>2. \A d \in clients[f] : executor'[d] = f /\ etype'[d] # "new"
      BY <1>8, <1>10, <1>12, <2>1, Zenon DEF FiberInv, FiberOK
    <3>3. FiberOK(f)'
      <4>1. /\ FiberOK(f) /\ status[f] = "BLOCK" /\ status' = status /\ clients' = clients
            /\ closed' = closed /\ callbacks' = callbacks /\ answers' = answers
        BY <1>2, <1>8, Zenon DEF FiberInv
      <4> QED BY ONLY <3>2, <4>1 DEF FiberOK
    <3> QED BY <3>1, <3>3, Zenon DEF FiberInv
  <2>3. eventPool \subseteq Event
    BY Zenon DEF TypeOK
  <2>4. PoolInv'
    BY <1>8, <1>10, <2>1, <2>3, Zenon DEF PoolInv
  <2> QED BY <2>2, <2>4, Zenon
<1>16. WorkerInv'
  BY <1>8, <1>11, <1>12, Zenon DEF WorkerInv, Handing
<1>17. \A d \in Waited : d # e => d \in Waited' /\ executor'[d] = executor[d]
  BY <1>8, <1>11, Zenon DEF Waited
<1>18. QueueInv'
  <2>1. \A i \in 1..Len(runQueue) : runQueue[i] \in Fiber /\ runQueue[i] # f
    BY <1>2, QueueTypes, Zenon DEF QueueInv
  <2>2. \A i \in 1..Len(runQueue) : /\ status'[runQueue[i]] \in {"INIT", "BLOCK"}
                                    /\ \A d \in clients'[runQueue[i]] : ~Unfinished(d)'
    BY <1>8, <1>11, <1>12, <2>1, Zenon DEF QueueInv
  <2>3. CASE runQueue' = runQueue
    BY <2>2, <2>3, Zenon DEF QueueInv
  <2>4. CASE runQueue' = Append(runQueue, f) /\ (g = 0 \/ G!IsLast(g))
    <3>1. ASSUME NEW d \in clients[f], Unfinished(d)' PROVE FALSE
      <4>1. d \in Event /\ d # e /\ Unfinished(d)
        BY <1>11, <1>12, <3>1, Zenon
      <4>2. group[d] = g /\ g # 0
        BY <1>2, <1>3, <4>1, Zenon DEF GroupInv
      <4>3. Cardinality(es) \in Nat \ {0} /\ Cardinality(es) <= 1
        BY <1>6, <2>4, <4>2, Zenon DEF G!IsLast
      <4>4. d \in es /\ e \in es
        BY <1>3, <1>5, <4>1, <4>2, Zenon
      <4>5. Cardinality(es) = 1
        BY ONLY <4>3, SMT
      <4> QED BY <4>1, <4>4, <4>5, EventSets, Zenon
    <3>2. \A i \in 1..Len(runQueue') : \/ i \in 1..Len(runQueue) /\ runQueue'[i] = runQueue[i]
                                       \/ i = Len(runQueue) + 1 /\ runQueue'[i] = f
      BY ONLY <2>4, TypeOK, QueueTypes, Appended, f \in Fiber
    <3>3. \A i, j \in 1..Len(runQueue') : runQueue'[i] = runQueue'[j] => i = j
      BY <2>1, <3>2, Zenon DEF QueueInv
    <3>4. status'[f] = "BLOCK" /\ clients'[f] = clients[f]
      BY <1>2, <1>8, Zenon
    <3> QED BY <2>2, <3>1, <3>2, <3>3, <3>4, Zenon DEF QueueInv
  <2> QED BY <1>8, <2>3, <2>4, Zenon
<1>19. PlaceInv'
  <2>1. \A m \in Loop, d \in Event : <<m, d>> \in polled' => <<m, d>> \in polled /\ d # e
    BY <1>1, <1>8, Zenon DEF PlaceInv, PolledInv
  <2>2. AheadInv'
    <3>1. ASSUME NEW t \in Worker, NEW k \in Nat, NEW d \in Event, Ahead(t, k, d)'
          PROVE  Ahead(t, k, d) /\ running'[t] = running[t]
      BY <1>8, <3>1, Zenon DEF Ahead, Handing
    <3>2. ASSUME NEW t \in Worker, NEW k \in Nat, NEW d \in Event, Ahead(t, k, d) PROVE d # e
      BY <1>1, <3>2, Zenon DEF PlaceInv, AheadInv
    <3>3. AheadInv /\ added' = added
      BY <1>8, Zenon DEF PlaceInv
    <3> QED BY ONLY <1>17, <2>1, <3>1, <3>2, <3>3 DEF AheadInv
  <2>3. AddedInv'
    <3>1. \A m \in Loop : \A i \in 1..Len(added[m]) : added[m][i] # e
      BY <1>1, Zenon DEF PlaceInv, AddedInv
    <3>2. AddedInv /\ added' = added /\ polled' \subseteq polled
      BY <1>8, Zenon DEF PlaceInv
    <3> QED BY ONLY <1>17, <3>1, <3>2 DEF AddedInv
  <2>4. PolledInv'
    BY <1>17, <2>1, Zenon DEF PlaceInv, PolledInv
  <2> QED BY <2>2, <2>3, <2>4, Zenon DEF PlaceInv
<1>20. /\ GInv' /\ capacity' = capacity
       /\ \A k \in 1..capacity : k # g => groupCounts'[k] = groupCounts[k]
       /\ g # 0 => groupCounts'[g] = groupCounts[g] - 1
  <2>1. CASE g = 0
    BY <1>4, <1>8, <2>1, Zenon DEF groups, GInv, G!GroupTypeOK, G!KeysExact
  <2>2. CASE g # 0
    BY <1>4, <1>6, <1>8, <2>2, FinishExact, Zenon
  <2> QED BY <2>1, <2>2, Zenon
<1>21. \A k \in 1..capacity : groupCounts'[k] = Cardinality({d \in Event : group'[d] = k})
  <2> TAKE k \in 1..capacity
  <2>1. k # 0
    BY <1>4
  <2>2. CASE k = g
    <3>1. {d \in Event : group'[d] = k} = es \ {e}
      BY <1>5, <1>10, <2>1, <2>2, Zenon
    <3>2. e \in es
      BY <1>3, <1>5, Zenon
    <3>3. Cardinality(es \ {e}) = Cardinality(es) - 1
      BY <3>2, EventSets, Zenon
    <3> QED BY <1>6, <1>20, <2>1, <2>2, <3>1, <3>3, Zenon
  <2>3. CASE k # g
    <3>1. {d \in Event : group'[d] = k} = {d \in Event : group[d] = k}
      BY <1>3, <1>10, <2>1, <2>3, Zenon
    <3> QED BY <1>4, <1>20, <2>3, <3>1, Zenon DEF GroupCountExact
  <2> QED BY <2>2, <2>3, Zenon
<1>22. GroupInv'
  <2>1. G!GroupTypeOK' /\ GroupCountExact'
    BY <1>20, <1>21, Zenon DEF GInv, GroupCountExact
  <2>2. \A d \in Event : group'[d] # 0 => group'[d] = group[d] /\ d # e
    BY <1>10, Zenon
  <2>3. \A d \in Event : group'[d] # 0 => group'[d] <= capacity' /\ d \in Waited'
    BY <1>17, <1>20, <2>2, Zenon DEF GroupInv
  <2>4. \A c, d \in Event : group'[c] # 0 /\ group'[c] = group'[d] => executor'[c] = executor'[d]
    <3>1. /\ executor' = executor
          /\ \A c, d \in Event : group[c] # 0 /\ group[c] = group[d] => executor[c] = executor[d]
      BY <1>8, Zenon DEF GroupInv
    <3> QED BY ONLY <2>2, <3>1
  <2>5. \A h \in Fiber : status'[h] = "BLOCK" =>
           \A c, d \in clients'[h] : Unfinished(c)' /\ Unfinished(d)' =>
                group'[c] = group'[d] /\ (group'[c] = 0 => c = d)
    <3>1. ASSUME NEW h \in Fiber, status'[h] = "BLOCK", NEW c \in clients'[h],
                 NEW d \in clients'[h], Unfinished(c)', Unfinished(d)'
          PROVE  group'[c] = group'[d] /\ (group'[c] = 0 => c = d)
      <4>1. status[h] = "BLOCK" /\ c \in clients[h] /\ d \in clients[h]
        BY <1>8, <3>1, Zenon
      <4>2. /\ c \in Event /\ c # e /\ Unfinished(c)
            /\ d \in Event /\ d # e /\ Unfinished(d)
        BY <1>11, <1>12, <3>1, <4>1, Zenon
      <4>3. group[c] = group[d] /\ (group[c] = 0 => c = d)
        BY <4>1, <4>2, Zenon DEF GroupInv
      <4> QED BY ONLY <1>10, <4>2, <4>3, Zenon
    <3> QED BY <3>1, Zenon
  <2> QED BY <2>1, <2>3, <2>4, <2>5, Zenon DEF GroupInv
<1> QED BY <1>8, <1>14, <1>15, <1>16, <1>18, <1>19, <1>22, Zenon

-----------------------------------------------------------------------------
(***************************************************************************)
(* The theorems, for every number of requests, clients, threads and loops  *)
(* and with or without kept-alive clients.  What the other kinds of        *)
(* handlers lead to, the runs MCActor_again and MCActor_callback show.     *)
(***************************************************************************)

\* Every step of a CPU thread, of a loop or of an arriving request keeps IInv.
LEMMA StepIInv ==
    ASSUME Disciplined, IInv, [Next]_vars
    PROVE  IInv'
<1>1. ~CallbackMode /\ ~Again
  BY Zenon DEF Disciplined
<1>2. CASE UNCHANGED vars
  <2>1. UNCHANGED <<status, kind, clients, closed, callbacks, answers, runQueue, running, wpc,
                    next, etype, executor, group, added, polled, eventPool, capacity,
                    groupKeys, groupCounts, fault>>
    BY <1>2, Zenon DEF vars, fibers, threads, events, loops, groups
  <2>2. TypeOK'
    BY <2>1, Zenon DEF IInv, TypeOK
  <2>3. FiberInv' /\ QueueInv' /\ PoolInv' /\ StillWaited
    BY <2>1, FibersSame, Zenon DEF IInv
  <2>4. WorkerInv'
    BY <2>1, WorkersSame, Zenon DEF IInv
  <2>5. PlaceInv'
    BY <2>1, <2>3, PlaceSame, Zenon DEF IInv, Ahead, Handing
  <2>6. GroupInv'
    BY <2>1, <2>3, GroupSame, Zenon DEF IInv, groups, Unfinished
  <2> QED BY <2>1, <2>2, <2>3, <2>4, <2>5, <2>6, Zenon DEF IInv
<1>3. ASSUME NEW f \in Fiber, Request(f) PROVE IInv'
  BY <1>3, RequestKeeps, Zenon
<1>4. ASSUME NEW t \in Worker, WorkerStep(t) PROVE IInv'
  <2>1. ~FetchNoWait(t)
    BY <1>1, Zenon DEF FetchNoWait
  <2> QED BY <1>1, <1>4, <2>1, RunKeeps, CallbackKeeps, AdvanceKeeps, ScheduleKeeps,
             ConnectKeeps, ReuseKeeps, DiscardKeeps, FetchKeeps, YieldMultiKeeps,
             CloseKeeps, ExitKeeps, Zenon
          DEF WorkerStep, FiberStep
<1>5. ASSUME NEW l \in Loop, LoopStep(l) PROVE IInv'
  BY <1>5, DispatchKeeps, DoneKeeps, Zenon DEF LoopStep
<1> QED BY <1>2, <1>3, <1>4, <1>5, Zenon DEF Next

\* IInv holds throughout.
LEMMA ActorInvariance == ASSUME Disciplined PROVE Spec => []IInv
<1>1. IInv /\ [Next]_vars => IInv'
  BY StepIInv, Zenon
<1> QED BY InitIInv, <1>1, PTL DEF Spec

\* No freed event and no deleted fiber is used, and no assertion of Fiber or Group
\* fails and no exception leaves a fiber: Fiber, Executor and Event keep raw
\* pointers to one another.
THEOREM ActorNoFault == ASSUME Disciplined PROVE Spec => []NoFault
<1>1. IInv => NoFault
  BY Zenon DEF IInv, NoFault
<1> QED BY <1>1, ActorInvariance, PTL

\* FiberManager::run never gets a fiber that another thread runs or that is queued
\* twice: fibers need no lock.
THEOREM ActorFiberExclusive == ASSUME Disciplined PROVE Spec => []FiberExclusive
<1>1. ASSUME IInv PROVE FiberExclusive
  <2>1. DOMAIN runQueue = 1..Len(runQueue)
    BY <1>1 DEF IInv, TypeOK
  <2>2. \A i \in 1..Len(runQueue), t \in Worker :
          wpc[t] \in {"fiber", "schedule"} => running[t] # runQueue[i]
    BY <1>1, Zenon DEF IInv, WorkerInv, QueueInv
  <2> QED BY <1>1, <2>1, <2>2, Zenon DEF IInv, WorkerInv, QueueInv, FiberExclusive
<1> QED BY <1>1, ActorInvariance, PTL

\* While a loop has a client event, the fiber that waits for it is blocked: the
\* loop and the handler never use an event or its client at the same time.
THEOREM ActorLoopOwns == ASSUME Disciplined PROVE Spec => []LoopOwns
<1>1. ASSUME IInv PROVE LoopOwns
  <2>1. DOMAIN runQueue = 1..Len(runQueue) /\ \A l \in Loop : DOMAIN added[l] = 1..Len(added[l])
    BY <1>1 DEF IInv, TypeOK
  <2>2. ASSUME NEW l \in Loop, NEW e \in Event,
               <<l, e>> \in polled \/ \E i \in DOMAIN added[l] : added[l][i] = e
        PROVE  e \in Waited
    BY <1>1, <2>1, <2>2 DEF IInv, PlaceInv, AddedInv, PolledInv
  <2>3. \A e \in Waited, f \in Fiber : e \in clients[f] =>
          status[f] = "BLOCK" /\ \A i \in 1..Len(runQueue) : runQueue[i] # f
    BY <1>1, Zenon DEF IInv, FiberInv, FiberOK, QueueInv, Waited
  <2> QED BY <2>1, <2>2, <2>3, Zenon DEF LoopOwns
<1> QED BY <1>1, ActorInvariance, PTL

\* A fiber that waits for a group is not resumed before its last event.
THEOREM ActorWokenWhole == ASSUME Disciplined PROVE Spec => []WokenWhole
<1>1. IInv => WokenWhole
  BY Zenon DEF IInv, WokenWhole, InFiber, WorkerInv, FiberInv, FiberOK
<1> QED BY <1>1, ActorInvariance, PTL

\* A group counts exactly its unfinished events, however often the Group's
\* capacity doubled, and its key is available exactly when there are none.
THEOREM ActorGroupCountExact == ASSUME Disciplined PROVE Spec => []GroupCountExact
<1>1. IInv => GroupCountExact
  BY Zenon DEF IInv, GroupInv
<1> QED BY <1>1, ActorInvariance, PTL

\* An event in the EventPool is in no loop, waits for none and belongs to no client.
THEOREM ActorPoolIdle == ASSUME Disciplined PROVE Spec => []PoolIdle
<1>1. ASSUME IInv PROVE PoolIdle
  <2>1. eventPool \subseteq Event
    BY <1>1, Zenon DEF IInv, TypeOK
  <2>2. \A e \in Waited : \E f \in Fiber : e \in clients[f]
    BY Zenon DEF Waited
  <2>3. \A e \in eventPool : e \notin Waited
    BY <1>1, <2>1, <2>2, Zenon DEF IInv, PoolInv
  <2>4. \A l \in Loop : \A i \in 1..Len(added[l]) : added[l][i] \in Waited
    BY <1>1, Zenon DEF IInv, PlaceInv, AddedInv
  <2>5. \A e \in eventPool : \A f \in Fiber : e \notin clients[f]
    BY <1>1, Zenon DEF IInv, PoolInv
  <2>6. \A e \in eventPool : \A l \in Loop : <<l, e>> \notin polled
    BY <1>1, <2>1, <2>3, Zenon DEF IInv, PlaceInv, PolledInv
  <2> QED BY <2>3, <2>4, <2>5, <2>6, Zenon DEF PoolIdle
<1> QED BY <1>1, ActorInvariance, PTL

\* No request is answered before its fiber is deleted, and none twice: schedule()
\* adds the server event once.
THEOREM ActorAnsweredOnce ==
    ASSUME Disciplined
    PROVE  Spec => [](\A f \in Fiber : answers[f] = IF status[f] = "deleted" THEN 1 ELSE 0)
<1>1. IInv => \A f \in Fiber : answers[f] = IF status[f] = "deleted" THEN 1 ELSE 0
  BY Zenon DEF IInv, FiberInv, FiberOK
<1> QED BY <1>1, ActorInvariance, PTL
=====
