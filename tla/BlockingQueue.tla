--------------------------- MODULE BlockingQueue ----------------------------
(***************************************************************************)
(* raster/util/BlockingQueue.h: GenericBlockingQueue, the taskQueue_ and   *)
(* the stoppedThreads_ of the thread pools.                                *)
(*                                                                         *)
(* add and the locked part of take are one step each, by lock_; a taker    *)
(* that found nothing waits for sem_.  An item may be taken by somebody    *)
(* who did not wait, so sem_ may count more than the queue holds.          *)
(***************************************************************************)
EXTENDS Integers, Sequences, FiniteSets

CONSTANTS
    Item,       \* what is put into the queue
    Taker,      \* the threads that take
    MaxPosts    \* bound: the calls of add

ASSUME QueueAssumption == IsFiniteSet(Taker) /\ MaxPosts \in Nat

VARIABLES
    queue,  \* queue_
    sem,    \* the value of sem_
    tpc,    \* where a taker is: outside of take, about to look, or in sem_.wait
    got,    \* what a taker returned with last
    posts   \* the calls of add so far

queueVars == <<queue, sem, tpc, got, posts>>

QueueTypeOK ==
    /\ queue \in Seq(Item)
    /\ sem \in Nat
    /\ tpc \in [Taker -> {"out", "look", "wait"}]
    /\ got \in [Taker -> Item]
    /\ posts \in 0..MaxPosts

\* Fault: add posts only to an empty queue.
AddItemQuietly(x) ==
    /\ posts < MaxPosts
    /\ posts' = posts + 1
    /\ queue' = Append(queue, x)
    /\ sem' = IF queue = <<>> THEN sem + 1 ELSE sem
    /\ UNCHANGED <<tpc, got>>

\* add
AddItem(x) ==
    /\ posts < MaxPosts
    /\ posts' = posts + 1
    /\ queue' = Append(queue, x)
    /\ sem' = sem + 1
    /\ UNCHANGED <<tpc, got>>

\* A thread calls take.
CallTake(t) ==
    /\ tpc[t] = "out"
    /\ tpc' = [tpc EXCEPT ![t] = "look"]
    /\ UNCHANGED <<queue, sem, got, posts>>

\* The locked part of take.
Look(t) ==
    /\ tpc[t] = "look"
    /\ \/ /\ queue # <<>>
          /\ queue' = Tail(queue)
          /\ got' = [got EXCEPT ![t] = Head(queue)]
          /\ tpc' = [tpc EXCEPT ![t] = "out"]
       \/ /\ queue = <<>>
          /\ tpc' = [tpc EXCEPT ![t] = "wait"]
          /\ UNCHANGED <<queue, got>>
    /\ UNCHANGED <<sem, posts>>

\* sem_.wait returns: back to the top of the loop.
SemWait(t) ==
    /\ tpc[t] = "wait" /\ sem > 0
    /\ sem' = sem - 1
    /\ tpc' = [tpc EXCEPT ![t] = "look"]
    /\ UNCHANGED <<queue, got, posts>>

QueueInit ==
    /\ queue = <<>> /\ sem = 0 /\ posts = 0
    /\ tpc = [t \in Taker |-> "out"]
    /\ got \in [Taker -> Item]

QueueNext ==
    \/ \E x \in Item : AddItem(x)
    \/ \E t \in Taker : CallTake(t) \/ Look(t) \/ SemWait(t)

QueueSpec == QueueInit /\ [][QueueNext]_queueVars

-----------------------------------------------------------------------------
\* For every item of GenericBlockingQueue there is a post in sem_, or a taker
\* that is about to look: nobody sleeps over an item.
Posted == Len(queue) <= sem + Cardinality({t \in Taker : tpc[t] = "look"})

TakeCall == INSTANCE Fifo WITH
    FifoValue <- Item, FifoReader <- Taker,
    items <- queue, asking <- {t \in Taker : tpc[t] # "out"}, result <- got

\* GenericBlockingQueue is a queue: items come out in order, each to one taker,
\* and while it holds an item and somebody is in take, a take returns.
QueueIsFifo == TakeCall!FifoSpec
=============================================================================
