------------------------------- MODULE Baton -------------------------------
(***************************************************************************)
(* raster/util: Baton, and the Futex it is built on.                       *)
(*                                                                         *)
(* One thread waits and resets; each lifetime of the baton has a poster of *)
(* its own, which starts after the reset.  A step is one access to state_  *)
(* or one futex call.  A poster may be so slow that its futexWake comes in *)
(* a later lifetime.  A failed assert sets batonFailed.                    *)
(***************************************************************************)
EXTENDS Integers

CONSTANT Lifetimes  \* bound: the lifetimes of the baton

ASSUME BatonAssumption == Lifetimes \in Nat \ {0}

VARIABLES
    state,      \* state_
    life,       \* the current lifetime
    waiter,     \* where the waiting thread is
    poster,     \* where the poster of each lifetime is
    timed,      \* it calls timed_wait, not wait
    batonFailed \* an assert failed

batonVars == <<state, life, waiter, poster, timed, batonFailed>>

Life == 1 .. Lifetimes

BatonTypeOK ==
    /\ state \in {"INIT", "EARLY_DELIVERY", "WAITING", "LATE_DELIVERY", "TIMED_OUT"}
    /\ life \in Life
    /\ waiter \in {"out", "spin", "block", "futex", "asleep", "awake", "expired",
                   "posted", "late"}
    /\ poster \in [Life -> {"out", "cas", "store", "wake", "done"}]
    /\ timed \in BOOLEAN
    /\ batonFailed \in BOOLEAN

\* An assert of the code.
Assert(P) == batonFailed' = (batonFailed \/ ~P)

\* The waiting thread goes on.
WaiterTo(from, to) ==
    /\ waiter = from
    /\ waiter' = to
    /\ UNCHANGED <<life, poster, timed>>

\* wait or timed_wait is called.
CallWait ==
    /\ waiter = "out"
    /\ waiter' = "spin"
    /\ timed' \in BOOLEAN
    /\ UNCHANGED <<state, life, poster, batonFailed>>

\* spinWaitForEarlyDelivery: a try_wait finds a delivery, or none does.
Spin ==
    /\ \/ state = "EARLY_DELIVERY" /\ WaiterTo("spin", "posted")
       \/ state # "EARLY_DELIVERY" /\ WaiterTo("spin", "block")
    /\ Assert(state \in {"INIT", "EARLY_DELIVERY"})
    /\ UNCHANGED state

\* The compare-and-exchange before blocking.
Block ==
    /\ \/ /\ state = "INIT" /\ WaiterTo("block", "futex")
          /\ state' = "WAITING" /\ UNCHANGED batonFailed
       \/ /\ state # "INIT" /\ WaiterTo("block", "posted")
          /\ Assert(state = "EARLY_DELIVERY") /\ UNCHANGED state

\* The futex call sleeps if state_ is still WAITING.
FutexWait ==
    /\ WaiterTo("futex", IF state = "WAITING" THEN "asleep" ELSE "awake")
    /\ UNCHANGED <<state, batonFailed>>

\* The futex call returns on its own: a signal, or the deadline.
FutexReturn ==
    /\ \/ WaiterTo("asleep", "awake")
       \/ timed /\ WaiterTo("asleep", "expired")
    /\ UNCHANGED <<state, batonFailed>>

\* Fault: the woken thread does not look at state_ again.
AfterWakeTrusting ==
    /\ WaiterTo("awake", "posted")
    /\ UNCHANGED <<state, batonFailed>>

\* After the futex call: state_ is the truth.
AfterWake ==
    /\ WaiterTo("awake", IF state = "LATE_DELIVERY" THEN "posted" ELSE "futex")
    /\ Assert(state \in {"WAITING", "LATE_DELIVERY"})
    /\ UNCHANGED state

\* timed_wait gives up.
TimeOut ==
    /\ WaiterTo("expired", "late")
    /\ state' = "TIMED_OUT"
    /\ UNCHANGED batonFailed

\* try_wait, called on its own.
TryWait ==
    /\ waiter = "out"
    /\ waiter' = IF state = "EARLY_DELIVERY" THEN "posted" ELSE "out"
    /\ Assert(state \in {"INIT", "EARLY_DELIVERY"})
    /\ UNCHANGED <<state, life, poster, timed>>

\* reset, by the thread that waited, once the poster can no longer store.
Reset ==
    /\ waiter \in {"posted", "late"} /\ life < Lifetimes
    /\ poster[life] \in {"wake", "done"}
    /\ Assert(state # "WAITING")
    /\ state' = "INIT"
    /\ life' = life + 1
    /\ waiter' = "out"
    /\ UNCHANGED <<poster, timed>>

\* The poster of lifetime n goes on.
PosterTo(n, from, to) ==
    /\ poster[n] = from
    /\ poster' = [poster EXCEPT ![n] = to]
    /\ UNCHANGED <<life, timed>>

\* post reads state_.
Post ==
    /\ PosterTo(life, "out", CASE state = "INIT"      -> "cas"
                               [] state = "TIMED_OUT" -> "done"
                               [] OTHER               -> "store")
    /\ Assert(state \in {"INIT", "WAITING", "TIMED_OUT"})
    /\ UNCHANGED <<state, waiter>>

\* Fault: EARLY_DELIVERY is stored, not exchanged for INIT.
PostEarlyBlindly(n) ==
    /\ PosterTo(n, "cas", "done")
    /\ state' = "EARLY_DELIVERY"
    /\ UNCHANGED <<waiter, batonFailed>>

\* The compare-and-exchange of post, which fails if the waiter has just blocked.
PostEarly(n) ==
    /\ \/ /\ state = "INIT" /\ PosterTo(n, "cas", "done")
          /\ state' = "EARLY_DELIVERY" /\ UNCHANGED batonFailed
       \/ /\ state # "INIT"
          /\ PosterTo(n, "cas", IF state = "TIMED_OUT" THEN "done" ELSE "store")
          /\ Assert(state \in {"WAITING", "TIMED_OUT"}) /\ UNCHANGED state
    /\ UNCHANGED waiter

PostLate(n) ==
    /\ PosterTo(n, "store", "wake")
    /\ state' = "LATE_DELIVERY"
    /\ UNCHANGED <<waiter, batonFailed>>

\* futexWake(1)
FutexWake(n) ==
    /\ PosterTo(n, "wake", "done")
    /\ waiter' = IF waiter = "asleep" THEN "awake" ELSE waiter
    /\ UNCHANGED <<state, batonFailed>>

-----------------------------------------------------------------------------
BatonInit ==
    /\ state = "INIT" /\ life = 1
    /\ waiter = "out" /\ poster = [n \in Life |-> "out"]
    /\ timed = FALSE /\ batonFailed = FALSE

WaiterStep == Spin \/ Block \/ FutexWait \/ AfterWake \/ TimeOut

PosterStep == \E n \in Life : PostEarly(n) \/ PostLate(n) \/ FutexWake(n)

BatonNext ==
    \/ CallWait \/ TryWait \/ Reset \/ Post
    \/ WaiterStep \/ FutexReturn
    \/ PosterStep

BatonSpec == BatonInit /\ [][BatonNext]_batonVars

-----------------------------------------------------------------------------
\* No assert of Baton fails, and wait and timed_wait report a delivery only when
\* the post of this lifetime has been made: neither a signal nor the late
\* futexWake of an earlier lifetime passes for one.
BatonHonest ==
    /\ ~batonFailed
    /\ waiter = "posted" => poster[life] \in {"wake", "done"}
    /\ waiter = "late" => timed

\* post wakes the thread that waits: a wait that began, and whose baton is
\* posted, returns.
BatonDelivers ==
    waiter \notin {"out", "posted", "late"} /\ poster[life] # "out"
        ~> waiter \in {"posted", "late"}
=============================================================================
