-------------------------- MODULE EventLoopProofs --------------------------
(***************************************************************************)
(* PollExact, NoStray and NoLostWakeup hold for any number of events and   *)
(* callbacks.  The first two need each other, and the facts below about    *)
(* the queues: the loop may dispatch an event only because it was added    *)
(* once and nobody has touched it since.                                   *)
(***************************************************************************)
EXTENDS EventLoop, TLAPS

\* Only what has a deadline can be due.
DueHeld == \A e \in due : deadline[e] # "none"

\* An event that was added is in one queue, once.
QueuedOnce ==
    /\ \A i \in 1..Len(added) : place[added[i]] = "added"
    /\ \A i \in 1..Len(batch) : place[batch[i]] = "added"
    /\ \A i, j \in 1..Len(added) : added[i] = added[j] => i = j
    /\ \A i, j \in 1..Len(batch) : batch[i] = batch[j] => i = j
    /\ \A i \in 1..Len(added), j \in 1..Len(batch) : added[i] # batch[j]

\* The loop never holds a forwarded copy: dispatchEvent refuses its type.
ForwardRefused ==
    \A e \in Forward : /\ place[e] # "loop"
                       /\ place[e] = "added" => etype[e] = "WRITED"

\* What poll or the heap has returned is held by the loop.
TodoHeld == \A e \in todo \cap Event : place[e] = "loop"

\* From the swap of a queue until the end of poll, what is added to it again is
\* followed by a wake-up.
Woken ==
    /\ lpc \in {"dispatch", "callbacks", "timeout", "poll"} /\ added # <<>> =>
           pipe \/ waking # {}
    /\ lpc \in {"callbacks", "timeout", "poll"} /\ callbacks # {} => pipe \/ waking # {}

\* What concerns each event alone.
Exact == EventsOK /\ PollExact /\ DueHeld

Queues == QueuedOnce /\ ForwardRefused /\ TodoHeld

IInv == TypeOK /\ Exact /\ Queues /\ Woken /\ stray = FALSE

-----------------------------------------------------------------------------
(***************************************************************************)
(* What the loop does with one event keeps Exact.                          *)
(***************************************************************************)

LEMMA DispatchExact ==
    ASSUME Exact, NEW e \in Event, NEW ty, DispatchEvent(e, ty),
           ty \in {"INIT", "FAIL", "TOREAD", "READING", "READED",
                   "TOWRITE", "WRITING", "WRITED", "NEXT", "CONNECT"},
           place[e] # "loop" \/ ty \in {"NEXT", "TOREAD"}
    PROVE  Exact'
<1>1. EventsOK'
  BY Zenon DEF Exact, EventsOK, DispatchEvent, Push, poll
<1>2. PollExact'
  BY DEF Exact, EventsOK, PollExact, DispatchEvent, Push, poll
<1>3. DueHeld'
  BY Zenon DEF Exact, EventsOK, DueHeld, DispatchEvent, Push, poll
<1> QED BY <1>1, <1>2, <1>3, Zenon DEF Exact

LEMMA CloseExact ==
    ASSUME Exact, NEW e \in Event, ClosePeer(e)
    PROVE  Exact'
<1>1. EventsOK'
  BY Zenon DEF Exact, EventsOK, ClosePeer, RemoveEvent, Push
<1>2. PollExact'
  BY DEF Exact, EventsOK, PollExact, ClosePeer, RemoveEvent, Push
<1>3. DueHeld'
  BY Zenon DEF Exact, EventsOK, DueHeld, ClosePeer, RemoveEvent, Push
<1> QED BY <1>1, <1>2, <1>3, Zenon DEF Exact

LEMMA ReadedExact ==
    ASSUME Exact, NEW e \in Event, Readed(e)
    PROVE  Exact'
<1>1. EventsOK'
  BY Zenon DEF Exact, EventsOK, Readed, RemoveEvent, Push
<1>2. PollExact'
  BY DEF Exact, EventsOK, PollExact, Readed, RemoveEvent, Push
<1>3. DueHeld'
  BY Zenon DEF Exact, EventsOK, DueHeld, Readed, RemoveEvent, Push
<1> QED BY <1>1, <1>2, <1>3, Zenon DEF Exact

\* What Handle does with an event that the loop holds: it keeps it, or gives it to
\* a fiber, or deletes it.
LEMMA HandleExact ==
    ASSUME Exact, ForwardRefused, stray = FALSE,
           NEW e \in Event, place[e] = "loop", Handle(e)
    PROVE  /\ Exact'
           /\ stray' = FALSE
           /\ \E p \in {"loop", "fiber", "deleted"} : place' = [place EXCEPT ![e] = p]
<1> USE DEF Exact
<1>0. e \notin Forward
  BY Zenon DEF ForwardRefused
<1>1. CASE ClosePeer(e)
  BY <1>1, CloseExact, Zenon DEF ClosePeer, Use
<1>2. CASE Readed(e)
  BY <1>0, <1>2, ReadedExact, Zenon DEF Readed
<1>3. CASE Writed(e)
  <2>1. PICK ty \in {"NEXT", "TOREAD"} : DispatchEvent(e, ty)
    BY <1>3, Zenon DEF Writed
  <2>2. Exact'
    BY <2>1, DispatchExact, Zenon
  <2>3. stray' = FALSE /\ place' = [place EXCEPT ![e] = "loop"]
    BY <1>3, <2>1, Zenon DEF Writed, Use, DispatchEvent
  <2> QED BY <2>2, <2>3, Zenon
<1>4. CASE /\ Use(e)
           /\ etype[e] \in {"NEXT", "TOREAD", "READING"}
           /\ etype' = [etype EXCEPT ![e] = "READING"]
           /\ IF etype[e] = "NEXT" THEN RestartEvent(e) ELSE UNCHANGED <<deadline, due>>
           /\ UNCHANGED <<place, interest>>
  <2>1. EventsOK'
    BY <1>4, Zenon DEF EventsOK, RestartEvent, Push
  <2>2. PollExact'
    BY <1>4 DEF EventsOK, PollExact, RestartEvent, Push
  <2>3. DueHeld'
    BY <1>4, Zenon DEF EventsOK, DueHeld, RestartEvent, Push
  <2>4. place' = [place EXCEPT ![e] = "loop"]
    BY <1>4, Zenon DEF EventsOK
  <2> QED BY <1>4, <2>1, <2>2, <2>3, <2>4, Zenon DEF Use
<1>5. CASE /\ Use(e)
           /\ etype[e] \in {"CONNECT", "TOWRITE", "WRITING"}
           /\ etype' = [etype EXCEPT ![e] = "WRITING"] \/ etype' = [etype EXCEPT ![e] = "TOWRITE"]
           /\ UNCHANGED <<place, poll>>
  <2>1. EventsOK'
    BY <1>5, Zenon DEF EventsOK, poll
  <2>2. PollExact'
    BY <1>5 DEF EventsOK, PollExact, poll
  <2>3. DueHeld'
    BY <1>5, Zenon DEF DueHeld, poll
  <2>4. place' = [place EXCEPT ![e] = "loop"]
    BY <1>5, Zenon DEF EventsOK
  <2> QED BY <1>5, <2>1, <2>2, <2>3, <2>4, Zenon DEF Use
<1> QED BY <1>1, <1>2, <1>3, <1>4, <1>5, Zenon DEF Handle, OnConnect, OnRead, OnWrite

-----------------------------------------------------------------------------
(***************************************************************************)
(* The steps.                                                              *)
(***************************************************************************)

LEMMA ExactUnchanged ==
    ASSUME Exact, UNCHANGED <<life, poll>>
    PROVE  Exact'
  BY Zenon DEF Exact, EventsOK, PollExact, DueHeld, life, poll

LEMMA QueuesUnchanged ==
    ASSUME Queues, UNCHANGED <<etype, place, added, batch>>, todo' \subseteq todo
    PROVE  Queues'
<1>1. QueuedOnce'
  BY Zenon DEF Queues, QueuedOnce
<1>2. ForwardRefused'
  BY Zenon DEF Queues, ForwardRefused
<1>3. TodoHeld'
  BY Zenon DEF Queues, TodoHeld
<1> QED BY <1>1, <1>2, <1>3, Zenon DEF Queues

\* The loop is done with e, which is in no queue.
LEMMA QueuesKept ==
    ASSUME TypeOK, Queues, NEW e \in Event \ Forward, NEW p,
           place[e] # "added", p # "added",
           place' = [place EXCEPT ![e] = p],
           \A f \in Forward : etype'[f] = etype[f],
           UNCHANGED <<added, batch>>,
           todo' \subseteq todo, p # "loop" => e \notin todo'
    PROVE  Queues'
<1> USE DEF TypeOK, EventsOK
<1>0. Forward \subseteq Event
  BY Zenon DEF Event
<1>1. QueuedOnce'
  BY DEF Queues, QueuedOnce
<1>2. ForwardRefused'
  BY <1>0, Zenon DEF Queues, ForwardRefused
<1>3. TodoHeld'
  BY DEF Queues, TodoHeld
<1> QED BY <1>1, <1>2, <1>3, Zenon DEF Queues

\* addEvent puts an event that nobody else holds at the end of its queue.
LEMMA AddEventStep ==
    ASSUME IInv, NEW e \in Event, NEW from \in {"new", "fiber"},
           NEW ty \in {"CONNECT", "TOWRITE", "WRITED"},
           e \in Forward => ty = "WRITED",
           AddEvent(e, from, ty)
    PROVE  IInv'
<1> USE DEF IInv, TypeOK
<1>1. Exact'
  <2>1. EventsOK'
    BY Zenon DEF AddEvent, EventsOK, poll
  <2>2. PollExact'
    BY DEF AddEvent, EventsOK, Exact, PollExact, poll
  <2>3. DueHeld'
    BY Zenon DEF AddEvent, EventsOK, Exact, DueHeld, poll
  <2> QED BY <2>1, <2>2, <2>3, Zenon DEF Exact
<1>2. TypeOK'
  <2>1. added' \in Seq(Event) /\ waking' \subseteq Event \cup Callback
    BY DEF AddEvent
  <2> QED BY <1>1, <2>1, Zenon DEF AddEvent, Exact, loop, flags
<1>3. QueuedOnce'
  <2>1. Len(added') = Len(added) + 1 /\ added'[Len(added')] = e
        /\ \A i \in 1..Len(added) : added'[i] = added[i]
    BY DEF AddEvent
  <2>2. \A i \in 1..Len(added) : added[i] # e
    BY Zenon DEF AddEvent, Queues, QueuedOnce
  <2>3. \A i \in 1..Len(batch) : batch[i] # e
    BY Zenon DEF AddEvent, Queues, QueuedOnce
  <2>4. \A i \in 1..Len(added') : place'[added'[i]] = "added"
    BY <2>1 DEF AddEvent, EventsOK, Queues, QueuedOnce
  <2>5. \A i \in 1..Len(batch) : place'[batch[i]] = "added"
    BY DEF AddEvent, EventsOK, Queues, QueuedOnce
  <2>6. \A i, j \in 1..Len(added') : added'[i] = added'[j] => i = j
    BY <2>1, <2>2 DEF Queues, QueuedOnce
  <2>7. batch' = batch
    BY Zenon DEF AddEvent, loop
  <2>8. \A i \in 1..Len(added'), j \in 1..Len(batch) : added'[i] # batch[j]
    BY <2>1, <2>3 DEF Queues, QueuedOnce
  <2> QED BY <2>4, <2>5, <2>6, <2>7, <2>8 DEF Queues, QueuedOnce
<1>4. ForwardRefused'
  <2>1. Forward \subseteq Event
    BY Zenon DEF Event
  <2> QED BY <2>1, Zenon DEF AddEvent, EventsOK, Queues, ForwardRefused
<1>5. TodoHeld'
  BY Zenon DEF AddEvent, EventsOK, Queues, TodoHeld, loop
<1>6. Woken'
  BY Zenon DEF AddEvent, Woken, loop
<1>7. stray' = FALSE
  BY Zenon DEF AddEvent
<1> QED BY <1>1, <1>2, <1>3, <1>4, <1>5, <1>6, <1>7, Zenon DEF Queues

\* The steps that touch neither events nor queues, and Elapse.
LEMMA OtherStep ==
    ASSUME IInv,
           \/ \E c \in Callback : AddCallback(c)
           \/ \E x \in Event \cup Callback : Wake(x)
           \/ \E e \in Event : Elapse(e)
           \/ StopLoop \/ Enter \/ RunCallbacks \/ EndTimeouts \/ Round
    PROVE  IInv'
<1> USE DEF IInv
<1>1. UNCHANGED <<etype, place, interest, deadline, added, batch, stray>>
  BY Zenon DEF AddCallback, Wake, Elapse, StopLoop, Enter, RunCallbacks, EndTimeouts, Round,
         LeaveLoop, life, poll, inbox, loop
<1>2. todo' = todo
  BY Zenon DEF AddCallback, Wake, Elapse, StopLoop, Enter, RunCallbacks, EndTimeouts, Round,
         LeaveLoop, loop
<1>3. due' = due \/ \E e \in Event : deadline[e] # "none" /\ due' = due \cup {e}
  BY Zenon DEF AddCallback, Wake, Elapse, StopLoop, Enter, RunCallbacks, EndTimeouts, Round,
         LeaveLoop, poll
<1>4. Exact'
  BY <1>1, <1>3, Zenon DEF Exact, EventsOK, PollExact, DueHeld
<1>5. Queues'
  BY <1>1, <1>2, QueuesUnchanged, Zenon
<1>6. /\ callbacks' \subseteq Callback /\ waking' \subseteq Event \cup Callback
      /\ lpc' \in {"left", "top", "dispatch", "callbacks", "timeout", "poll", "handle"}
  BY Zenon DEF AddCallback, Wake, Elapse, StopLoop, Enter, RunCallbacks, EndTimeouts, Round,
         LeaveLoop, inbox, loop, TypeOK
<1>7. pipe' \in BOOLEAN /\ once' \in BOOLEAN /\ stop' \in BOOLEAN /\ wakerOn' \in BOOLEAN
  BY Zenon DEF AddCallback, Wake, Elapse, StopLoop, Enter, RunCallbacks, EndTimeouts, Round,
         LeaveLoop, inbox, loop, flags, TypeOK
<1>8. TypeOK'
  BY <1>1, <1>2, <1>4, <1>6, <1>7, Zenon DEF TypeOK, Exact
<1>9. Woken'
  BY <1>1, Zenon
     DEF AddCallback, Wake, Elapse, StopLoop, Enter, RunCallbacks, EndTimeouts, Round,
         LeaveLoop, inbox, loop, Woken
<1> QED BY <1>1, <1>4, <1>5, <1>8, <1>9, Zenon

LEMMA TopStep ==
    ASSUME IInv, Top
    PROVE  IInv'
<1> USE DEF IInv
<1>1. Exact'
  BY ExactUnchanged, Zenon DEF Top, LeaveLoop
<1>2. TypeOK'
  <2>1. /\ added' \in Seq(Event) /\ batch' \in Seq(Event)
        /\ todo' = todo /\ callbacks' = callbacks /\ waking' = waking
        /\ lpc' \in {"left", "dispatch"}
    <3>1. <<>> \in Seq(Event)
      OBVIOUS
    <3> QED BY <3>1, Zenon DEF Top, LeaveLoop, inbox, TypeOK
  <2>2. pipe' = pipe /\ once' = once /\ stop' \in BOOLEAN /\ wakerOn' = wakerOn /\ stray' = stray
    BY Zenon DEF Top, LeaveLoop, inbox, flags, TypeOK
  <2> QED BY <1>1, <2>1, <2>2, Zenon DEF TypeOK, Exact
<1>3. Queues'
  BY DEF Top, LeaveLoop, life, inbox, Queues, QueuedOnce, ForwardRefused, TodoHeld
<1>4. Woken'
  BY Zenon DEF Top, LeaveLoop, Woken
<1> QED BY <1>1, <1>2, <1>3, <1>4, Zenon DEF Top, LeaveLoop

\* The head of the batch is in no other place, so it may be dispatched.
LEMMA DispatchStep ==
    ASSUME IInv, Dispatch
    PROVE  IInv'
<1> DEFINE e == Head(batch)
<1> USE DEF IInv
<1>0. /\ e \in Event /\ e = batch[1] /\ batch' \in Seq(Event)
      /\ Len(batch') = Len(batch) - 1
      /\ \A i \in 1..Len(batch') : batch'[i] = batch[i + 1]
  BY DEF Dispatch, TypeOK
<1>1. place[e] = "added"
  BY <1>0 DEF Dispatch, TypeOK, Queues, QueuedOnce
<1>2. Exact'
  BY <1>0, <1>1, DispatchExact, Zenon DEF Dispatch, TypeOK, EventsOK
<1>3. TypeOK'
  BY <1>0, <1>2, Zenon DEF Dispatch, TypeOK, Exact, inbox, flags
<1>4. /\ \E p \in {"loop", "dropped"} : place' = [place EXCEPT ![e] = p]
      /\ e \in Forward => place' = [place EXCEPT ![e] = "dropped"]
  BY <1>0, <1>1, Zenon DEF Dispatch, DispatchEvent, Queues, ForwardRefused
<1>5. QueuedOnce'
  <2>1. \A i \in 1..Len(added) : added[i] # e /\ added[i] \in Event
    BY <1>0 DEF Dispatch, TypeOK, Queues, QueuedOnce
  <2>2. \A i \in 1..Len(batch') : batch'[i] # e /\ batch'[i] \in Event
    BY <1>0 DEF TypeOK, Queues, QueuedOnce
  <2>3. added' = added
    BY Zenon DEF Dispatch, inbox
  <2>4. \A x \in Event : x # e => place'[x] = place[x]
    BY <1>4, Zenon DEF TypeOK, EventsOK
  <2>5. \A i \in 1..Len(batch') : i + 1 \in 1..Len(batch)
    BY <1>0 DEF TypeOK
  <2>6. \A i \in 1..Len(added) : place'[added[i]] = "added"
    BY <2>1, <2>4, Zenon DEF Queues, QueuedOnce
  <2>7. \A i \in 1..Len(batch') : place'[batch'[i]] = "added"
    BY <1>0, <2>2, <2>4, <2>5 DEF Queues, QueuedOnce
  <2>8. \A i, j \in 1..Len(batch') : batch'[i] = batch'[j] => i = j
    <3> SUFFICES ASSUME NEW i \in 1..Len(batch'), NEW j \in 1..Len(batch'),
                        batch'[i] = batch'[j]
                 PROVE  i = j
      BY Zenon
    <3>1. i + 1 = j + 1
      BY <1>0, <2>5 DEF Queues, QueuedOnce
    <3> QED BY <3>1
  <2>9. \A i \in 1..Len(added), j \in 1..Len(batch') : added[i] # batch'[j]
    <3> SUFFICES ASSUME NEW i \in 1..Len(added), NEW j \in 1..Len(batch')
                 PROVE  added[i] # batch'[j]
      BY Zenon
    <3>1. batch'[j] = batch[j + 1] /\ j + 1 \in 1..Len(batch)
      BY <1>0, <2>5, Zenon
    <3> QED BY <3>1, Zenon DEF Queues, QueuedOnce
  <2> QED BY <2>3, <2>6, <2>7, <2>8, <2>9 DEF Queues, QueuedOnce
<1>6. ForwardRefused'
  <2>1. Forward \subseteq Event
    BY Zenon DEF Event
  <2>2. etype' = [etype EXCEPT ![e] = etype[e]]
    BY Zenon DEF Dispatch, DispatchEvent
  <2> QED BY <1>0, <1>4, <2>1, <2>2 DEF TypeOK, EventsOK, Queues, ForwardRefused
<1>7. TodoHeld'
  BY <1>0, <1>1, <1>4 DEF Dispatch, TypeOK, EventsOK, Queues, TodoHeld
<1>8. Woken' /\ stray' = FALSE
  BY Zenon DEF Dispatch, Woken, inbox
<1> QED BY <1>2, <1>3, <1>5, <1>6, <1>7, <1>8, Zenon DEF Queues

LEMMA TimeoutsStep ==
    ASSUME IInv, StartTimeouts
    PROVE  IInv'
<1> USE DEF IInv
<1>1. Exact'
  BY ExactUnchanged, Zenon DEF StartTimeouts
<1>2. TypeOK'
  BY <1>1, Zenon DEF StartTimeouts, inbox, flags, TypeOK, Exact, EventsOK
<1>3. Queues'
  <2>1. TodoHeld'
    BY Zenon DEF StartTimeouts, life, Exact, EventsOK, DueHeld, PollExact, TodoHeld
  <2> QED BY <2>1 DEF StartTimeouts, life, inbox, Queues, QueuedOnce, ForwardRefused
<1>4. Woken'
  BY Zenon DEF StartTimeouts, inbox, Woken
<1> QED BY <1>1, <1>2, <1>3, <1>4, Zenon DEF StartTimeouts

LEMMA ExpireStep ==
    ASSUME IInv, NEW e \in Event, Expire(e)
    PROVE  IInv'
<1> USE DEF IInv
<1>0. place[e] = "loop" /\ e \notin Forward
  BY Zenon DEF Expire, Queues, TodoHeld, ForwardRefused
<1>1. CASE ClosePeer(e)
  <2>1. Exact' /\ stray' = FALSE
    BY <1>0, <1>1, CloseExact, Zenon DEF ClosePeer, Use
  <2>2. TypeOK'
    BY <2>1, Zenon DEF Expire, TypeOK, Exact, inbox, flags
  <2>3. Queues'
    <3>1. PICK p \in {"fiber", "deleted"} : place' = [place EXCEPT ![e] = p]
      BY <1>1, Zenon DEF ClosePeer
    <3>2. \A f \in Forward : etype'[f] = etype[f]
      BY <1>0, <1>1, Zenon DEF ClosePeer, TypeOK, EventsOK, Event
    <3> QED BY <1>0, <3>1, <3>2, QueuesKept, Zenon DEF Expire, inbox
  <2>4. Woken'
    BY Zenon DEF Expire, inbox, Woken
  <2> QED BY <2>1, <2>2, <2>3, <2>4, Zenon
<1>2. CASE deadline[e] = "repeat" /\ Push(e, "repeat") /\ UNCHANGED <<life, interest, stray>>
  <2>1. EventsOK'
    BY <1>2, Zenon DEF Push, Exact, EventsOK, life
  <2>2. PollExact'
    BY <1>2 DEF Push, Exact, EventsOK, PollExact, life
  <2>3. DueHeld'
    BY <1>2, Zenon DEF Push, Exact, EventsOK, DueHeld
  <2>4. TypeOK'
    BY <1>2, <2>1, Zenon DEF Expire, TypeOK, inbox, flags
  <2>5. Queues'
    BY <1>2, QueuesUnchanged, Zenon DEF Expire, life, inbox
  <2>6. Woken'
    BY Zenon DEF Expire, inbox, Woken
  <2> QED BY <1>2, <2>1, <2>2, <2>3, <2>4, <2>5, <2>6, Zenon DEF Exact
<1> QED BY <1>1, <1>2, Zenon DEF Expire

LEMMA PolledStep ==
    ASSUME IInv, Polled
    PROVE  IInv'
<1> USE DEF IInv
<1>1. Exact'
  BY ExactUnchanged, Zenon DEF Polled
<1>2. Pollable \subseteq Event \cup {Listener, Waker}
  BY Zenon DEF Pollable
<1>3. TypeOK'
  BY <1>1, <1>2, Zenon DEF Polled, inbox, flags, TypeOK, Exact
<1>4. Queues'
  <2>1. TodoHeld'
    BY EventAssumption, Zenon DEF Polled, Pollable, life, Exact, PollExact, TodoHeld
  <2> QED BY <2>1 DEF Polled, life, inbox, Queues, QueuedOnce, ForwardRefused
<1>5. Woken'
  BY Zenon DEF Polled, Woken
<1> QED BY <1>1, <1>3, <1>4, <1>5, Zenon DEF Polled

LEMMA HandleStep ==
    ASSUME IInv, NEW x \in Event \cup {Listener, Waker}, HandleOne(x)
    PROVE  IInv'
<1> USE DEF IInv
<1>1. Woken'
  BY Zenon DEF HandleOne, Woken
<1>2. CASE x = Waker /\ pipe' = FALSE /\ UNCHANGED <<life, poll, stray>>
  <2>1. Exact'
    BY <1>2, ExactUnchanged, Zenon
  <2>2. TypeOK'
    BY <1>2, <2>1, Zenon DEF HandleOne, TypeOK, Exact, flags
  <2>3. Queues'
    BY <1>2, QueuesUnchanged, Zenon DEF HandleOne, life
  <2> QED BY <1>1, <1>2, <2>1, <2>2, <2>3, Zenon
<1>3. CASE x = Listener /\ OnListen /\ UNCHANGED pipe
  <2>1. CASE UNCHANGED <<life, poll, stray>>
    <3>1. Exact'
      BY <2>1, ExactUnchanged, Zenon
    <3>2. TypeOK'
      BY <1>3, <2>1, <3>1, Zenon DEF HandleOne, TypeOK, Exact, flags
    <3>3. Queues'
      BY <2>1, QueuesUnchanged, Zenon DEF HandleOne, life
    <3> QED BY <1>1, <2>1, <3>1, <3>2, <3>3, Zenon
  <2>2. CASE \E e \in Server : /\ place[e] \in {"new", "deleted"}
                               /\ DispatchEvent(e, "NEXT")
                               /\ UNCHANGED stray
    <3>1. PICK e \in Server : /\ place[e] \in {"new", "deleted"}
                              /\ DispatchEvent(e, "NEXT")
                              /\ UNCHANGED stray
      BY <2>2, Zenon
    <3>2. e \in Event \ Forward
      BY EventAssumption, Zenon DEF Event
    <3>3. Exact'
      BY <3>1, <3>2, DispatchExact, Zenon
    <3>4. TypeOK'
      BY <1>3, <3>1, <3>3, Zenon DEF HandleOne, TypeOK, Exact, flags
    <3>5. place' = [place EXCEPT ![e] = "loop"]
      BY <3>1, Zenon DEF DispatchEvent
    <3>6. \A f \in Forward : etype'[f] = etype[f]
      BY <3>1, <3>2, Zenon DEF DispatchEvent, TypeOK, EventsOK, Event
    <3>7. Queues'
      BY <3>1, <3>2, <3>5, <3>6, QueuesKept, Zenon DEF HandleOne
    <3> QED BY <1>1, <3>1, <3>3, <3>4, <3>7, Zenon
  <2> QED BY <1>3, <2>1, <2>2, Zenon DEF OnListen
<1>4. CASE x \in Event /\ Handle(x) /\ UNCHANGED pipe
  <2>0. place[x] = "loop" /\ x \notin Forward
    BY <1>4, Zenon DEF HandleOne, Queues, TodoHeld, ForwardRefused
  <2>1. /\ Exact' /\ stray' = FALSE
        /\ \E p \in {"loop", "fiber", "deleted"} : place' = [place EXCEPT ![x] = p]
    BY <1>4, <2>0, HandleExact, Zenon DEF Queues
  <2>2. TypeOK'
    BY <1>4, <2>1, Zenon DEF HandleOne, TypeOK, Exact, flags
  <2>3. \A f \in Forward : etype'[f] = etype[f]
    <3>1. \A f \in Event : f # x => etype'[f] = etype[f]
      BY <1>4 DEF Handle, OnConnect, OnRead, OnWrite, ClosePeer, Readed, Writed,
                  DispatchEvent, TypeOK, EventsOK
    <3> QED BY <2>0, <3>1, Zenon DEF Event
  <2>4. Queues'
    <3>1. PICK p \in {"loop", "fiber", "deleted"} : place' = [place EXCEPT ![x] = p]
      BY <2>1, Zenon
    <3> QED BY <1>4, <2>0, <2>3, <3>1, QueuesKept, Zenon DEF HandleOne
  <2> QED BY <1>1, <2>1, <2>2, <2>4, Zenon
<1> QED BY <1>2, <1>3, <1>4, Zenon DEF HandleOne

LEMMA InitIInv == Init => IInv
<1> SUFFICES ASSUME Init PROVE IInv
  BY Zenon
<1>1. Exact
  BY Zenon DEF Init, Exact, EventsOK, PollExact, DueHeld
<1>2. added = <<>> /\ batch = <<>> /\ <<>> \in Seq(Event)
  BY DEF Init
<1>3. TypeOK
  BY <1>1, <1>2, Zenon DEF Init, TypeOK, Exact
<1>4. Queues
  BY <1>2, EventAssumption DEF Init, Queues, QueuedOnce, ForwardRefused, TodoHeld, Event
<1>5. Woken
  BY Zenon DEF Init, Woken
<1> QED BY <1>1, <1>3, <1>4, <1>5, Zenon DEF Init, IInv

LEMMA StepIInv == IInv /\ [Next]_vars => IInv'
<1> SUFFICES ASSUME IInv, [Next]_vars PROVE IInv'
  BY Zenon
<1>1. ASSUME NEW e \in Client, AddClient(e) PROVE IInv'
  <2>1. e \in Event /\ e \notin Forward
    BY EventAssumption, Zenon DEF Event
  <2>2. CASE AddEvent(e, "new", "CONNECT")
    BY <2>1, <2>2, AddEventStep, Zenon
  <2>3. CASE AddEvent(e, "fiber", "TOWRITE")
    BY <2>1, <2>3, AddEventStep, Zenon
  <2> QED BY <1>1, <2>2, <2>3, Zenon DEF AddClient
<1>2. ASSUME NEW e \in Server, AddAnswer(e) PROVE IInv'
  <2>1. e \in Event /\ e \notin Forward
    BY EventAssumption, Zenon DEF Event
  <2> QED BY <1>2, <2>1, AddEventStep, Zenon DEF AddAnswer
<1>3. ASSUME NEW e \in Forward, AddForward(e) PROVE IInv'
  <2>1. e \in Event
    BY Zenon DEF Event
  <2> QED BY <1>3, <2>1, AddEventStep, Zenon DEF AddForward
<1>4. CASE LoopStep
  BY <1>4, OtherStep, TopStep, DispatchStep, TimeoutsStep, ExpireStep, PolledStep, HandleStep,
     Zenon
     DEF LoopStep
<1>5. CASE UNCHANGED vars
  <2>1. Exact'
    BY <1>5, ExactUnchanged, Zenon DEF vars, IInv
  <2>2. TypeOK'
    BY <1>5, <2>1, Zenon DEF vars, life, poll, inbox, loop, flags, IInv, TypeOK, Exact
  <2>3. Queues'
    BY <1>5, QueuesUnchanged, Zenon DEF vars, life, inbox, loop, IInv
  <2>4. Woken' /\ stray' = FALSE
    BY <1>5, Zenon DEF vars, inbox, loop, IInv, Woken
  <2> QED BY <2>1, <2>2, <2>3, <2>4, Zenon DEF IInv
<1> QED BY <1>1, <1>2, <1>3, <1>4, <1>5, OtherStep, Zenon DEF Next

LEMMA Invariance == Spec => []IInv
  BY InitIInv, StepIInv, PTL DEF Spec

-----------------------------------------------------------------------------
\* The variables of the loop have their types.
THEOREM TypeCorrect == Spec => []TypeOK
<1>1. IInv => TypeOK
  BY Zenon DEF IInv
<1> QED BY <1>1, Invariance, PTL

\* For any number of events: an event is registered with the Poll exactly when it
\* has a deadline and exactly when the loop holds it, for the right direction.
THEOREM RegistrationExact == Spec => []PollExact
<1>1. IInv => PollExact
  BY Zenon DEF IInv, Exact
<1> QED BY <1>1, Invariance, PTL

\* For any number of events, the loop never uses one that it has handed to a fiber
\* or deleted.
THEOREM LoopKeepsToItsOwn == Spec => []NoStray
<1>1. IInv => NoStray
  <2> SUFFICES ASSUME IInv PROVE NoStray
    BY Zenon
  <2>1. DOMAIN batch = 1..Len(batch)
    BY DEF IInv, TypeOK
  <2>2. \A i \in DOMAIN batch : place[batch[i]] = "added"
    BY <2>1, Zenon DEF IInv, Queues, QueuedOnce
  <2> QED BY <2>2, Zenon DEF IInv, Queues, TodoHeld, NoStray
<1> QED BY <1>1, Invariance, PTL

\* However many threads add events and callbacks, the loop does not sleep over
\* them: a wake-up has arrived or is about to.
THEOREM WakeupNotLost == Spec => []NoLostWakeup
<1>1. IInv => NoLostWakeup
  BY Zenon DEF IInv, Woken, NoLostWakeup
<1> QED BY <1>1, Invariance, PTL
=============================================================================
