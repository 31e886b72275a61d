----------------------------- MODULE EventLoop -----------------------------
(***************************************************************************)
(* raster/io/event: EventLoop and EventHandler, with the Poll, the Waker   *)
(* and the deadlines they use.                                             *)
(*                                                                         *)
(* The loop thread dispatches what other threads added, expires deadlines, *)
(* polls, and handles what is ready.  It owns an event from its dispatch   *)
(* until Actor::execute hands it to a fiber or it is deleted; other        *)
(* threads touch only events_, callbacks_, the waker and stop_.  Time is   *)
(* abstract: Elapse puts a deadline into the past.  What a socket does is  *)
(* chosen freely.                                                          *)
(***************************************************************************)
EXTENDS Integers, Sequences, FiniteSets

CONSTANTS
    Server,     \* events of accepted connections
    Client,     \* events of AsyncClients
    Forward,    \* copies made by Actor::forwardEvent
    Callback,   \* functions given to addCallback
    Listener,   \* the listening event
    Waker,      \* the waker's event
    MayStop     \* somebody calls stop()

Event == Server \cup Client \cup Forward

ASSUME EventAssumption ==
    /\ Listener # Waker /\ {Listener, Waker} \cap Event = {}
    /\ Forward \cap (Server \cup Client) = {}

VARIABLES
    etype,      \* Event::type_
    place,      \* who holds the event; "dropped" when nobody does
    interest,   \* "in" or "out" when registered with the Poll, else "no"
    deadline,   \* its entry of deadlineHeap_: "none", "once" or "repeat"
    due,        \* the events whose deadline lies in the past
    added,      \* events_
    callbacks,  \* callbacks_
    waking,     \* what was added but not followed by waker_.wake yet
    pipe,       \* the waker's pipe holds a byte
    lpc,        \* where the loop thread is in loopBody
    once,       \* the argument of loopBody
    batch,      \* the events swapped out of events_
    todo,       \* the events that checkTimeoutEvent or handle has yet to see
    stop,       \* stop_
    wakerOn,    \* the waker and the listener are registered with the Poll
    stray       \* the loop has used an event that it does not hold

life  == <<etype, place>>
poll  == <<interest, deadline, due>>
inbox == <<added, callbacks, waking, pipe>>
loop  == <<lpc, once, batch, todo>>
flags == <<stop, wakerOn>>
vars  == <<life, poll, inbox, loop, flags, stray>>

EventsOK ==
    /\ etype \in [Event -> {"INIT", "FAIL", "TOREAD", "READING", "READED",
                            "TOWRITE", "WRITING", "WRITED", "NEXT", "CONNECT"}]
    /\ place \in [Event -> {"new", "added", "loop", "fiber", "deleted", "dropped"}]
    /\ interest \in [Event -> {"no", "in", "out"}]
    /\ deadline \in [Event -> {"none", "once", "repeat"}]
    /\ due \subseteq Event

TypeOK ==
    /\ EventsOK
    /\ added \in Seq(Event)
    /\ callbacks \subseteq Callback
    /\ waking \subseteq Event \cup Callback
    /\ pipe \in BOOLEAN
    /\ lpc \in {"left", "top", "dispatch", "callbacks", "timeout", "poll", "handle"}
    /\ once \in BOOLEAN
    /\ batch \in Seq(Event)
    /\ todo \subseteq Event \cup {Listener, Waker}
    /\ stop \in BOOLEAN /\ wakerOn \in BOOLEAN /\ stray \in BOOLEAN

-----------------------------------------------------------------------------
(***************************************************************************)
(* Other threads, and time.                                                *)
(***************************************************************************)

\* addEvent up to the end of its critical section.
AddEvent(e, from, ty) ==
    /\ place[e] = from
    /\ e \notin waking
    /\ place' = [place EXCEPT ![e] = "added"]
    /\ etype' = [etype EXCEPT ![e] = ty]
    /\ added' = Append(added, e)
    /\ waking' = waking \cup {e}
    /\ UNCHANGED <<poll, callbacks, pipe, loop, flags, stray>>

\* A fiber yields after its client connected, or reused a kept-alive event,
\* which EventPool does not keep after a failure.
AddClient(e) ==
    \/ AddEvent(e, "new", "CONNECT")
    \/ etype[e] # "FAIL" /\ AddEvent(e, "fiber", "TOWRITE")

\* The schedule() of a fiber that has handled a request.
AddAnswer(e) == AddEvent(e, "fiber", "TOWRITE")

\* Actor::forwardEvent: the copy has the type of an event already written.
AddForward(e) == AddEvent(e, "new", "WRITED")

\* addCallback up to the end of its critical section.
AddCallback(c) ==
    /\ c \notin callbacks \cup waking
    /\ callbacks' = callbacks \cup {c}
    /\ waking' = waking \cup {c}
    /\ UNCHANGED <<life, poll, added, pipe, loop, flags, stray>>

\* Fault: the wake-up is saved when the loop does not seem to sleep.
WakeSleeping(x) ==
    /\ x \in waking
    /\ waking' = waking \ {x}
    /\ pipe' = (pipe \/ lpc = "poll")
    /\ UNCHANGED <<life, poll, added, callbacks, loop, flags, stray>>

\* The end of addEvent and addCallback.
Wake(x) ==
    /\ x \in waking
    /\ waking' = waking \ {x}
    /\ pipe' = TRUE
    /\ UNCHANGED <<life, poll, added, callbacks, loop, flags, stray>>

\* stop
StopLoop ==
    /\ MayStop /\ wakerOn
    /\ wakerOn' = FALSE
    /\ stop' = TRUE
    /\ UNCHANGED <<life, poll, inbox, loop, stray>>

\* A deadline passes.
Elapse(e) ==
    /\ deadline[e] # "none" /\ e \notin due
    /\ due' = due \cup {e}
    /\ UNCHANGED <<life, interest, deadline, inbox, loop, flags, stray>>

-----------------------------------------------------------------------------
(***************************************************************************)
(* What the loop does with one event.  Each operator gives the next values *)
(* of life, poll and stray.                                                *)
(***************************************************************************)

\* The loop uses e: it must hold it.
Use(e) == stray' = (stray \/ place[e] # "loop")

\* A Timeout is pushed for e (push overwrites the entry) or erased.
Push(e, d) == deadline' = [deadline EXCEPT ![e] = d] /\ due' = due \ {e}

\* dispatchEvent of an event with type ty.
DispatchEvent(e, ty) ==
    /\ etype' = [etype EXCEPT ![e] = ty]
    /\ \/ /\ ty \in {"NEXT", "TOREAD"}          \* addReadEvent
          /\ Push(e, IF ty = "NEXT" THEN "repeat" ELSE "once")
          /\ interest' = [interest EXCEPT ![e] = "in"]
          /\ place' = [place EXCEPT ![e] = "loop"]
       \/ /\ ty \in {"CONNECT", "TOWRITE"}      \* addWriteEvent
          /\ Push(e, "once")
          /\ interest' = [interest EXCEPT ![e] = "out"]
          /\ place' = [place EXCEPT ![e] = "loop"]
       \/ /\ ty \notin {"NEXT", "TOREAD", "CONNECT", "TOWRITE"}
          /\ place' = [place EXCEPT ![e] = "dropped"]
          /\ UNCHANGED poll

\* removeEvent
RemoveEvent(e) ==
    /\ Push(e, "none")
    /\ interest' = [interest EXCEPT ![e] = "no"]

\* Fault: closePeer forgets removeEvent.
ClosePeerRegistered(e) ==
    /\ Use(e)
    /\ etype' = [etype EXCEPT ![e] = "FAIL"]
    /\ place' = [place EXCEPT ![e] = IF e \in Server THEN "deleted" ELSE "fiber"]
    /\ UNCHANGED poll

\* closePeer, also by way of onTimeout and onError: a client's fiber learns of
\* the failure, a server event is deleted.
ClosePeer(e) ==
    /\ Use(e)
    /\ RemoveEvent(e)
    /\ etype' = [etype EXCEPT ![e] = "FAIL"]
    /\ place' = [place EXCEPT ![e] = IF e \in Server THEN "deleted" ELSE "fiber"]

\* onComplete of an event that has been read, in time: Actor::execute gets it,
\* and gets a forwarded copy even though that was just deleted.
Readed(e) ==
    /\ RemoveEvent(e)
    /\ etype' = [etype EXCEPT ![e] = "READED"]
    /\ place' = [place EXCEPT ![e] = "fiber"]
    /\ stray' = (stray \/ place[e] # "loop" \/ e \in Forward)

\* Fault: a client's event is dispatched for the next request, like a server's.
WritedAsServer(e) == Use(e) /\ DispatchEvent(e, "NEXT")

\* onComplete of an event that has been written, in time: a server waits for the
\* next request, a client for the response.
Writed(e) == Use(e) /\ DispatchEvent(e, IF e \in Server THEN "NEXT" ELSE "TOREAD")

\* restartEvent: the first byte of a request replaces the idle deadline.
RestartEvent(e) == Push(e, "once")

\* onRead, after readData read everything (in time or not), a part, or nothing
\* because of an error or the end of the stream.
OnRead(e) ==
    \/ Readed(e)
    \/ ClosePeer(e)
    \/ /\ Use(e)
       /\ etype' = [etype EXCEPT ![e] = "READING"]
       /\ IF etype[e] = "NEXT" THEN RestartEvent(e) ELSE UNCHANGED <<deadline, due>>
       /\ UNCHANGED <<place, interest>>

\* onWrite
OnWrite(e) ==
    \/ Writed(e)
    \/ ClosePeer(e)
    \/ /\ Use(e)
       /\ etype' = [etype EXCEPT ![e] = "WRITING"]
       /\ UNCHANGED <<place, poll>>

\* onConnect
OnConnect(e) ==
    \/ ClosePeer(e)
    \/ /\ Use(e)
       /\ etype' = [etype EXCEPT ![e] = "TOWRITE"]
       /\ UNCHANGED <<place, poll>>

\* handle.  The restartEvent of NEXT is in OnRead: the deadline that it pushes
\* matters only if the event stays registered.
Handle(e) ==
    CASE etype[e] = "CONNECT"                         -> OnConnect(e)
      [] etype[e] \in {"NEXT", "TOREAD", "READING"}   -> OnRead(e)
      [] etype[e] \in {"TOWRITE", "WRITING"}          -> OnWrite(e)
      [] OTHER                                        -> ClosePeer(e)

\* onListen: the accepted connection is dispatched, or dropped because of an
\* error, the connection limit or a late accept.  Event objects are reused.
OnListen ==
    \/ \E e \in Server : /\ place[e] \in {"new", "deleted"}
                         /\ DispatchEvent(e, "NEXT")
                         /\ UNCHANGED stray
    \/ UNCHANGED <<life, poll, stray>>

-----------------------------------------------------------------------------
(***************************************************************************)
(* loopBody.                                                               *)
(***************************************************************************)

\* loop() or loopOnce().  IOThreadPool::threadRun clears shouldRun before it
\* stops a loop: loop() is not called again after a stop that took effect, and
\* loopOnce() is only called by a thread that is to end.
Enter ==
    /\ lpc = "left"
    /\ once' \in IF MayStop THEN BOOLEAN ELSE {FALSE}
    /\ once => once'
    /\ once' \/ wakerOn \/ stop
    /\ lpc' = "top"
    /\ UNCHANGED <<life, poll, inbox, batch, todo, flags, stray>>

\* The loop is left, when stop_ is set or after the only round of loopOnce.
LeaveLoop ==
    /\ lpc' = "left"
    /\ stop' = FALSE
    /\ UNCHANGED <<life, poll, inbox, once, batch, todo, wakerOn, stray>>

\* Fault: the loop is not left while there is something to dispatch.
TopUntilIdle ==
    /\ lpc = "top"
    /\ \/ stop /\ added = <<>> /\ LeaveLoop
       \/ /\ ~stop \/ added # <<>>
          /\ lpc' = "dispatch"
          /\ batch' = added /\ added' = <<>>
          /\ UNCHANGED <<life, poll, callbacks, waking, pipe, once, todo, flags, stray>>

\* The condition of the while loop, and the swap of events_.
Top ==
    /\ lpc = "top"
    /\ \/ stop /\ LeaveLoop
       \/ /\ ~stop
          /\ lpc' = "dispatch"
          /\ batch' = added /\ added' = <<>>
          /\ UNCHANGED <<life, poll, callbacks, waking, pipe, once, todo, flags, stray>>

\* One swapped-out event is dispatched.
Dispatch ==
    /\ lpc = "dispatch" /\ batch # <<>>
    /\ DispatchEvent(Head(batch), etype[Head(batch)])
    /\ batch' = Tail(batch)
    /\ UNCHANGED <<inbox, lpc, once, todo, flags, stray>>

\* All events are dispatched; callbacks_ is swapped out and run.
RunCallbacks ==
    /\ lpc = "dispatch" /\ batch = <<>>
    /\ lpc' = "callbacks"
    /\ callbacks' = {}
    /\ UNCHANGED <<life, poll, added, waking, pipe, once, batch, todo, flags, stray>>

\* checkTimeoutEvent reads the time.
StartTimeouts ==
    /\ lpc = "callbacks"
    /\ lpc' = "timeout"
    /\ todo' = due
    /\ UNCHANGED <<life, poll, inbox, once, batch, flags, stray>>

\* Fault: the entry of an idle connection is not pushed again.
ExpireUnpushed(e) ==
    /\ lpc = "timeout" /\ e \in todo
    /\ todo' = todo \ {e}
    /\ \/ deadline[e] = "repeat" /\ Push(e, "none") /\ UNCHANGED <<life, interest, stray>>
       \/ ClosePeer(e)
    /\ UNCHANGED <<inbox, lpc, once, batch, flags>>

\* One popped deadline: an idle connection is kept while there are few.
Expire(e) ==
    /\ lpc = "timeout" /\ e \in todo
    /\ todo' = todo \ {e}
    /\ \/ deadline[e] = "repeat" /\ Push(e, "repeat") /\ UNCHANGED <<life, interest, stray>>
       \/ ClosePeer(e)
    /\ UNCHANGED <<inbox, lpc, once, batch, flags>>

\* No deadline is left: on to poll, or out of loopOnce.
EndTimeouts ==
    /\ lpc = "timeout" /\ todo = {}
    /\ \/ once /\ LeaveLoop
       \/ /\ ~once
          /\ lpc' = "poll"
          /\ UNCHANGED <<life, poll, inbox, once, batch, todo, flags, stray>>

\* What epoll_wait may report.
Pollable ==
    {e \in Event : interest[e] # "no"}
      \cup (IF wakerOn THEN {Listener} ELSE {})
      \cup (IF wakerOn /\ pipe THEN {Waker} ELSE {})

\* poll returns: with what is ready, or with nothing after its timeout.
Polled ==
    /\ lpc = "poll"
    /\ todo' \in SUBSET Pollable
    /\ Waker \in Pollable => Waker \in todo'
    /\ lpc' = "handle"
    /\ UNCHANGED <<life, poll, inbox, once, batch, flags, stray>>

\* The next event that poll reported.
HandleOne(x) ==
    /\ lpc = "handle" /\ x \in todo
    /\ todo' = todo \ {x}
    /\ \/ /\ x = Waker                           \* waker_.consume
          /\ pipe' = FALSE
          /\ UNCHANGED <<life, poll, stray>>
       \/ x = Listener /\ OnListen /\ UNCHANGED pipe
       \/ x \in Event /\ Handle(x) /\ UNCHANGED pipe
    /\ UNCHANGED <<added, callbacks, waking, lpc, once, batch, flags>>

\* Everything is handled: back to the condition of the while loop.
Round ==
    /\ lpc = "handle" /\ todo = {}
    /\ lpc' = "top"
    /\ UNCHANGED <<life, poll, inbox, once, batch, todo, flags, stray>>

-----------------------------------------------------------------------------
Init ==
    /\ etype = [e \in Event |-> "INIT"]
    /\ place = [e \in Event |-> "new"]
    /\ interest = [e \in Event |-> "no"]
    /\ deadline = [e \in Event |-> "none"]
    /\ due = {}
    /\ added = <<>> /\ callbacks = {} /\ waking = {} /\ pipe = FALSE
    /\ lpc = "left" /\ once = FALSE /\ batch = <<>> /\ todo = {}
    /\ stop = FALSE /\ wakerOn = TRUE /\ stray = FALSE

LoopStep ==
    \/ Enter \/ Top \/ Dispatch \/ RunCallbacks \/ StartTimeouts
    \/ \E e \in Event : Expire(e)
    \/ EndTimeouts \/ Polled
    \/ \E x \in Event \cup {Listener, Waker} : HandleOne(x)
    \/ Round

Next ==
    \/ LoopStep
    \/ \E e \in Client : AddClient(e)
    \/ \E e \in Server : AddAnswer(e)
    \/ \E e \in Forward : AddForward(e)
    \/ \E c \in Callback : AddCallback(c)
    \/ \E x \in Event \cup Callback : Wake(x)
    \/ \E e \in Event : Elapse(e)
    \/ StopLoop

Spec == Init /\ [][Next]_vars

\* The loop's thread is scheduled, epoll_wait returns within its timeout, a thread
\* in addEvent or addCallback gets to its end, and time passes.
Fairness ==
    /\ WF_vars(LoopStep)
    /\ \A x \in Event \cup Callback : WF_vars(Wake(x))
    /\ \A e \in Event : WF_vars(Elapse(e))

FairSpec == Spec /\ Fairness

-----------------------------------------------------------------------------
(***************************************************************************)
(* Properties.                                                             *)
(***************************************************************************)

\* Between two steps of the loop an event is in epoll exactly when it has a
\* deadline and exactly when the loop holds it, for the direction that its type
\* asks for; only an idle connection's deadline repeats.  A registered event thus
\* always reaches a handler for its type, and always times out.
PollExact ==
    \A e \in Event :
        /\ interest[e] # "no" <=> place[e] = "loop"
        /\ deadline[e] # "none" <=> place[e] = "loop"
        /\ interest[e] = "in" => etype[e] \in {"NEXT", "TOREAD", "READING"}
        /\ interest[e] = "out" => etype[e] \in {"CONNECT", "TOWRITE", "WRITING"}
        /\ deadline[e] = "repeat" <=> place[e] = "loop" /\ etype[e] = "NEXT"

\* The loop never uses an event that it has given to a fiber or deleted: what
\* poll or the heap returned stays the loop's until its turn comes.
NoStray ==
    /\ ~stray
    /\ \A e \in todo \cap Event : place[e] = "loop"
    /\ \A i \in DOMAIN batch : place[batch[i]] = "added"

\* The loop does not sleep in epoll_wait over work that was added: the waker is
\* readable, or the thread that added the work is about to write to it.
NoLostWakeup ==
    lpc = "poll" /\ wakerOn /\ (added # <<>> \/ callbacks # {}) => pipe \/ waking # {}

\* What is given to the loop comes to an end, whatever the peer does, unless the
\* loop is stopped: the fiber that waits for a client gets it back, READED or
\* FAIL; an answer does not stay half-written, its connection gets ready for the
\* next request or is deleted; a function given to addCallback is run.
WorkEnds ==
    /\ \A e \in Client : place[e] = "added" ~> place[e] = "fiber" \/ ~wakerOn
    /\ \A e \in Server : place[e] = "added" ~>
                             \/ place[e] = "deleted"
                             \/ place[e] = "loop" /\ etype[e] = "NEXT"
                             \/ ~wakerOn
    /\ \A c \in Callback : c \in callbacks ~> c \notin callbacks \/ ~wakerOn

\* A stopped loop is left.
StopLeaves == stop ~> lpc = "left"
=============================================================================
