-------------------------------- MODULE Fifo --------------------------------
(***************************************************************************)
(* What a queue between threads promises: values come out in the order in  *)
(* which they were put in, each to one reader, and a reader does not wait  *)
(* while there is a value.                                                 *)
(***************************************************************************)
EXTENDS Sequences

CONSTANTS
    FifoValue,  \* what can be put in
    FifoReader  \* who takes

VARIABLES
    items,      \* the values in the queue
    asking,     \* the readers that are in a call
    result      \* what each reader was given last

fifoVars == <<items, asking, result>>

FifoPut(x) ==
    /\ items' = Append(items, x)
    /\ UNCHANGED <<asking, result>>

FifoAsk(t) ==
    /\ t \notin asking
    /\ asking' = asking \cup {t}
    /\ UNCHANGED <<items, result>>

FifoTake(t) ==
    /\ t \in asking /\ items # <<>>
    /\ items' = Tail(items)
    /\ result' = [result EXCEPT ![t] = Head(items)]
    /\ asking' = asking \ {t}

FifoInit == items = <<>> /\ asking = {} /\ result \in [FifoReader -> FifoValue]

FifoNext ==
    \/ \E x \in FifoValue : FifoPut(x)
    \/ \E t \in FifoReader : FifoAsk(t) \/ FifoTake(t)

FifoSafe == FifoInit /\ [][FifoNext]_fifoVars

\* While there is a value and somebody asks, somebody is given one.
FifoSpec == FifoSafe /\ WF_fifoVars(\E t \in FifoReader : FifoTake(t))
=============================================================================
