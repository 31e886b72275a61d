----------------------------- MODULE RWSpinLock -----------------------------
(***************************************************************************)
(* raster/util/RWSpinLock.h: the lock of ThreadPool, Observable, Counter.  *)
(*                                                                         *)
(* A step is one atomic access to bits_.  A reader announces itself before *)
(* it looks for a writer, so the count may be too high for a moment.  A    *)
(* try that fails at once changes nothing and is no step; the loops of     *)
(* lock and lock_shared just try again.                                    *)
(***************************************************************************)
EXTENDS Integers, FiniteSets

CONSTANT LockUser   \* the threads

ASSUME LockAssumption == IsFiniteSet(LockUser)

VARIABLES
    bits,   \* bits_
    holds   \* what a thread has: nothing, an announcement to undo, or the lock

lockVars == <<bits, holds>>

READER == 2
WRITER == 1

LockTypeOK ==
    /\ bits \in Nat
    /\ holds \in [LockUser -> {"nothing", "undo", "read", "write"}]

\* Fault: the writer only looks for another writer.
TryLockPastReaders(t) ==
    /\ holds[t] = "nothing" /\ bits % READER = 0
    /\ bits' = bits + WRITER
    /\ holds' = [holds EXCEPT ![t] = "write"]

\* try_lock, when its compare-and-exchange succeeds.
TryLock(t) ==
    /\ holds[t] = "nothing" /\ bits = 0
    /\ bits' = WRITER
    /\ holds' = [holds EXCEPT ![t] = "write"]

\* The fetch_add of try_lock_shared and the test of the value it returns.
TryLockShared(t) ==
    /\ holds[t] = "nothing"
    /\ bits' = bits + READER
    /\ holds' = [holds EXCEPT ![t] = IF bits % READER = WRITER THEN "undo" ELSE "read"]

\* The end of a try_lock_shared that met a writer, or unlock_shared.
UnlockShared(t) ==
    /\ holds[t] \in {"undo", "read"}
    /\ bits' = bits - READER
    /\ holds' = [holds EXCEPT ![t] = "nothing"]

Unlock(t) ==
    /\ holds[t] = "write"
    /\ bits' = bits - WRITER
    /\ holds' = [holds EXCEPT ![t] = "nothing"]

LockInit == bits = 0 /\ holds = [t \in LockUser |-> "nothing"]

LockNext ==
    \E t \in LockUser : TryLock(t) \/ TryLockShared(t) \/ UnlockShared(t) \/ Unlock(t)

LockSpec == LockInit /\ [][LockNext]_lockVars

-----------------------------------------------------------------------------
Holders(what) == {t \in LockUser : holds[t] \in what}

\* bits_ counts exactly the writer and the readers, those about to undo included.
WordExact ==
    bits = READER * Cardinality(Holders({"undo", "read"})) 
           + WRITER * Cardinality(Holders({"write"}))

\* A writer of RWSpinLock is alone: no second writer and no reader has got the
\* lock, however announcements and their undoing interleave with its own steps.
WriterAlone ==
    \A t, u \in LockUser : holds[t] = "write" /\ holds[u] \in {"read", "write"} => t = u
=============================================================================
