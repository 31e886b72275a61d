------------------------ MODULE ProducerConsumerQueue ------------------------
(***************************************************************************)
(* raster/util/ProducerConsumerQueue.h: a ring without locks, for one      *)
(* producer and one consumer.                                              *)
(*                                                                         *)
(* Each side loads the other's index, works on a slot, and stores its own  *)
(* index: three steps.  One slot always stays free.                        *)
(***************************************************************************)
EXTENDS Integers, Sequences

CONSTANTS
    Size,       \* size_
    Record,     \* what is written
    Raw         \* memory that holds no record

ASSUME RingAssumption == Size \in Nat /\ Size >= 2 /\ Raw \notin Record

Slot == 0 .. Size - 1

VARIABLES
    records,    \* records_
    readIndex,  \* readIndex_
    writeIndex, \* writeIndex_
    producer,   \* where the producer is: "idle", "fill" or "store"
    consumer,   \* where the consumer is: "idle", "move", "destroy" or "store"
    writing,    \* the argument of write
    record      \* the consumer's variable, or what it sees through frontPtr

ringVars == <<records, readIndex, writeIndex, producer, consumer, writing, record>>

RingTypeOK ==
    /\ records \in [Slot -> Record \cup {Raw}]
    /\ readIndex \in Slot /\ writeIndex \in Slot
    /\ producer \in {"idle", "fill", "store"}
    /\ consumer \in {"idle", "move", "destroy", "store"}
    /\ writing \in Record /\ record \in Record \cup {Raw}

\* The index after i.
NextRecord(i) == IF i + 1 = Size THEN 0 ELSE i + 1

\* Fault: the ring may be filled to its last slot.
WriteFull(x) ==
    /\ producer = "idle"
    /\ producer' = "fill"
    /\ writing' = x
    /\ UNCHANGED <<records, readIndex, writeIndex, consumer, record>>

\* write: the queue is not full.
Write(x) ==
    /\ producer = "idle" /\ NextRecord(writeIndex) # readIndex
    /\ producer' = "fill"
    /\ writing' = x
    /\ UNCHANGED <<records, readIndex, writeIndex, consumer, record>>

\* The record is constructed in its slot.
Construct ==
    /\ producer = "fill"
    /\ producer' = "store"
    /\ records' = [records EXCEPT ![writeIndex] = writing]
    /\ UNCHANGED <<readIndex, writeIndex, consumer, writing, record>>

\* The record becomes visible.
Publish ==
    /\ producer = "store"
    /\ producer' = "idle"
    /\ writeIndex' = NextRecord(writeIndex)
    /\ UNCHANGED <<records, readIndex, consumer, writing, record>>

\* read or frontPtr: the queue is not empty.
Read ==
    /\ consumer = "idle" /\ readIndex # writeIndex
    /\ consumer' = "move"
    /\ UNCHANGED <<records, readIndex, writeIndex, producer, writing, record>>

\* The record is moved out, or used in place.
Move ==
    /\ consumer = "move"
    /\ consumer' = "destroy"
    /\ record' = records[readIndex]
    /\ UNCHANGED <<records, readIndex, writeIndex, producer, writing>>

\* The slot's record is destroyed.
Destroy ==
    /\ consumer = "destroy"
    /\ consumer' = "store"
    /\ records' = [records EXCEPT ![readIndex] = Raw]
    /\ UNCHANGED <<readIndex, writeIndex, producer, writing, record>>

\* The end of read and of popFront.
Release ==
    /\ consumer = "store"
    /\ consumer' = "idle"
    /\ readIndex' = NextRecord(readIndex)
    /\ UNCHANGED <<records, writeIndex, producer, writing, record>>

RingInit ==
    /\ records = [i \in Slot |-> Raw]
    /\ readIndex = 0 /\ writeIndex = 0
    /\ producer = "idle" /\ consumer = "idle"
    /\ writing \in Record /\ record \in Record

RingNext ==
    \/ \E x \in Record : Write(x)
    \/ Construct \/ Publish \/ Read \/ Move \/ Destroy \/ Release

RingSpec == RingInit /\ [][RingNext]_ringVars

-----------------------------------------------------------------------------
\* The number of records in the ring, as sizeGuess computes it.
SizeGuess == IF writeIndex < readIndex THEN writeIndex - readIndex + Size
                                       ELSE writeIndex - readIndex

\* The slot of the i-th record.
SlotOf(i) == IF readIndex + i - 1 < Size THEN readIndex + i - 1
                                         ELSE readIndex + i - 1 - Size

\* 1 once the consumer has the first record's value, and 0 before.
Moved == IF consumer \in {"destroy", "store"} THEN 1 ELSE 0

\* 1 while write holds a record that is not visible yet, and 0 otherwise.
Held == IF producer = "idle" THEN 0 ELSE 1

\* The records that were written and not yet read.
RingItems ==
    [i \in 1 .. SizeGuess + Held - Moved |->
        IF i + Moved <= SizeGuess THEN records[SlotOf(i + Moved)] ELSE writing]

Ring == INSTANCE Fifo WITH
    FifoValue <- Record, FifoReader <- {"consumer"},
    items <- RingItems,
    asking <- IF consumer = "move" THEN {"consumer"} ELSE {},
    result <- [c \in {"consumer"} |-> record]

\* ProducerConsumerQueue is a queue: what read and frontPtr give the consumer are
\* the records in the order in which write took them, each once, none of them
\* overwritten or destroyed before, though the two sides share no lock.
RingIsFifo == Ring!FifoSafe
=============================================================================
