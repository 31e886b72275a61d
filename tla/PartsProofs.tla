---------------------------- MODULE PartsProofs ----------------------------
(***************************************************************************)
(* Proofs about the parts that stand alone: the writer of RWSpinLock is    *)
(* alone for any number of threads, GenericBlockingQueue posts for every   *)
(* item, ProducerConsumerQueue implements a queue for every size, Baton    *)
(* delivers once in each of any number of lifetimes, the keys of Group     *)
(* agree with its counts, and TimedHeap implements a map of deadlines.     *)
(***************************************************************************)
EXTENDS RWSpinLock, BlockingQueue, ProducerConsumerQueue, Baton, Group, TimedHeap,
        FiniteSetTheorems, TLAPS

-----------------------------------------------------------------------------
(***************************************************************************)
(* Sequences.                                                              *)
(***************************************************************************)

\* Sequences of the same length and with the same members are the same.
LEMMA SameSeq ==
    ASSUME NEW S, NEW s \in Seq(S), NEW t \in Seq(S), Len(s) = Len(t),
           \A i \in 1..Len(s) : s[i] = t[i]
    PROVE  s = t
OBVIOUS

\* A sequence that is not empty, and what is left without its first member.
LEMMA NonEmpty ==
    ASSUME NEW S, NEW s \in Seq(S), s # <<>>
    PROVE  /\ Len(s) \in Nat \ {0} /\ Len(s) \in 1..Len(s)
           /\ \A i \in 1..Len(s) : s[i] \in S
           /\ Head(s) \in S /\ Tail(s) \in Seq(S) /\ Len(Tail(s)) = Len(s) - 1
<1>1. Len(s) \in Nat \ {0}
  OBVIOUS
<1>2. \A i \in 1..Len(s) : s[i] \in S
  OBVIOUS
<1>3. Head(s) \in S /\ Tail(s) \in Seq(S) /\ Len(Tail(s)) = Len(s) - 1
  OBVIOUS
<1> QED BY <1>1, <1>2, <1>3

\* A sequence without its last member.
LEMMA Shorter ==
    ASSUME NEW S, NEW s \in Seq(S), Len(s) > 0
    PROVE  /\ SubSeq(s, 1, Len(s) - 1) \in Seq(S)
           /\ Len(SubSeq(s, 1, Len(s) - 1)) = Len(s) - 1
           /\ \A i \in 1..(Len(s) - 1) : SubSeq(s, 1, Len(s) - 1)[i] = s[i]
<1> DEFINE t == SubSeq(s, 1, Len(s) - 1)
<1>1. Len(s) \in Nat /\ Len(s) - 1 \in Nat
  OBVIOUS
<1>2. t \in Seq(S)
  OBVIOUS
<1>3. Len(t) \in Nat /\ DOMAIN t = 1..Len(t)
  BY <1>2
<1>4. DOMAIN t = 1..(Len(s) - 1)
  BY <1>1
<1>5. Len(t) = Len(s) - 1
  <2> HIDE DEF t
  <2>1. \A i \in Int : i \in 1..Len(t) <=> i \in 1..(Len(s) - 1)
    BY <1>3, <1>4, Zenon
  <2>2. Len(t) > 0 => Len(t) <= Len(s) - 1
    BY <2>1, <1>3
  <2>3. Len(s) - 1 > 0 => Len(s) - 1 <= Len(t)
    BY <2>1, <1>1
  <2> QED  BY <1>1, <1>3, <2>2, <2>3
<1>6. \A i \in 1..(Len(s) - 1) : t[i] = s[i]
  OBVIOUS
<1> QED  BY <1>2, <1>5, <1>6, Zenon

-----------------------------------------------------------------------------
(***************************************************************************)
(* RWSpinLock.                                                             *)
(***************************************************************************)

Announced == Holders({"undo", "read"})
Writers   == Holders({"write"})

\* WriterAlone alone is not inductive: a thread gets the lock because of bits_,
\* which says something about the others only through WordExact.
LockInv == LockTypeOK /\ WordExact /\ WriterAlone

LEMMA HoldersFinite ==
  /\ IsFiniteSet(Announced) /\ Cardinality(Announced) \in Nat
  /\ IsFiniteSet(Writers) /\ Cardinality(Writers) \in Nat
<1>1. Announced \in SUBSET LockUser /\ Writers \in SUBSET LockUser
  BY Zenon DEF Announced, Writers, Holders
<1>2. IsFiniteSet(Announced) /\ IsFiniteSet(Writers)
  BY <1>1, LockAssumption, FS_Subset, Zenon
<1> QED BY <1>2, FS_CardinalityType, Zenon

\* With a lone writer bits_ tells whether there is one, and 0 means nobody.
LEMMA WordTells ==
  ASSUME LockInv
  PROVE  /\ bits % READER = WRITER <=> Writers # {}
         /\ bits = 0 => Announced = {} /\ Writers = {}
<1>1. Cardinality(Writers) = IF Writers = {} THEN 0 ELSE 1
  <2>1. CASE Writers = {}
    BY <2>1, FS_EmptySet, Zenon
  <2>2. CASE Writers # {}
    <3>1. PICK t : t \in Writers
      BY <2>2, Zenon
    <3>2. \A u \in Writers : u = t
      BY <3>1, Zenon DEF Writers, Holders, LockInv, WriterAlone
    <3>3. Writers = {t}
      BY <3>1, <3>2, Zenon
    <3> QED BY <2>2, <3>3, FS_Singleton, Zenon
  <2> QED BY <2>1, <2>2, Zenon
<1>2. bits = 2 * Cardinality(Announced) + Cardinality(Writers)
  BY HoldersFinite DEF LockInv, WordExact, Announced, Writers, READER, WRITER
<1>3. bits % 2 = 1 <=> Cardinality(Writers) = 1
  BY ONLY <1>1, <1>2, HoldersFinite
<1>4. bits = 0 => Cardinality(Announced) = 0 /\ Cardinality(Writers) = 0
  BY ONLY <1>2, HoldersFinite
<1> QED BY <1>1, <1>3, <1>4, HoldersFinite, FS_EmptySet DEF READER, WRITER

\* Each step keeps LockInv.
LEMMA LockStep == LockInv /\ [LockNext]_lockVars => LockInv'
<1> SUFFICES ASSUME LockInv, [LockNext]_lockVars PROVE LockInv'
  BY Zenon
<1>0. /\ bits \in Nat
      /\ bits = 2 * Cardinality(Announced) + Cardinality(Writers)
  BY HoldersFinite DEF LockInv, LockTypeOK, WordExact, Announced, Writers, READER, WRITER
<1>a. WordExact' <=> bits' = 2 * Cardinality(Announced') + Cardinality(Writers')
  <2>1. Announced' \in SUBSET LockUser /\ Writers' \in SUBSET LockUser
    BY Zenon DEF Announced, Writers, Holders
  <2>2. Cardinality(Announced') \in Nat /\ Cardinality(Writers') \in Nat
    BY <2>1, LockAssumption, FS_Subset, FS_CardinalityType, Zenon
  <2> QED BY <2>2 DEF WordExact, Announced, Writers, READER, WRITER
<1>1. ASSUME NEW t \in LockUser, TryLock(t) PROVE LockInv'
  <2>1. Announced' = {} /\ Writers' = {t}
    BY <1>1, WordTells, Zenon DEF TryLock, Announced, Writers, Holders, LockInv, LockTypeOK
  <2>2. Cardinality(Announced') = 0 /\ Cardinality(Writers') = 1
    BY <2>1, FS_EmptySet, FS_Singleton, Zenon
  <2>3. LockTypeOK' /\ bits' = 1
    BY <1>1, Zenon DEF TryLock, LockInv, LockTypeOK, WRITER
  <2>4. WriterAlone'
    BY <2>1 DEF WriterAlone, Announced, Writers, Holders
  <2> QED BY <1>a, <2>2, <2>3, <2>4 DEF LockInv
<1>2. ASSUME NEW t \in LockUser, TryLockShared(t) PROVE LockInv'
  <2>1. Announced' = Announced \cup {t} /\ Writers' = Writers /\ t \notin Announced
    BY <1>2, Zenon DEF TryLockShared, Announced, Writers, Holders, LockInv, LockTypeOK
  <2>2. Cardinality(Announced') = Cardinality(Announced) + 1
    BY <2>1, HoldersFinite, FS_AddElement, Zenon
  <2>3. LockTypeOK' /\ bits' = bits + 2
    BY <1>2 DEF TryLockShared, LockInv, LockTypeOK, READER
  <2>4. WriterAlone'
    BY <1>2, <2>1, WordTells, Zenon
    DEF TryLockShared, WriterAlone, Writers, Holders, LockInv, LockTypeOK
  <2>5. bits' = 2 * Cardinality(Announced') + Cardinality(Writers')
    BY ONLY <1>0, <2>1, <2>2, <2>3, HoldersFinite
  <2> QED BY <1>a, <2>3, <2>4, <2>5, Zenon DEF LockInv
<1>3. ASSUME NEW t \in LockUser, UnlockShared(t) PROVE LockInv'
  <2>1. Announced' = Announced \ {t} /\ Writers' = Writers /\ t \in Announced
    BY <1>3, Zenon DEF UnlockShared, Announced, Writers, Holders, LockInv, LockTypeOK
  <2>2. Cardinality(Announced') = Cardinality(Announced) - 1
    BY <2>1, HoldersFinite, FS_RemoveElement, Zenon
  <2>3. Cardinality(Announced') \in Nat
    BY <2>1, HoldersFinite, FS_RemoveElement, FS_CardinalityType, Zenon
  <2>4. bits' = bits - 2
    BY <1>3, Zenon DEF UnlockShared, READER
  <2>5. bits' = 2 * Cardinality(Announced') + Cardinality(Writers') /\ bits' \in Nat
    BY ONLY <1>0, <2>1, <2>2, <2>3, <2>4, HoldersFinite
  <2>6. LockTypeOK' /\ WriterAlone'
    BY <1>3, <2>5, Zenon DEF UnlockShared, LockInv, LockTypeOK, WriterAlone
  <2> QED BY <1>a, <2>5, <2>6, Zenon DEF LockInv
<1>4. ASSUME NEW t \in LockUser, Unlock(t) PROVE LockInv'
  <2>1. Writers' = Writers \ {t} /\ Announced' = Announced /\ t \in Writers
    BY <1>4, Zenon DEF Unlock, Announced, Writers, Holders, LockInv, LockTypeOK
  <2>2. Cardinality(Writers') = Cardinality(Writers) - 1
    BY <2>1, HoldersFinite, FS_RemoveElement, Zenon
  <2>3. Cardinality(Writers') \in Nat
    BY <2>1, HoldersFinite, FS_RemoveElement, FS_CardinalityType, Zenon
  <2>4. bits' = bits - 1
    BY <1>4, Zenon DEF Unlock, WRITER
  <2>5. bits' = 2 * Cardinality(Announced') + Cardinality(Writers') /\ bits' \in Nat
    BY ONLY <1>0, <2>1, <2>2, <2>3, <2>4, HoldersFinite
  <2>6. LockTypeOK' /\ WriterAlone'
    BY <1>4, <2>5, Zenon DEF Unlock, LockInv, LockTypeOK, WriterAlone
  <2> QED BY <1>a, <2>5, <2>6, Zenon DEF LockInv
<1>5. CASE UNCHANGED lockVars
  BY <1>5, Zenon DEF lockVars, LockInv, LockTypeOK, WordExact, WriterAlone, Holders
<1> QED BY <1>1, <1>2, <1>3, <1>4, <1>5, Zenon DEF LockNext

\* A writer of RWSpinLock is alone, for any number of threads.
THEOREM LockExcludes == LockSpec => []WriterAlone
<1>1. LockInit => LockInv
  <2> SUFFICES ASSUME LockInit PROVE LockInv
    BY Zenon
  <2>1. Announced = {} /\ Writers = {}
    BY Zenon DEF LockInit, Announced, Writers, Holders
  <2>2. Cardinality(Announced) = 0 /\ Cardinality(Writers) = 0
    BY <2>1, FS_EmptySet, Zenon
  <2>3. WordExact
    BY <2>2 DEF LockInit, WordExact, Announced, Writers, READER, WRITER
  <2> QED BY <2>3, Zenon DEF LockInit, LockInv, LockTypeOK, WriterAlone
<1>2. LockInv => WriterAlone
  BY Zenon DEF LockInv
<1> QED BY <1>1, <1>2, LockStep, PTL DEF LockSpec

-----------------------------------------------------------------------------
(***************************************************************************)
(* GenericBlockingQueue.                                                   *)
(***************************************************************************)

Looking == {t \in Taker : tpc[t] = "look"}

\* Posted is inductive with the types: an item comes with a post, a post is only
\* taken by a taker that then looks, and who looks at an item takes it.
THEOREM EveryItemPosted == QueueSpec => [](QueueTypeOK /\ Posted)
<1> DEFINE Inv == QueueTypeOK /\ Posted
<1>a. \A S \in SUBSET Taker : IsFiniteSet(S) /\ Cardinality(S) \in Nat
  BY QueueAssumption, FS_Subset, FS_CardinalityType, Zenon
<1>b. Posted <=> Len(queue) <= sem + Cardinality(Looking)
  BY Zenon DEF Posted, Looking
<1>c. Posted' <=> Len(queue') <= sem' + Cardinality(Looking')
  BY Zenon DEF Posted, Looking
<1>d. /\ Looking \in SUBSET Taker /\ Looking' \in SUBSET Taker
      /\ Cardinality(Looking) \in Nat /\ Cardinality(Looking') \in Nat
  BY <1>a, Zenon DEF Looking
<1>1. QueueInit => Inv
  BY <1>b, <1>d, QueueAssumption DEF QueueInit, QueueTypeOK
<1>2. Inv /\ [QueueNext]_queueVars => Inv'
  <2> SUFFICES ASSUME Inv, [QueueNext]_queueVars PROVE Inv'
    BY Zenon
  <2>1. ASSUME NEW x \in Item, AddItem(x) PROVE Inv'
    <3>1. QueueTypeOK' /\ Len(queue') = Len(queue) + 1 /\ sem' = sem + 1
      BY <2>1, QueueAssumption DEF AddItem, QueueTypeOK
    <3>2. Looking' = Looking
      BY <2>1, Zenon DEF AddItem, Looking
    <3> QED BY <1>b, <1>c, <1>d, <3>1, <3>2 DEF QueueTypeOK
  <2>2. ASSUME NEW t \in Taker, CallTake(t) PROVE Inv'
    <3>1. QueueTypeOK'
      BY <2>2, Zenon DEF CallTake, QueueTypeOK
    <3>2. Looking' = Looking \cup {t} /\ t \notin Looking
      BY <2>2, Zenon DEF CallTake, Looking, QueueTypeOK
    <3>3. Cardinality(Looking') = Cardinality(Looking) + 1
      BY <1>a, <1>d, <3>2, FS_AddElement, Zenon
    <3> QED BY <1>b, <1>c, <1>d, <2>2, <3>1, <3>3 DEF CallTake, QueueTypeOK
  <2>3. ASSUME NEW t \in Taker, Look(t) PROVE Inv'
    <3>1. Looking' = Looking \ {t} /\ t \in Looking
      BY <2>3, Zenon DEF Look, Looking, QueueTypeOK
    <3>2. Cardinality(Looking') = Cardinality(Looking) - 1
      BY <1>a, <1>d, <3>1, FS_RemoveElement, Zenon
    <3>3. CASE queue # <<>>
      <4>1. queue \in Seq(Item) /\ queue' = Tail(queue) /\ sem' = sem
        BY <2>3, <3>3, Zenon DEF Look, QueueTypeOK
      <4>2. Head(queue) \in Item /\ queue' \in Seq(Item) /\ Len(queue') = Len(queue) - 1
        BY ONLY <3>3, <4>1, NonEmpty, Zenon
      <4>3. QueueTypeOK'
        BY <2>3, <3>3, <4>2, Zenon DEF Look, QueueTypeOK
      <4> QED BY <1>b, <1>c, <1>d, <3>2, <4>1, <4>2, <4>3 DEF QueueTypeOK
    <3>4. CASE queue = <<>>
      <4>1. QueueTypeOK' /\ Len(queue') = 0 /\ sem' \in Nat
        BY <2>3, <3>4, Zenon DEF Look, QueueTypeOK
      <4> QED BY <1>c, <1>d, <4>1
    <3> QED BY <3>3, <3>4, Zenon
  <2>4. ASSUME NEW t \in Taker, SemWait(t) PROVE Inv'
    <3>1. QueueTypeOK' /\ sem' = sem - 1 /\ queue' = queue
      BY <2>4 DEF SemWait, QueueTypeOK
    <3>2. Looking' = Looking \cup {t} /\ t \notin Looking
      BY <2>4, Zenon DEF SemWait, Looking, QueueTypeOK
    <3>3. Cardinality(Looking') = Cardinality(Looking) + 1
      BY <1>a, <1>d, <3>2, FS_AddElement, Zenon
    <3> QED BY <1>b, <1>c, <1>d, <3>1, <3>3 DEF QueueTypeOK
  <2>5. CASE UNCHANGED queueVars
    BY <2>5, Zenon DEF queueVars, QueueTypeOK, Posted
  <2> QED BY <2>1, <2>2, <2>3, <2>4, <2>5, Zenon DEF QueueNext
<1> QED BY <1>1, <1>2, PTL DEF QueueSpec

\* Items leave GenericBlockingQueue in the order in which add() put them in, each to
\* one thread that is inside take(), although a taker may look, sleep and look again
\* while others overtake it: the safety half of QueueIsFifo.
THEOREM QueueKeepsOrder == QueueSpec => TakeCall!FifoSafe
<1> DEFINE asking == {t \in Taker : tpc[t] # "out"}
<1>1. QueueInit => TakeCall!FifoInit
  BY Zenon DEF QueueInit, TakeCall!FifoInit
<1>2. QueueTypeOK /\ [QueueNext]_queueVars => [TakeCall!FifoNext]_(TakeCall!fifoVars)
  <2> SUFFICES ASSUME QueueTypeOK, [QueueNext]_queueVars
               PROVE  TakeCall!FifoNext \/ UNCHANGED <<queue, asking, got>>
    BY Zenon DEF TakeCall!fifoVars
  <2>1. ASSUME NEW x \in Item, AddItem(x) PROVE TakeCall!FifoNext
    BY <2>1, Zenon DEF AddItem, TakeCall!FifoNext, TakeCall!FifoPut
  <2>2. ASSUME NEW t \in Taker, CallTake(t) PROVE TakeCall!FifoNext
    <3>1. t \notin asking /\ asking' = asking \cup {t} /\ UNCHANGED <<queue, got>>
      BY <2>2, Zenon DEF CallTake, QueueTypeOK
    <3> QED BY <3>1, Zenon DEF TakeCall!FifoNext, TakeCall!FifoAsk
  <2>3. ASSUME NEW t \in Taker, Look(t), queue # <<>> PROVE TakeCall!FifoNext
    <3>1. /\ t \in asking /\ asking' = asking \ {t} /\ queue' = Tail(queue)
          /\ got' = [got EXCEPT ![t] = Head(queue)]
      BY <2>3, Zenon DEF Look, QueueTypeOK
    <3> QED BY <2>3, <3>1, Zenon DEF TakeCall!FifoNext, TakeCall!FifoTake
  <2>4. ASSUME NEW t \in Taker, Look(t), queue = <<>> PROVE UNCHANGED <<queue, asking, got>>
    BY <2>4, Zenon DEF Look, QueueTypeOK
  <2>5. ASSUME NEW t \in Taker, SemWait(t) PROVE UNCHANGED <<queue, asking, got>>
    BY <2>5, Zenon DEF SemWait, QueueTypeOK
  <2>6. CASE UNCHANGED queueVars
    BY <2>6, Zenon DEF queueVars
  <2> QED BY <2>1, <2>2, <2>3, <2>4, <2>5, <2>6, Zenon DEF QueueNext
<1> QED BY <1>1, <1>2, EveryItemPosted, PTL DEF QueueSpec, TakeCall!FifoSafe

-----------------------------------------------------------------------------
(***************************************************************************)
(* ProducerConsumerQueue.                                                  *)
(***************************************************************************)

\* The producer's slot is outside of the records in the ring, the consumer's is
\* the first of them, and all but one just destroyed hold what was written.
RingInv ==
    /\ RingTypeOK
    /\ producer # "idle" => NextRecord(writeIndex) # readIndex
    /\ producer = "store" => records[writeIndex] = writing
    /\ consumer # "idle" => readIndex # writeIndex
    /\ \A i \in 1..SizeGuess : i > Moved => records[SlotOf(i)] \in Record

\* The records in the ring have slots of their own, none of them the producer's.
LEMMA SlotsApart ==
  ASSUME readIndex \in Slot, writeIndex \in Slot
  PROVE  /\ SizeGuess \in Slot
         /\ \A i \in 1..SizeGuess : SlotOf(i) \in Slot /\ SlotOf(i) # writeIndex
         /\ \A i \in 1..SizeGuess : SlotOf(i) = readIndex <=> i = 1
         /\ readIndex # writeIndex <=> SizeGuess >= 1
         /\ SlotOf(1) = readIndex
         /\ SlotOf(SizeGuess + 1) = writeIndex
  BY RingAssumption DEF Slot, SizeGuess, SlotOf

\* A store of writeIndex_ adds one record at the end.
LEMMA PublishGrows ==
  ASSUME readIndex \in Slot, writeIndex \in Slot, NextRecord(writeIndex) # readIndex,
         writeIndex' = NextRecord(writeIndex), readIndex' = readIndex
  PROVE  /\ writeIndex' \in Slot
         /\ SizeGuess' = SizeGuess + 1
         /\ \A i \in 1..SizeGuess + 1 : SlotOf(i)' = SlotOf(i)
  BY RingAssumption DEF Slot, SizeGuess, SlotOf, NextRecord

\* A store of readIndex_ takes the first record away.
LEMMA ReleaseShrinks ==
  ASSUME readIndex \in Slot, writeIndex \in Slot, readIndex # writeIndex,
         readIndex' = NextRecord(readIndex), writeIndex' = writeIndex
  PROVE  /\ readIndex' \in Slot
         /\ SizeGuess' = SizeGuess - 1
         /\ \A i \in 1..SizeGuess - 1 : SlotOf(i)' = SlotOf(i + 1)
         /\ NextRecord(writeIndex) # readIndex => NextRecord(writeIndex) # readIndex'
  BY RingAssumption DEF Slot, SizeGuess, SlotOf, NextRecord

LEMMA RingInductive == RingInv /\ [RingNext]_ringVars => RingInv'
<1> SUFFICES ASSUME RingInv, [RingNext]_ringVars PROVE RingInv'
  BY Zenon
<1> USE RingAssumption DEF RingInv, RingTypeOK
<1>1. ASSUME NEW x \in Record, Write(x) PROVE RingInv'
  BY <1>1, Zenon DEF Write, NextRecord, SizeGuess, SlotOf, Moved
<1>2. CASE Construct
  <2>1. RingTypeOK' /\ records'[writeIndex] = writing
    BY <1>2, Zenon DEF Construct
  <2>2. SizeGuess' = SizeGuess /\ Moved' = Moved /\ \A i : SlotOf(i)' = SlotOf(i)
    BY <1>2, Zenon DEF Construct, SizeGuess, SlotOf, Moved
  <2>3. \A i \in 1..SizeGuess : i > Moved => records'[SlotOf(i)] \in Record
    BY <1>2, SlotsApart, Zenon DEF Construct
  <2> QED BY <1>2, <2>1, <2>2, <2>3, Zenon DEF Construct, NextRecord
<1>3. CASE Publish
  <2>1. /\ writeIndex' \in Slot /\ SizeGuess' = SizeGuess + 1
        /\ \A i \in 1..SizeGuess + 1 : SlotOf(i)' = SlotOf(i)
    BY <1>3, PublishGrows, Zenon DEF Publish
  <2>2. SizeGuess \in Nat /\ SlotOf(SizeGuess + 1) = writeIndex /\ Moved' = Moved
    BY <1>3, SlotsApart DEF Publish, Moved, Slot
  <2>3. \A i \in 1..SizeGuess + 1 : i > Moved => records[SlotOf(i)] \in Record
    BY <1>3, <2>2 DEF Publish
  <2>4. \A i \in 1..SizeGuess' : i > Moved' => records'[SlotOf(i)'] \in Record
    BY <1>3, <2>1, <2>2, <2>3, Zenon DEF Publish
  <2> QED BY <1>3, <2>1, <2>4, Zenon DEF Publish, NextRecord
<1>4. CASE Read
  BY <1>4, Zenon DEF Read, NextRecord, SizeGuess, SlotOf, Moved
<1>5. CASE Move
  <2>1. records[readIndex] \in Record
    BY <1>5, SlotsApart DEF Move, Moved, Slot
  <2> QED BY <1>5, <2>1 DEF Move, NextRecord, SizeGuess, SlotOf, Moved
<1>6. CASE Destroy
  <2>1. RingTypeOK'
    BY <1>6, Zenon DEF Destroy
  <2>2. SizeGuess' = SizeGuess /\ Moved' = 1 /\ Moved = 1 /\ \A i : SlotOf(i)' = SlotOf(i)
    BY <1>6, Zenon DEF Destroy, SizeGuess, SlotOf, Moved
  <2>3. \A i \in 1..SizeGuess : i > 1 => records'[SlotOf(i)] \in Record
    BY <1>6, <2>2, SlotsApart DEF Destroy
  <2> QED BY <1>6, <2>1, <2>2, <2>3, Zenon DEF Destroy, NextRecord
<1>7. CASE Release
  <2>1. /\ readIndex' \in Slot /\ SizeGuess' = SizeGuess - 1
        /\ \A i \in 1..SizeGuess - 1 : SlotOf(i)' = SlotOf(i + 1)
        /\ NextRecord(writeIndex) # readIndex => NextRecord(writeIndex) # readIndex'
    BY <1>7, ReleaseShrinks, Zenon DEF Release
  <2>2. SizeGuess \in Nat /\ Moved = 1 /\ Moved' = 0
    BY <1>7, SlotsApart DEF Release, Moved, Slot
  <2>3. \A i \in 1..SizeGuess' : records'[SlotOf(i)'] \in Record
    BY <1>7, <2>1, <2>2 DEF Release
  <2> QED BY <1>7, <2>1, <2>2, <2>3, Zenon DEF Release, NextRecord
<1>8. CASE UNCHANGED ringVars
  BY <1>8, Zenon DEF ringVars, NextRecord, SizeGuess, SlotOf, Moved
<1> QED BY <1>1, <1>2, <1>3, <1>4, <1>5, <1>6, <1>7, <1>8, Zenon DEF RingNext

\* Each step of the ring puts a record in, begins a read, takes a record out or
\* leaves the queue as it is.
LEMMA RingStep == RingInv /\ [RingNext]_ringVars => [Ring!FifoNext]_(Ring!fifoVars)
<1> SUFFICES ASSUME RingInv, [RingNext]_ringVars
             PROVE  Ring!FifoNext \/ UNCHANGED <<RingItems,
                        IF consumer = "move" THEN {"consumer"} ELSE {},
                        [c \in {"consumer"} |-> record]>>
  BY Zenon DEF Ring!fifoVars
<1> DEFINE n == SizeGuess + Held - Moved
<1>0. /\ SizeGuess \in Nat /\ Held \in 0..1 /\ Moved \in 0..1 /\ n \in Nat
      /\ RingItems \in Seq(Record) /\ Len(RingItems) = n
      /\ \A i \in 1..n : RingItems[i] = IF i + Moved <= SizeGuess
                                          THEN records[SlotOf(i + Moved)] ELSE writing
  <2>1. /\ SizeGuess \in Nat /\ Held \in 0..1 /\ Moved \in 0..1
        /\ Moved = 1 => SizeGuess >= 1
    BY SlotsApart DEF RingInv, RingTypeOK, Held, Moved, Slot
  <2>2. \A i \in 1..n : (IF i + Moved <= SizeGuess
                           THEN records[SlotOf(i + Moved)] ELSE writing) \in Record
    BY <2>1 DEF RingInv, RingTypeOK
  <2> QED BY <2>1, <2>2 DEF RingItems
<1>1. ASSUME NEW x \in Record, Write(x) PROVE Ring!FifoNext
  <2>1. /\ SizeGuess' = SizeGuess /\ Moved' = Moved /\ Held = 0 /\ Held' = 1
        /\ records' = records /\ writing' = x /\ \A i : SlotOf(i)' = SlotOf(i)
    BY <1>1, Zenon DEF Write, SizeGuess, Moved, Held, SlotOf
  <2>2. RingItems' = [i \in 1..n + 1 |-> IF i + Moved <= SizeGuess
                                         THEN records[SlotOf(i + Moved)] ELSE x]
    BY <1>0, <2>1 DEF RingItems
  <2>3. /\ RingItems' \in Seq(Record) /\ Len(RingItems') = n + 1
        /\ RingItems'[n + 1] = x
        /\ \A i \in 1..n : RingItems'[i] = RingItems[i]
    <3>1. \A i \in 1..n : RingItems[i] \in Record
      BY <1>0
    <3>2. \A i \in 1..n : RingItems'[i] = RingItems[i]
      BY <1>0, <2>1, <2>2
    <3>3. RingItems'[n + 1] = x
      BY <1>0, <2>1, <2>2
    <3>4. \A i \in 1..n + 1 : RingItems'[i] \in Record
      BY <1>0, <3>1, <3>2, <3>3
    <3>5. RingItems' \in Seq(Record) /\ Len(RingItems') = n + 1
      BY <1>0, <2>2, <3>4
    <3> QED BY <3>2, <3>3, <3>5, Zenon
  <2>4. /\ Append(RingItems, x) \in Seq(Record) /\ Len(Append(RingItems, x)) = n + 1
        /\ Append(RingItems, x)[n + 1] = x
        /\ \A i \in 1..n : Append(RingItems, x)[i] = RingItems[i]
    BY <1>0
  <2>5. \A i \in 1..n + 1 : RingItems'[i] = Append(RingItems, x)[i]
    BY <1>0, <2>3, <2>4
  <2>6. RingItems' = Append(RingItems, x)
    BY <2>3, <2>4, <2>5, SameSeq, Zenon
  <2> QED BY <1>1, <2>6, Zenon DEF Write, Ring!FifoNext, Ring!FifoPut
<1>2. CASE Construct
  <2>1. /\ SizeGuess' = SizeGuess /\ Moved' = Moved /\ Held' = Held
        /\ writing' = writing /\ \A i : SlotOf(i)' = SlotOf(i)
    BY <1>2, Zenon DEF Construct, SizeGuess, Moved, Held, SlotOf
  <2>2. \A i \in 1..SizeGuess : records'[SlotOf(i)] = records[SlotOf(i)]
    BY <1>2, SlotsApart, Zenon DEF Construct, RingInv, RingTypeOK
  <2>3. RingItems' = RingItems
    BY <1>0, <2>1, <2>2 DEF RingItems
  <2> QED BY <1>2, <2>3, Zenon DEF Construct
<1>3. CASE Publish
  <2>1. /\ SizeGuess' = SizeGuess + 1 /\ \A i \in 1..SizeGuess + 1 : SlotOf(i)' = SlotOf(i)
    BY <1>3, PublishGrows, Zenon DEF Publish, RingInv, RingTypeOK
  <2>2. Moved' = Moved /\ Held = 1 /\ Held' = 0 /\ records' = records
    BY <1>3, Zenon DEF Publish, Moved, Held
  <2>3. records[SlotOf(SizeGuess + 1)] = writing
    BY <1>3, SlotsApart, Zenon DEF Publish, RingInv, RingTypeOK
  <2>4. RingItems' = [i \in 1..n |-> records[SlotOf(i + Moved)]]
    BY <1>0, <2>1, <2>2 DEF RingItems
  <2>5. \A i \in 1..n : RingItems[i] = records[SlotOf(i + Moved)]
    BY <1>0, <2>2, <2>3
  <2>6. RingItems' = RingItems
    BY <1>0, <2>4, <2>5, Zenon DEF RingItems
  <2> QED BY <1>3, <2>6, Zenon DEF Publish
<1>4. CASE Read
  <2>1. RingItems' = RingItems
    BY <1>4, Zenon DEF Read, RingItems, SizeGuess, Moved, Held, SlotOf
  <2> QED BY <1>4, <2>1, Zenon DEF Read, Ring!FifoNext, Ring!FifoAsk
<1>5. CASE Move
  <2>1. /\ SizeGuess' = SizeGuess /\ Moved = 0 /\ Moved' = 1 /\ Held' = Held
        /\ records' = records /\ writing' = writing /\ \A i : SlotOf(i)' = SlotOf(i)
    BY <1>5, Zenon DEF Move, SizeGuess, Moved, Held, SlotOf
  <2>2. SizeGuess >= 1 /\ SlotOf(1) = readIndex
    BY <1>5, SlotsApart, Zenon DEF Move, RingInv, RingTypeOK
  <2>3. RingItems # <<>> /\ Head(RingItems) = record'
    BY <1>0, <1>5, <2>1, <2>2 DEF Move
  <2>4. RingItems' = [i \in 1..n - 1 |-> IF i + 1 <= SizeGuess
                                         THEN records[SlotOf(i + 1)] ELSE writing]
    BY <1>0, <2>1 DEF RingItems
  <2>5. /\ Tail(RingItems) \in Seq(Record) /\ Len(Tail(RingItems)) = n - 1
        /\ \A i \in 1..n - 1 : Tail(RingItems)[i] = RingItems[i + 1]
    BY <1>0, <2>3
  <2>6. \A i \in 1..n - 1 : RingItems'[i] = Tail(RingItems)[i]
    BY <1>0, <2>1, <2>4, <2>5
  <2>7. RingItems' \in Seq(Record) /\ Len(RingItems') = n - 1
    <3>1. n - 1 \in Nat
      BY <1>0, <2>3
    <3>2. \A i \in 1..n - 1 : RingItems'[i] \in Record
      BY <1>0, <2>5, <2>6
    <3> QED BY <2>4, <3>1, <3>2
  <2>8. RingItems' = Tail(RingItems)
    BY <2>5, <2>6, <2>7, SameSeq, Zenon
  <2> QED BY <1>5, <2>3, <2>8, Zenon DEF Move, Ring!FifoNext, Ring!FifoTake
<1>6. CASE Destroy
  <2>1. /\ SizeGuess' = SizeGuess /\ Moved = 1 /\ Moved' = 1 /\ Held' = Held
        /\ writing' = writing /\ \A i : SlotOf(i)' = SlotOf(i)
    BY <1>6, Zenon DEF Destroy, SizeGuess, Moved, Held, SlotOf
  <2>2. \A i \in 2..SizeGuess : records'[SlotOf(i)] = records[SlotOf(i)]
    BY <1>6, SlotsApart DEF Destroy, RingInv, RingTypeOK
  <2>3. RingItems' = RingItems
    BY <1>0, <2>1, <2>2 DEF RingItems
  <2> QED BY <1>6, <2>3, Zenon DEF Destroy
<1>7. CASE Release
  <2>1. /\ SizeGuess' = SizeGuess - 1
        /\ \A i \in 1..SizeGuess - 1 : SlotOf(i)' = SlotOf(i + 1)
    BY <1>7, ReleaseShrinks, Zenon DEF Release, RingInv, RingTypeOK
  <2>2. /\ Moved = 1 /\ Moved' = 0 /\ Held' = Held
        /\ records' = records /\ writing' = writing
    BY <1>7, Zenon DEF Release, Moved, Held
  <2>3. RingItems' = RingItems
    BY <1>0, <2>1, <2>2 DEF RingItems
  <2> QED BY <1>7, <2>3, Zenon DEF Release
<1>8. CASE UNCHANGED ringVars
  BY <1>8 DEF ringVars, RingItems, SizeGuess, Moved, Held, SlotOf
<1> QED BY <1>1, <1>2, <1>3, <1>4, <1>5, <1>6, <1>7, <1>8, Zenon DEF RingNext

\* ProducerConsumerQueue implements a queue, for every size and every record: the
\* producer's steps put a record in once, the consumer's take it out once, in order.
THEOREM RingImplements == RingSpec => RingIsFifo
<1>1. RingInit => RingInv
  BY RingAssumption DEF RingInit, RingInv, RingTypeOK, Slot, SizeGuess
<1>2. RingInit => Ring!FifoInit
  BY RingAssumption DEF RingInit, Ring!FifoInit, RingItems, SizeGuess, Held, Moved
<1> QED BY <1>1, <1>2, RingInductive, RingStep, PTL
        DEF RingSpec, RingIsFifo, Ring!FifoSafe

-----------------------------------------------------------------------------
(***************************************************************************)
(* Baton.                                                                  *)
(***************************************************************************)

\* Where the waiting thread and this lifetime's poster may be, by state_.  A
\* thread sleeps after a late delivery only while its futexWake is to come.
BatonInv ==
    /\ BatonTypeOK
    /\ \A n \in Life : /\ n > life => poster[n] = "out"
                       /\ n < life => poster[n] \in {"wake", "done"}
    /\ waiter \in {"expired", "late"} => timed
    /\ state = "INIT" =>
         waiter \in {"out", "spin", "block"} /\ poster[life] \in {"out", "cas"}
    /\ state = "EARLY_DELIVERY" =>
         waiter \in {"out", "spin", "block", "posted"} /\ poster[life] = "done"
    /\ state = "WAITING" =>
         /\ waiter \in {"futex", "asleep", "awake", "expired"}
         /\ poster[life] \in {"out", "cas", "store"}
    /\ state = "LATE_DELIVERY" =>
         /\ waiter \in {"futex", "asleep", "awake", "expired", "posted", "late"}
         /\ poster[life] \in {"wake", "done"}
         /\ waiter = "asleep" => poster[life] = "wake"
    /\ state = "TIMED_OUT" => waiter = "late"
    /\ ~batonFailed

\* No assert of Baton fails, and no wait reports a delivery that was not made, in
\* any number of lifetimes.
THEOREM BatonIsHonest == BatonSpec => []BatonHonest
<1>1. BatonInit => BatonInv
  <2> SUFFICES ASSUME BatonInit PROVE BatonInv
    BY Zenon
  <2>1. life \in Life /\ \A n \in Life : ~(n < life) /\ poster[n] = "out"
    BY BatonAssumption DEF BatonInit, Life
  <2>2. timed \in BOOLEAN /\ batonFailed \in BOOLEAN /\ ~batonFailed
    BY Zenon DEF BatonInit
  <2>3. poster \in [Life -> {"out", "cas", "store", "wake", "done"}]
    BY Zenon DEF BatonInit
  <2> QED BY <2>1, <2>2, <2>3, Zenon DEF BatonInit, BatonInv, BatonTypeOK
<1>2. BatonInv /\ [BatonNext]_batonVars => BatonInv'
  <2> SUFFICES ASSUME BatonInv, [BatonNext]_batonVars PROVE BatonInv'
    BY Zenon
  <2> USE BatonAssumption DEF BatonInv, BatonTypeOK, Life, Assert, WaiterTo, PosterTo
  <2>1. CASE CallWait
    BY <2>1, Zenon DEF CallWait
  <2>2. CASE TryWait
    BY <2>2, Zenon DEF TryWait
  <2>3. CASE Reset
    BY <2>3 DEF Reset
  <2>4. CASE Post
    BY <2>4, Zenon DEF Post
  <2>5. CASE Spin
    BY <2>5, Zenon DEF Spin
  <2>6. CASE Block
    BY <2>6 DEF Block
  <2>7. CASE FutexWait
    BY <2>7, Zenon DEF FutexWait
  <2>8. CASE AfterWake
    BY <2>8, Zenon DEF AfterWake
  <2>9. CASE TimeOut
    BY <2>9, Zenon DEF TimeOut
  <2>10. CASE FutexReturn
    BY <2>10, Zenon DEF FutexReturn
  <2>11. ASSUME NEW n \in Life, PostEarly(n) PROVE BatonInv'
    BY <2>11 DEF PostEarly
  <2>12. ASSUME NEW n \in Life, PostLate(n) PROVE BatonInv'
    BY <2>12 DEF PostLate
  <2>13. ASSUME NEW n \in Life, FutexWake(n) PROVE BatonInv'
    BY <2>13 DEF FutexWake
  <2>14. CASE UNCHANGED batonVars
    BY <2>14 DEF batonVars
  <2> QED BY <2>1, <2>2, <2>3, <2>4, <2>5, <2>6, <2>7, <2>8, <2>9, <2>10, <2>11,
             <2>12, <2>13, <2>14, Zenon
          DEF BatonNext, WaiterStep, PosterStep
<1>3. BatonInv => BatonHonest
  BY Zenon DEF BatonInv, BatonHonest, BatonTypeOK
<1> QED BY <1>1, <1>2, <1>3, PTL DEF BatonSpec

-----------------------------------------------------------------------------
(*****************************************************************************)
(* Group, for every capacity and every size of groups: the stack of keys and *)
(* the counts agree, so create returns a fresh group.  GroupTypeOK /\        *)
(* KeysExact is inductive; the work is in Room, the members between the      *)
(* doubling of the capacity and the pop of a key.                            *)
(*****************************************************************************)
GInv == GroupTypeOK /\ KeysExact

\* GInv of the members as given, not of the variables.
Exact(cap, keys, counts) ==
    /\ cap \in Nat \ {0}
    /\ keys \in Seq(1..cap)
    /\ counts \in [1..cap -> Nat]
    /\ \A i, j \in 1..Len(keys) : keys[i] = keys[j] => i = j
    /\ \A k \in 1..cap : counts[k] = 0 <=> \E i \in 1..Len(keys) : keys[i] = k

LEMMA GInvExact == GInv <=> Exact(capacity, groupKeys, groupCounts)
  BY Zenon DEF GInv, GroupTypeOK, KeysExact, Exact

\* increase(bound) pushes each key of bound..cap once.
LEMMA NewKeysExact ==
  ASSUME NEW cap \in Nat, NEW bound \in Nat \ {0}, bound <= cap
  PROVE  /\ NewKeys(cap, bound) \in Seq(bound..cap)
         /\ Len(NewKeys(cap, bound)) = cap - bound + 1
         /\ \A i \in 1..(cap - bound + 1) : NewKeys(cap, bound)[i] = cap - i + 1
  BY DEF NewKeys

\* Before create pops a key there is one, and the members agree; the counts of
\* the groups in use are what they were.
LEMMA RoomExact ==
  ASSUME GInv
  PROVE  /\ Exact(Room.cap, Room.keys, Room.counts)
         /\ Room.keys # <<>>
         /\ Room.cap >= capacity
         /\ \A k \in 1..capacity : Room.counts[k] = groupCounts[k]
<1> USE DEF GInv, GroupTypeOK
<1>1. CASE groupKeys # <<>>
  BY <1>1 DEF Room, KeysExact, Exact
<1>2. CASE groupKeys = <<>>
  <2> DEFINE new == NewKeys(2 * capacity, capacity + 1)
  <2>1. Room = Increase(2 * capacity, capacity + 1, groupKeys, groupCounts)
    BY <1>2, Zenon DEF Room
  <2>2. /\ new \in Seq((capacity + 1)..(2 * capacity))
        /\ Len(new) = capacity
        /\ \A i \in 1..capacity : new[i] = 2 * capacity - i + 1
    <3>1. /\ 2 * capacity \in Nat /\ capacity + 1 \in Nat \ {0}
          /\ capacity + 1 <= 2 * capacity
          /\ 2 * capacity - (capacity + 1) + 1 = capacity
      OBVIOUS
    <3> HIDE DEF GInv, GroupTypeOK
    <3> QED BY <3>1, NewKeysExact, Zenon
  <2>3. <<>> \o new = new
    BY <2>2
  <2>4. /\ Room.cap = 2 * capacity
        /\ Room.keys = new
        /\ Room.counts = [k \in 1..(2 * capacity) |->
                            IF k \in 1..capacity THEN groupCounts[k] ELSE 0]
    BY <2>1, <2>3, <1>2, Zenon DEF Increase
  <2> HIDE DEF new
  <2>5. \A k \in 1..capacity : groupCounts[k] # 0
    BY <1>2 DEF KeysExact
  <2>6. new \in Seq(1..(2 * capacity))
    BY <2>2
  <2>7. \A k \in 1..(2 * capacity) :
          Room.counts[k] = 0 <=> \E i \in 1..Len(new) : new[i] = k
    <3> TAKE k \in 1..(2 * capacity)
    <3>1. CASE k \in 1..capacity
      BY <3>1, <2>2, <2>4, <2>5
    <3>2. CASE k \in (capacity + 1)..(2 * capacity)
      <4>1. /\ 2 * capacity - k + 1 \in 1..capacity
            /\ new[2 * capacity - k + 1] = k
        BY <3>2, <2>2
      <4>2. Room.counts[k] = 0
        BY <3>2, <2>4
      <4>3. Len(new) = capacity
        BY <2>2, Zenon
      <4>4. \E i \in 1..Len(new) : new[i] = k
        BY <4>1, <4>3, Zenon
      <4> QED BY <4>2, <4>4, Zenon
    <3>3. k \in 1..capacity \/ k \in (capacity + 1)..(2 * capacity)
      OBVIOUS
    <3> QED BY <3>1, <3>2, <3>3, Zenon
  <2>8. \A i, j \in 1..Len(new) : new[i] = new[j] => i = j
    BY <2>2
  <2>9. Room.counts \in [1..(2 * capacity) -> Nat]
    BY <2>4
  <2>10. Exact(Room.cap, Room.keys, Room.counts)
    <3>1. 2 * capacity \in Nat \ {0}
      OBVIOUS
    <3> QED BY ONLY <2>4, <2>6, <2>7, <2>8, <2>9, <3>1, Zenon DEF Exact
  <2> QED BY <2>10, <2>4, <2>2
<1> QED BY <1>1, <1>2, Zenon

\* Popping the top key and giving it a positive count keeps the members exact.
LEMMA PopExact ==
  ASSUME NEW cap, NEW keys, NEW counts, NEW n \in Nat \ {0},
         Exact(cap, keys, counts), keys # <<>>
  PROVE  Exact(cap, SubSeq(keys, 1, Len(keys) - 1),
               [counts EXCEPT ![keys[Len(keys)]] = n])
<1> USE DEF Exact
<1> DEFINE m    == Len(keys)
           rest == SubSeq(keys, 1, m - 1)
           top  == keys[m]
           cs   == [counts EXCEPT ![top] = n]
<1>0. keys \in Seq(1..cap) /\ keys # <<>>
  BY Zenon
<1>1. m \in Nat \ {0} /\ top \in 1..cap /\ \A i \in 1..m : keys[i] \in 1..cap
  BY ONLY <1>0, NonEmpty, Zenon
<1>2. \A i, j \in 1..m : keys[i] = keys[j] => i = j
  BY Zenon
<1>3. \A k \in 1..cap : counts[k] = 0 <=> \E i \in 1..m : keys[i] = k
  BY Zenon
<1>4. counts \in [1..cap -> Nat] /\ cap \in Nat \ {0}
  BY Zenon
<1> HIDE DEF Exact, m, top
<1>5. /\ rest \in Seq(1..cap) /\ Len(rest) = m - 1
      /\ \A i \in 1..(m - 1) : rest[i] = keys[i]
  <2>1. Len(keys) > 0
    BY ONLY <1>1 DEF m
  <2> QED BY ONLY <1>0, <2>1, Shorter, Zenon DEF m
<1> HIDE DEF rest
<1>6. cs \in [1..cap -> Nat]
  BY <1>1, <1>4, Zenon
<1>7. \A i, j \in 1..Len(rest) : rest[i] = rest[j] => i = j
  BY <1>1, <1>2, <1>5
<1>8. \A k \in 1..cap : cs[k] = 0 <=> \E i \in 1..Len(rest) : rest[i] = k
  <2> TAKE k \in 1..cap
  <2>1. CASE k = top
    <3>1. cs[k] = n
      BY <2>1, <1>1, <1>4, Zenon
    <3>2. \A i \in 1..(m - 1) : keys[i] # top
      BY <1>1, <1>2 DEF top
    <3> QED BY <3>1, <3>2, <2>1, <1>1, <1>5, Zenon
  <2>2. CASE k # top
    <3>1. cs[k] = counts[k]
      BY <2>2, <1>1, <1>4, Zenon
    <3>2. (\E i \in 1..m : keys[i] = k) <=> \E i \in 1..(m - 1) : keys[i] = k
      BY <2>2, <1>1 DEF top
    <3> QED BY <3>1, <3>2, <1>1, <1>3, <1>5, Zenon
  <2> QED BY <2>1, <2>2, Zenon
<1> QED BY <1>4, <1>5, <1>6, <1>7, <1>8, Zenon DEF Exact, m, top, rest

LEMMA InitExact == GroupInit => GInv
<1> SUFFICES ASSUME GroupInit PROVE Exact(capacity, groupKeys, groupCounts)
  BY GInvExact, Zenon
<1>1. /\ capacity = InitCapacity /\ capacity \in Nat \ {0}
      /\ groupKeys = NewKeys(capacity, 1)
      /\ groupCounts = [k \in 1..capacity |-> 0]
  BY GroupAssumption, Zenon DEF GroupInit
<1>2. capacity \in Nat /\ 1 \in Nat \ {0} /\ 1 <= capacity
  BY <1>1
<1>3. /\ groupKeys \in Seq(1..capacity)
      /\ Len(groupKeys) = capacity
      /\ \A i \in 1..capacity : groupKeys[i] = capacity - i + 1
  <2>1. /\ NewKeys(capacity, 1) \in Seq(1..capacity)
        /\ Len(NewKeys(capacity, 1)) = capacity - 1 + 1
        /\ \A i \in 1..(capacity - 1 + 1) : NewKeys(capacity, 1)[i] = capacity - i + 1
    BY ONLY <1>2, NewKeysExact, Zenon
  <2>2. capacity - 1 + 1 = capacity
    BY <1>2
  <2> QED BY ONLY <2>1, <2>2, <1>1, Zenon
<1>4. \A k \in 1..capacity : \E i \in 1..Len(groupKeys) : groupKeys[i] = k
  <2> TAKE k \in 1..capacity
  <2>1. capacity - k + 1 \in 1..Len(groupKeys)
    BY ONLY <1>2, <1>3, k \in 1..capacity
  <2>2. groupKeys[capacity - k + 1] = k
    BY ONLY <2>1, <1>2, <1>3, k \in 1..capacity
  <2> QED BY ONLY <2>1, <2>2, Zenon
<1>5. \A i, j \in 1..Len(groupKeys) : groupKeys[i] = groupKeys[j] => i = j
  BY ONLY <1>2, <1>3
<1>6. groupCounts \in [1..capacity -> Nat] /\ \A k \in 1..capacity : groupCounts[k] = 0
  BY <1>1, Zenon
<1> QED BY <1>1, <1>3, <1>4, <1>5, <1>6, Zenon DEF Exact

LEMMA CreateExact ==
  ASSUME GInv, NEW n \in GroupSize, Create(n)
  PROVE  GInv'
<1>1. n \in Nat \ {0}
  BY GroupAssumption, Zenon
<1>2. Exact(Room.cap, Room.keys, Room.counts) /\ Room.keys # <<>>
  BY RoomExact
<1>3. Exact(Room.cap, SubSeq(Room.keys, 1, Len(Room.keys) - 1),
            [Room.counts EXCEPT ![Room.keys[Len(Room.keys)]] = n])
  BY <1>1, <1>2, PopExact, Zenon
<1>4. Exact(capacity', groupKeys', groupCounts')
  BY <1>3, Zenon DEF Create, NextKey
<1> QED BY <1>4 DEF GInv, GroupTypeOK, KeysExact, Exact

LEMMA FinishExact ==
  ASSUME GInv, NEW group \in 1..capacity, Finish(group)
  PROVE  GInv'
<1> DEFINE m == Len(groupKeys)
<1>1. /\ capacity \in Nat \ {0} /\ groupCounts \in [1..capacity -> Nat]
      /\ groupKeys \in Seq(1..capacity) /\ m \in Nat
      /\ \A i \in 1..m : groupKeys[i] \in 1..capacity
  <2>1. /\ capacity \in Nat \ {0} /\ groupCounts \in [1..capacity -> Nat]
        /\ groupKeys \in Seq(1..capacity)
    BY Zenon DEF GInv, GroupTypeOK
  <2>2. m \in Nat /\ \A i \in 1..m : groupKeys[i] \in 1..capacity
    BY ONLY <2>1
  <2> QED BY ONLY <2>1, <2>2, Zenon
<1>2. /\ \A i, j \in 1..m : groupKeys[i] = groupKeys[j] => i = j
      /\ \A k \in 1..capacity : groupCounts[k] = 0 <=> \E i \in 1..m : groupKeys[i] = k
  BY DEF GInv, KeysExact
<1>3. /\ capacity' = capacity
      /\ groupCounts[group] > 0
      /\ groupCounts' = [groupCounts EXCEPT ![group] = @ - 1]
  BY Zenon DEF Finish
<1>4. /\ groupCounts' \in [1..capacity -> Nat]
      /\ groupCounts'[group] = groupCounts[group] - 1
      /\ \A k \in 1..capacity : k # group => groupCounts'[k] = groupCounts[k]
  BY <1>1, <1>3
<1>5. \A i \in 1..m : groupKeys[i] # group
  <2>1. groupCounts[group] # 0
    BY <1>1, <1>3
  <2> QED BY <2>1, <1>2, Zenon
<1>6. CASE IsLast(group)
  <2>1. groupKeys' = Append(groupKeys, group)
    BY <1>6, Zenon DEF Finish
  <2>2. /\ groupKeys' \in Seq(1..capacity)
        /\ Len(groupKeys') = m + 1
        /\ \A i \in 1..m : groupKeys'[i] = groupKeys[i]
        /\ groupKeys'[m + 1] = group
    BY <2>1, <1>1
  <2>3. groupCounts'[group] = 0
    BY <1>1, <1>3, <1>4, <1>6 DEF IsLast
  <2> HIDE DEF m
  <2>4. \A i, j \in 1..Len(groupKeys') : groupKeys'[i] = groupKeys'[j] => i = j
    <3> TAKE i, j \in 1..Len(groupKeys')
    <3>1. (i \in 1..m \/ i = m + 1) /\ (j \in 1..m \/ j = m + 1)
      BY <2>2, <1>1
    <3> QED BY <3>1, <2>2, <1>2, <1>5
  <2>5. \A k \in 1..capacity :
          groupCounts'[k] = 0 <=> \E i \in 1..Len(groupKeys') : groupKeys'[i] = k
    <3> TAKE k \in 1..capacity
    <3>1. (\E i \in 1..Len(groupKeys') : groupKeys'[i] = k)
            <=> k = group \/ \E i \in 1..m : groupKeys[i] = k
      <4>1. \A i : i \in 1..Len(groupKeys') <=> i \in 1..m \/ i = m + 1
        BY ONLY <2>2, <1>1
      <4>2. /\ \A i \in 1..m : groupKeys'[i] = groupKeys[i]
            /\ groupKeys'[m + 1] = group
        BY ONLY <2>2, Zenon
      <4> QED BY ONLY <4>1, <4>2, Zenon
    <3> QED BY <3>1, <2>3, <1>2, <1>4
  <2> QED BY <1>1, <1>3, <1>4, <2>2, <2>4, <2>5, Zenon DEF GInv, GroupTypeOK, KeysExact
<1>7. CASE ~IsLast(group)
  <2>1. groupKeys' = groupKeys
    BY <1>7, Zenon DEF Finish
  <2>2. groupCounts'[group] # 0
    BY <1>1, <1>3, <1>4, <1>7 DEF IsLast
  <2>3. \A k \in 1..capacity : groupCounts'[k] = 0 <=> \E i \in 1..m : groupKeys[i] = k
    BY <2>2, <1>2, <1>4, <1>5, Zenon
  <2> QED BY <1>1, <1>2, <1>3, <1>4, <2>1, <2>3 DEF GInv, GroupTypeOK, KeysExact
<1> QED BY <1>6, <1>7, Zenon

LEMMA GroupInvariance == GroupSpec => []GInv
<1>1. ASSUME GInv, [GroupNext]_groupVars PROVE GInv'
  <2>1. CASE UNCHANGED groupVars
    BY <1>1, <2>1 DEF groupVars, GInv, GroupTypeOK, KeysExact
  <2> QED BY <1>1, <2>1, CreateExact, FinishExact DEF GroupNext
<1> QED BY InitExact, <1>1, PTL DEF GroupSpec

\* The members have their types: a count never drops below zero, so the
\* assertion of finish holds, and the stack holds only keys of the capacity.
THEOREM GroupTypes == GroupSpec => []GroupTypeOK
<1>1. GInv => GroupTypeOK
  BY Zenon DEF GInv
<1> QED BY <1>1, GroupInvariance, PTL

\* A key is available exactly when its group has no outstanding event, for every
\* initial capacity and every history of create and finish.
THEOREM KeysStayExact == GroupSpec => []KeysExact
<1>1. GInv => KeysExact
  BY Zenon DEF GInv
<1> QED BY <1>1, GroupInvariance, PTL

\* create never returns a group that is waited for: a count changes only from
\* zero or down by one.
THEOREM CreateIsFresh == GroupSpec => FreshGroup
<1> DEFINE Fresh == \A k \in 1..capacity :
                      groupCounts'[k] # groupCounts[k] =>
                          groupCounts[k] = 0 \/ groupCounts'[k] = groupCounts[k] - 1
<1>1. ASSUME GInv, [GroupNext]_groupVars PROVE [Fresh]_groupVars
  <2>1. ASSUME NEW n \in GroupSize, Create(n) PROVE Fresh
    <3>1. /\ Exact(Room.cap, Room.keys, Room.counts) /\ Room.keys # <<>>
          /\ Room.cap >= capacity
          /\ \A k \in 1..capacity : Room.counts[k] = groupCounts[k]
      BY <1>1, RoomExact, Zenon
    <3>2. NextKey \in 1..Room.cap /\ Room.counts[NextKey] = 0
      <4>1. Len(Room.keys) \in 1..Len(Room.keys) /\ NextKey \in 1..Room.cap
        BY <3>1 DEF NextKey, Exact
      <4>2. \E i \in 1..Len(Room.keys) : Room.keys[i] = NextKey
        BY <4>1, Zenon DEF NextKey
      <4> QED BY <4>1, <4>2, <3>1, Zenon DEF Exact
    <3>3. \A k \in 1..Room.cap : k # NextKey => groupCounts'[k] = Room.counts[k]
      BY <3>1, <2>1 DEF Create, Exact
    <3>4. capacity \in Nat /\ Room.cap \in Nat
      BY <1>1, <3>1 DEF GInv, GroupTypeOK, Exact
    <3> QED BY <3>1, <3>2, <3>3, <3>4
  <2>2. ASSUME NEW group \in 1..capacity, Finish(group) PROVE Fresh
    BY <1>1, <2>2, Zenon DEF Finish, GInv, GroupTypeOK
  <2> QED BY <1>1, <2>1, <2>2, Zenon DEF GroupNext
<1> QED BY <1>1, GroupInvariance, PTL DEF GroupSpec, FreshGroup

-----------------------------------------------------------------------------
(*****************************************************************************)
(* TimedHeap implements DeadlineMap, for any keys, deadlines and number of   *)
(* copies.  The inductive invariant says that every entry of map_ is also in *)
(* heap_: then the top of the heap is no later than any current deadline, and *)
(* a top that is current is an earliest one.                                 *)
(*****************************************************************************)
HeapInv ==
    /\ HeapTypeOK
    /\ Covered
    /\ \A k \in Key : map[k] # None => map[k].data = k

LEMMA NoneNotTimeout == None \notin Key /\ None \notin Deadline
  BY DeadlineAssumption, NoneAssumption, Zenon

LEMMA TimeoutFields ==
  ASSUME NEW v \in Timeout
  PROVE  v.data \in Key /\ v.deadline \in Deadline /\ v.deadline \in Nat \ {0}
  BY DeadlineAssumption, Zenon DEF Timeout

\* A heap entry that passes the comparison of pop is the deadline of its key,
\* because no deadline is 0.
LEMMA CurrentIsMapped ==
  ASSUME HeapInv, NEW v \in Timeout, Current(v)
  PROVE  map[v.data] # None /\ map[v.data].deadline = v.deadline
  BY TimeoutFields, Zenon DEF Current

\* The top of the heap is no later than any deadline in map_.
LEMMA TopIsEarliest ==
  ASSUME HeapInv, NEW v \in Timeout, IsTop(v), NEW k \in Key, map[k] # None
  PROVE  v.deadline <= map[k].deadline
<1>1. map[k] \in Timeout /\ heap[map[k]] > 0
  BY Zenon DEF HeapInv, HeapTypeOK, Covered
<1> QED BY <1>1, Zenon DEF IsTop

LEMMA InitHeapInv == HeapInit => HeapInv
<1> SUFFICES ASSUME HeapInit PROVE HeapInv
  BY Zenon
<1>1. HeapTypeOK
  BY Zenon DEF HeapInit, HeapTypeOK
<1> QED BY <1>1, Zenon DEF HeapInit, HeapInv, Covered

\* Taking one copy of v out of the heap uncovers no key, provided that the map's
\* entry is not v itself.
LEMMA DropCovered ==
  ASSUME HeapInv, NEW v \in Timeout, heap[v] > 0,
         heap' = [heap EXCEPT ![v] = @ - 1],
         NEW k \in Key, map[k] # None, map[k] # v
  PROVE  heap'[map[k]] > 0
<1>1. map[k] \in Timeout /\ heap[map[k]] > 0 /\ heap \in [Timeout -> Nat]
  BY Zenon DEF HeapInv, HeapTypeOK, Covered
<1>2. heap'[map[k]] = heap[map[k]]
  BY <1>1, Zenon
<1> QED BY <1>1, <1>2, Zenon

LEMMA HeapMinus ==
  ASSUME HeapTypeOK, NEW v \in Timeout, heap[v] > 0
  PROVE  [heap EXCEPT ![v] = @ - 1] \in [Timeout -> Nat]
  BY DEF HeapTypeOK

LEMMA PushHeapInv ==
  ASSUME HeapInv, NEW v \in Timeout, Push(v)
  PROVE  HeapInv'
<1>1. /\ map \in [Key -> Timeout \cup {None}] /\ heap \in [Timeout -> Nat]
      /\ map' = [map EXCEPT ![v.data] = v] /\ heap' = [heap EXCEPT ![v] = @ + 1]
      /\ v.data \in Key
  BY TimeoutFields DEF HeapInv, HeapTypeOK, Push
<1>2. map' \in [Key -> Timeout \cup {None}] /\ heap' \in [Timeout -> Nat]
  BY <1>1
<1>3. HeapTypeOK'
  BY <1>2, Zenon DEF HeapInv, HeapTypeOK, Push
<1>4. \A w \in Timeout : heap'[w] >= heap[w] /\ (w = v => heap'[w] > 0)
  BY <1>1
<1>5. ASSUME NEW k \in Key, map'[k] # None
      PROVE  heap'[map'[k]] > 0 /\ map'[k].data = k
  <2>1. CASE k = v.data
    BY <2>1, <1>1, <1>4, Zenon
  <2>2. CASE k # v.data
    <3>1. map'[k] = map[k] /\ map[k] \in Timeout
      BY <2>2, <1>1, <1>5, Zenon
    <3>2. heap[map[k]] > 0 /\ map[k].data = k
      BY <3>1, <1>5, Zenon DEF HeapInv, Covered
    <3>3. heap'[map[k]] >= heap[map[k]] /\ heap[map[k]] \in Nat /\ heap'[map[k]] \in Nat
      BY <3>1, <1>1, <1>2, <1>4, Zenon
    <3> QED BY <3>1, <3>2, <3>3
  <2> QED BY <2>1, <2>2, Zenon
<1> QED BY <1>3, <1>5 DEF HeapInv, Covered

LEMMA EraseHeapInv ==
  ASSUME HeapInv, NEW k \in Key, Erase(k)
  PROVE  HeapInv'
<1>1. HeapTypeOK'
  BY Zenon DEF HeapInv, HeapTypeOK, Erase
<1> QED BY <1>1, Zenon DEF HeapInv, HeapTypeOK, Covered, Erase

LEMMA ReturnTopHeapInv ==
  ASSUME HeapInv, NEW v \in Timeout, ReturnTop(v)
  PROVE  HeapInv'
<1>1. v.data \in Key /\ heap[v] > 0
  BY TimeoutFields, Zenon DEF ReturnTop, IsTop
<1>2. heap' \in [Timeout -> Nat] /\ map' \in [Key -> Timeout \cup {None}]
  BY <1>1, HeapMinus, Zenon DEF HeapInv, HeapTypeOK, ReturnTop
<1>3. HeapTypeOK'
  BY <1>1, <1>2, Zenon DEF HeapInv, HeapTypeOK, ReturnTop
<1>4. ASSUME NEW k \in Key, map'[k] # None
      PROVE  heap'[map'[k]] > 0 /\ map'[k].data = k
  <2>1. k # v.data /\ map'[k] = map[k]
    BY <1>1, <1>4 DEF HeapInv, HeapTypeOK, ReturnTop
  <2>2. map[k].data = k
    BY <2>1, <1>4 DEF HeapInv
  <2>3. map[k] # v
    BY <2>1, <2>2
  <2> QED BY <2>1, <2>2, <2>3, <1>1, <1>4, DropCovered, Zenon DEF ReturnTop
<1> QED BY <1>3, <1>4, Zenon DEF HeapInv, Covered

LEMMA DropTopHeapInv ==
  ASSUME HeapInv, NEW v \in Timeout, DropTop(v)
  PROVE  HeapInv'
<1>1. heap[v] > 0 /\ map' = map
  BY DEF DropTop, IsTop
<1>2. heap' \in [Timeout -> Nat]
  BY <1>1, HeapMinus DEF HeapInv, HeapTypeOK, DropTop
<1>3. HeapTypeOK'
  BY <1>1, <1>2 DEF HeapInv, HeapTypeOK, DropTop
<1>4. ASSUME NEW k \in Key, map[k] # None
      PROVE  heap'[map[k]] > 0
  <2>1. map[k] # v
    \* The entry of k has data k and its own deadline: were it v, v were current.
    BY <1>4 DEF HeapInv, DropTop, Current
  <2> QED BY <2>1, <1>1, <1>4, DropCovered, Zenon DEF DropTop
<1> QED BY <1>1, <1>3, <1>4 DEF HeapInv, Covered

LEMMA StepHeapInv ==
  ASSUME HeapInv, [HeapNext]_heapVars
  PROVE  HeapInv'
<1>1. ASSUME NEW t \in Deadline, CallPop(t) PROVE HeapInv'
  BY <1>1 DEF HeapInv, HeapTypeOK, Covered, CallPop
<1>2. ASSUME ReturnNone PROVE HeapInv'
  BY <1>2 DEF HeapInv, HeapTypeOK, Covered, ReturnNone
<1>3. ASSUME UNCHANGED heapVars PROVE HeapInv'
  BY <1>3 DEF HeapInv, HeapTypeOK, Covered, heapVars
<1> QED BY <1>1, <1>2, <1>3, PushHeapInv, EraseHeapInv, ReturnTopHeapInv, DropTopHeapInv
        DEF HeapNext, PopStep

LEMMA HeapInvariance == HeapSpec => []HeapInv
  BY InitHeapInv, StepHeapInv, PTL DEF HeapSpec

\* The members have their types; in particular pop never takes a Timeout out of
\* an empty heap.
THEOREM HeapTypes == HeapSpec => []HeapTypeOK
<1>1. HeapInv => HeapTypeOK
  BY DEF HeapInv
<1> QED BY <1>1, HeapInvariance, PTL

\* Whatever erase, push and pop did, the current deadline of every key is in the
\* heap.
THEOREM NothingLost == HeapSpec => []Covered
<1>1. HeapInv => Covered
  BY DEF HeapInv
<1> QED BY <1>1, HeapInvariance, PTL

-----------------------------------------------------------------------------
\* The deadlines that the refinement mapping shows.
LEMMA Mapped ==
  ASSUME HeapInv
  PROVE  \A k \in Key :
           /\ (map[k] = None <=> deadline[k] = None)
           /\ map[k] # None => /\ deadline[k] = map[k].deadline
                               /\ deadline[k] \in Nat
<1> TAKE k \in Key
<1>1. CASE map[k] = None
  BY <1>1 DEF deadline
<1>2. CASE map[k] # None
  <2>1. map[k] \in Timeout
    BY <1>2 DEF HeapInv, HeapTypeOK
  <2>2. map[k].deadline \in Deadline /\ map[k].deadline \in Nat
    BY <2>1, TimeoutFields
  <2>3. deadline[k] = map[k].deadline
    BY <1>2 DEF deadline
  <2> QED BY <1>2, <2>2, <2>3, NoneNotTimeout
<1> QED BY <1>1, <1>2

LEMMA PushRefines ==
  ASSUME HeapInv, NEW v \in Timeout, Push(v)
  PROVE  DM!Push(v.data, v.deadline)
<1>1. v.data \in Key /\ map \in [Key -> Timeout \cup {None}] /\ v # None
  BY TimeoutFields, NoneAssumption DEF HeapInv, HeapTypeOK
<1>2. \A k \in Key : map'[k] = IF k = v.data THEN v ELSE map[k]
  BY <1>1 DEF Push
<1>3. deadline' = [deadline EXCEPT ![v.data] = v.deadline]
  BY <1>1, <1>2, Zenon DEF deadline
<1> QED BY <1>3 DEF Push, DM!Push

LEMMA RemoveMapped ==
  ASSUME HeapInv, NEW k \in Key, map' = [map EXCEPT ![k] = None]
  PROVE  deadline' = [deadline EXCEPT ![k] = None]
<1>1. \A j \in Key : map'[j] = IF j = k THEN None ELSE map[j]
  BY DEF HeapInv, HeapTypeOK
<1>2. deadline' = [j \in Key |-> IF j = k THEN None ELSE deadline[j]]
  BY <1>1 DEF deadline
<1>3. [deadline EXCEPT ![k] = None] = [j \in Key |-> IF j = k THEN None ELSE deadline[j]]
  BY Zenon DEF deadline
<1> QED BY <1>2, <1>3

LEMMA ReturnTopRefines ==
  ASSUME HeapInv, NEW v \in Timeout, ReturnTop(v)
  PROVE  DM!Pop
<1> DEFINE k == v.data
<1>1. k \in Key /\ v.deadline \in Nat
  BY TimeoutFields
<1>2. map[k] # None /\ map[k].deadline = v.deadline
  BY CurrentIsMapped DEF ReturnTop
<1>3. deadline[k] # None /\ deadline[k] = v.deadline
  BY <1>1, <1>2, Mapped
<1>4. \A j \in Key : deadline[j] # None => deadline[k] <= deadline[j]
  BY <1>3, Mapped, TopIsEarliest DEF ReturnTop
<1>5. deadline' = [deadline EXCEPT ![k] = None]
  BY <1>1, RemoveMapped, Zenon DEF ReturnTop
<1>6. now # 0 /\ now' = 0 /\ deadline[k] <= now /\ popped' = k
  BY <1>3 DEF ReturnTop
<1> QED BY <1>1, <1>3, <1>4, <1>5, <1>6, Zenon DEF DM!Pop

LEMMA ReturnNoneRefines ==
  ASSUME HeapInv, ReturnNone
  PROVE  DM!Pop
<1>1. now \in Nat
  BY DeadlineAssumption DEF HeapInv, HeapTypeOK
<1>2. ASSUME NEW k \in Key, deadline[k] # None PROVE deadline[k] > now
  <2>1. map[k] # None /\ deadline[k] = map[k].deadline /\ deadline[k] \in Nat
    BY <1>2, Mapped
  <2>2. map[k] \in Timeout /\ heap[map[k]] > 0
    BY <2>1 DEF HeapInv, HeapTypeOK, Covered
  <2>3. PICK v \in Timeout : IsTop(v) /\ v.deadline > now
    <3>1. heap[map[k]] # 0
      BY <2>2 DEF HeapInv, HeapTypeOK
    <3> QED BY <2>2, <3>1, Zenon DEF ReturnNone
  <2>4. v.deadline <= map[k].deadline /\ v.deadline \in Nat
    BY <2>1, <2>3, TopIsEarliest, TimeoutFields
  <2> QED BY <1>1, <2>1, <2>3, <2>4
<1>3. now # 0 /\ now' = 0 /\ popped' = None /\ deadline' = deadline
  BY DEF ReturnNone, deadline
<1> QED BY <1>2, <1>3 DEF DM!Pop

LEMMA StepRefines ==
  ASSUME HeapInv, [HeapNext]_heapVars
  PROVE  [DM!Next]_<<deadline, now, popped>>
<1>1. ASSUME NEW v \in Timeout, Push(v) PROVE DM!Next
  BY <1>1, PushRefines, TimeoutFields DEF DM!Next
<1>2. ASSUME NEW k \in Key, Erase(k) PROVE DM!Next
  BY <1>2, RemoveMapped, Zenon DEF Erase, DM!Erase, DM!Next
<1>3. ASSUME NEW v \in Timeout, ReturnTop(v) PROVE DM!Next
  BY <1>3, ReturnTopRefines, Zenon DEF DM!Next
<1>4. ASSUME ReturnNone PROVE DM!Next
  BY <1>4, ReturnNoneRefines, Zenon DEF DM!Next
<1>5. ASSUME NEW t \in Deadline, CallPop(t) PROVE DM!Next
  BY <1>5 DEF CallPop, deadline, DM!CallPop, DM!Next
<1>6. ASSUME NEW v \in Timeout, DropTop(v) PROVE UNCHANGED <<deadline, now, popped>>
  BY <1>6 DEF DropTop, deadline
<1>7. ASSUME UNCHANGED heapVars PROVE UNCHANGED <<deadline, now, popped>>
  BY <1>7 DEF heapVars, deadline
<1> QED BY <1>1, <1>2, <1>3, <1>4, <1>5, <1>6, <1>7 DEF HeapNext, PopStep

\* TimedHeap implements the map of deadlines that EventLoop relies on: a pop
\* takes an earliest current deadline that has passed, and returns nothing only
\* when none has, whatever stale entries erase and push left in the heap.
THEOREM HeapImplements == HeapSpec => Refines
<1>1. HeapInit => DM!Init
  BY DEF HeapInit, DM!Init, deadline
<1>2. HeapInv /\ [HeapNext]_heapVars => [DM!Next]_<<deadline, now, popped>>
  BY StepRefines
<1> QED BY <1>1, <1>2, HeapInvariance, PTL DEF HeapSpec, Refines, DM!Spec
=============================================================================
