------------------------------- MODULE Group -------------------------------
(***************************************************************************)
(* raster/parallel/Group.h: counts how many events of a group are still    *)
(* outstanding.  Keys are handed out from a stack and put back by the last *)
(* finish; an empty stack doubles the capacity.  Every operation holds the *)
(* write lock, so each is one step.                                        *)
(***************************************************************************)
EXTENDS Integers, Sequences

CONSTANTS
    InitCapacity,   \* capacity of the constructor
    MaxCapacity,    \* bound: the stack of keys does not grow beyond this
    GroupSize       \* the sizes of the groups that are created

ASSUME GroupAssumption ==
    /\ InitCapacity \in Nat \ {0}
    /\ GroupSize \subseteq Nat \ {0}

VARIABLES
    capacity,     \* capacity_
    groupKeys,    \* groupKeys_, the top of the stack last
    groupCounts   \* groupCounts_; index 0 is never used

groupVars == <<capacity, groupKeys, groupCounts>>

\* The keys increase(bound) pushes, in that order.
NewKeys(cap, bound) == [i \in 1..(cap - bound + 1) |-> cap - i + 1]

\* The three members after increase(bound) with capacity_ = cap.
Increase(cap, bound, keys, counts) ==
    [cap    |-> cap,
     keys   |-> keys \o NewKeys(cap, bound),
     counts |-> [k \in 1..cap |-> IF k \in DOMAIN counts THEN counts[k] ELSE 0]]

\* The members once create has made sure that a key is available.
Room ==
    IF groupKeys = <<>>
      THEN Increase(2 * capacity, capacity + 1, groupKeys, groupCounts)
      ELSE [cap |-> capacity, keys |-> groupKeys, counts |-> groupCounts]

\* The key that create returns.
NextKey == Room.keys[Len(Room.keys)]

\* create; groupSize > 0 is asserted.
Create(groupSize) ==
    /\ groupSize > 0
    /\ capacity' = Room.cap
    /\ groupKeys' = SubSeq(Room.keys, 1, Len(Room.keys) - 1)
    /\ groupCounts' = [Room.counts EXCEPT ![NextKey] = groupSize]

\* Fault: the group ends with its last but one event.
IsLastEarly(group) == groupCounts[group] <= 2

\* What finish returns.
IsLast(group) == groupCounts[group] <= 1

\* finish of a group other than 0; its count is asserted to be positive.
Finish(group) ==
    /\ groupCounts[group] > 0
    /\ groupCounts' = [groupCounts EXCEPT ![group] = @ - 1]
    /\ groupKeys' = IF IsLast(group) THEN Append(groupKeys, group) ELSE groupKeys
    /\ UNCHANGED capacity

GroupInit ==
    /\ capacity = InitCapacity
    /\ groupKeys = NewKeys(InitCapacity, 1)
    /\ groupCounts = [k \in 1..InitCapacity |-> 0]

GroupNext ==
    \/ \E n \in GroupSize : Room.cap <= MaxCapacity /\ Create(n)
    \/ \E group \in 1..capacity : Finish(group)

GroupSpec == GroupInit /\ [][GroupNext]_groupVars

-----------------------------------------------------------------------------
GroupTypeOK ==
    /\ capacity \in Nat \ {0}
    /\ groupKeys \in Seq(1..capacity)
    /\ groupCounts \in [1..capacity -> Nat]

\* A key is on the stack once when no event of its group is outstanding and
\* not at all otherwise: no key is lost and none is handed out twice, however
\* often the capacity doubled.
KeysExact ==
    /\ \A i, j \in 1..Len(groupKeys) : groupKeys[i] = groupKeys[j] => i = j
    /\ \A k \in 1..capacity :
         groupCounts[k] = 0 <=> \E i \in 1..Len(groupKeys) : groupKeys[i] = k

\* create never returns a group that is still waited for: a count only rises from
\* zero, and doubling the capacity leaves the counts of the groups in use alone.
FreshGroup ==
    [][\A k \in 1..capacity :
         groupCounts'[k] # groupCounts[k] =>
             groupCounts[k] = 0 \/ groupCounts'[k] = groupCounts[k] - 1]_groupVars
=============================================================================
