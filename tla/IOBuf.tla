------------------------------- MODULE IOBuf -------------------------------
(***************************************************************************)
(* raster/io: IOBuf, and the Appender that fills it.                       *)
(*                                                                         *)
(* A buffer is a circular chain of IOBuf objects.  Each shows a section of *)
(* a counted memory block, which other IOBufs may show, too.  Chains that  *)
(* share blocks are used by different threads without a lock: the thread   *)
(* that writes makes the block its own first, by a copy if it must.        *)
(***************************************************************************)
EXTENDS Integers, FiniteSets, SequencesExt

CONSTANTS
    Node,           \* the IOBuf objects
    Block,          \* the memory blocks
    None,           \* nullptr
    Capacity,       \* of the blocks that create() makes
    MaxCapacity,    \* bound: of the blocks that ensure() makes or that hold copies
    MaxHeadroom,    \* bound: of all objects together, when the data moves back
    Data            \* the bytes

ASSUME IOBufAssumption ==
    /\ {Capacity, MaxCapacity, MaxHeadroom} \subseteq Nat \ {0}
    /\ IsFiniteSet(Node) /\ None \notin Block /\ Data # {}

VARIABLES
    heads,      \* the objects that a thread owns: each is used as a chain's head
    next, prev, \* IOBuf::next_ and prev_
    shows,      \* the section of a block that an object shows, with kFlagMaybeShared
    mem,        \* the bytes of each block; <<>> for memory that is not allocated
    refcount,   \* SharedInfo::refcount of each block
    copying,    \* the copy that a head's thread has made and not yet taken over
    value       \* the bytes each head's owner expects

pointers == <<next, prev>>
memory   == <<mem, refcount>>
iobufVars == <<heads, pointers, shows, memory, copying, value>>

\* What malloc() returns; nobody looks at these bytes.
Unwritten(n) == [k \in 1..n |-> CHOOSE x \in Data : TRUE]

NoCopy   == [blk |-> None, off |-> 0, objects |-> 0]
Empty(b) == [blk |-> b, off |-> 0, len |-> 0, maybe |-> FALSE]

\* The objects from h on, in the order of next_.
Chain(h) ==
    LET walk[i \in Node, k \in 1..Cardinality(Node)] ==
            IF k = 1 \/ next[i] = h THEN <<i>> ELSE <<i>> \o walk[next[i], k - 1]
    IN  walk[h, Cardinality(Node)]

Bytes(i) == SubSeq(mem[shows[i].blk], shows[i].off + 1, shows[i].off + shows[i].len)

\* The bytes of a sequence of objects.
BytesOf(objects) == FlattenSeq([k \in 1..Len(objects) |-> Bytes(objects[k])])

Live      == {i \in Node : shows[i].blk # None}
Allocated == {b \in Block : refcount[b] > 0}

headroom(i) == shows[i].off
tailroom(i) == Len(mem[shows[i].blk]) - shows[i].off - shows[i].len

\* The thread that owns h is between two operations.
Ready(h) == h \in heads /\ copying[h] = NoCopy

\* Writing is left to the caller, who must have called unshare() since the last
\* clone(): then no object of the chain has the flag.
Writable(h) == \A i \in Range(Chain(h)) : ~shows[i].maybe

isSharedOne(i) == shows[i].maybe /\ refcount[shows[i].blk] > 1

\* Fault: only the copy is marked.
Unmarked(i) == shows[i]

\* setFlags(kFlagMaybeShared).
Marked(i) == [shows[i] EXCEPT !.maybe = TRUE]

\* Fault: the objects that are dropped keep their references.
ReleaseFirst(objects) ==
    LET i == CHOOSE i \in objects : TRUE IN
        [refcount EXCEPT ![shows[i].blk] = @ - 1]

\* decrementRefcount() of several objects.
Release(objects) ==
    [b \in Block |-> refcount[b] - Cardinality({i \in objects : shows[i].blk = b})]

\* A block whose last reference is gone is freed.
Remaining == [b \in Block |-> IF refcount'[b] = 0 THEN <<>> ELSE mem[b]]

\* What is left when the objects are destroyed.
Destroyed(objects) ==
    /\ refcount' = Release(objects)
    /\ mem' = Remaining
    /\ shows' = [i \in Node |-> IF i \in objects THEN Empty(None) ELSE shows[i]]

-----------------------------------------------------------------------------
(***************************************************************************)
(* Making and destroying chains, and changing what they show.              *)
(***************************************************************************)

\* create(n): an object with a block of its own.
NewObject(i, b, n) ==
    /\ i \notin Live /\ b \notin Allocated
    /\ shows' = [shows EXCEPT ![i] = Empty(b)]
    /\ refcount' = [refcount EXCEPT ![b] = 1]
    /\ mem' = [mem EXCEPT ![b] = Unwritten(n)]

Create(i, b) ==
    /\ heads' = heads \cup {i}
    /\ NewObject(i, b, Capacity)
    /\ UNCHANGED <<pointers, copying, value>>

\* The destructor of a head destroys its chain.
Destroy(h) ==
    LET gone == Range(Chain(h)) IN
        /\ Ready(h)
        /\ heads' = heads \ {h}
        /\ Destroyed(gone)
        /\ next' = [i \in Node |-> IF i \in gone THEN i ELSE next[i]]
        /\ prev' = [i \in Node |-> IF i \in gone THEN i ELSE prev[i]]
        /\ value' = [value EXCEPT ![h] = <<>>]
        /\ UNCHANGED copying

\* An Appender writes a byte behind the last one, when there is tailroom.
Push(h, x) ==
    LET i == prev[h]
        s == shows[i]
    IN  /\ Ready(h) /\ tailroom(i) > 0 /\ Writable(h)
        /\ mem' = [mem EXCEPT ![s.blk][s.off + s.len + 1] = x]
        /\ shows' = [shows EXCEPT ![i].len = @ + 1]
        /\ value' = [value EXCEPT ![h] = Append(@, x)]
        /\ UNCHANGED <<heads, pointers, refcount, copying>>

\* A byte is overwritten through writableData() of the head.
Overwrite(h, x) ==
    LET s == shows[h] IN
        /\ Ready(h) /\ s.len > 0 /\ mem[s.blk][s.off + 1] # x /\ Writable(h)
        /\ mem' = [mem EXCEPT ![s.blk][s.off + 1] = x]
        /\ value' = [value EXCEPT ![h][1] = x]
        /\ UNCHANGED <<heads, pointers, shows, refcount, copying>>

\* trimStart() and trimEnd() of the head move its ends; they write nothing.
TrimStart(h) ==
    /\ Ready(h) /\ shows[h].len > 0 /\ MapThenSumSet(headroom, Node) < MaxHeadroom
    /\ shows' = [shows EXCEPT ![h].off = @ + 1, ![h].len = @ - 1]
    /\ value' = [value EXCEPT ![h] = Tail(@)]
    /\ UNCHANGED <<heads, pointers, memory, copying>>

TrimEnd(h) ==
    /\ Ready(h) /\ shows[h].len > 0
    /\ shows' = [shows EXCEPT ![h].len = @ - 1]
    /\ value' = [value EXCEPT ![h] = RemoveAt(@, shows[h].len)]
    /\ UNCHANGED <<heads, pointers, memory, copying>>

\* clear() of the head.
Clear(h) ==
    /\ Ready(h) /\ <<headroom(h), shows[h].len>> # <<0, 0>>
    /\ shows' = [shows EXCEPT ![h].off = 0, ![h].len = 0]
    /\ value' = [value EXCEPT ![h] = SubSeq(@, shows[h].len + 1, Len(@))]
    /\ UNCHANGED <<heads, pointers, memory, copying>>

\* prepend() of one byte, which the caller writes.
Prepend(h, x) ==
    LET s == shows[h] IN
        /\ Ready(h) /\ headroom(h) > 0 /\ Writable(h)
        /\ mem' = [mem EXCEPT ![s.blk][s.off] = x]
        /\ shows' = [shows EXCEPT ![h].off = @ - 1, ![h].len = @ + 1]
        /\ value' = [value EXCEPT ![h] = <<x>> \o @]
        /\ UNCHANGED <<heads, pointers, refcount, copying>>

\* memmove() of the head's bytes inside its block, to the offset off.
MoveData(h, off) ==
    LET s == shows[h] IN
        /\ mem' = [mem EXCEPT ![s.blk] = [k \in 1..Len(@) |->
               IF k \in (off + 1)..(off + s.len) THEN @[k - off + s.off] ELSE @[k]]]
        /\ shows' = [shows EXCEPT ![h].off = off]
        /\ UNCHANGED <<heads, pointers, refcount, copying, value>>

\* The headroom of h may become off.
WithinBound(h, off) ==
    off > headroom(h) => MapThenSumSet(headroom, Node) - headroom(h) + off <= MaxHeadroom

\* advance() or retreat() of the head.
Shift(h, off) ==
    /\ Ready(h) /\ off # headroom(h) /\ off <= headroom(h) + tailroom(h)
    /\ Writable(h) /\ WithinBound(h, off)
    /\ MoveData(h, off)

\* realloc() is tried for bytes that nearly fill a block with enough headroom, and
\* keeps that headroom.
Reallocates(h, head) ==
    /\ shows[h].len # 0 /\ headroom(h) >= head
    /\ (headroom(h) + tailroom(h)) * 2 <= shows[h].len

\* DCHECK(!isSharedOne()) of reserveSlow(): what its caller must see to.
Exclusive(h) == ~isSharedOne(h)

\* reserve() of room before and behind the head's bytes has something to do.
Lacks(h, head, tail) ==
    /\ Ready(h)
    /\ headroom(h) < head \/ tailroom(h) < tail

\* There is enough room in all: the bytes are moved.
ReserveInside(h, head, tail) ==
    /\ Lacks(h, head, tail)
    /\ headroom(h) + tailroom(h) >= head + tail
    /\ shows[h].len = 0 \/ Exclusive(h)
    /\ WithinBound(h, head)
    /\ MoveData(h, head)

\* The bytes get a new block; the old one is freed, whatever its count.
ReserveAnew(h, head, tail, b) ==
    LET s == shows[h] IN
        /\ b \notin Allocated
        /\ Lacks(h, head, tail) /\ Exclusive(h)
        /\ headroom(h) + tailroom(h) < head + tail
        /\ \E off \in {head} \cup {r \in {headroom(h)} : Reallocates(h, head)} :
              /\ off + s.len + tail <= MaxCapacity /\ WithinBound(h, off)
              /\ mem' = [mem EXCEPT ![s.blk] = <<>>,
                     ![b] = Unwritten(off) \o Bytes(h) \o Unwritten(tail)]
              /\ shows' = [shows EXCEPT ![h] =
                     [blk |-> b, off |-> off, len |-> s.len, maybe |-> FALSE]]
        /\ refcount' = [refcount EXCEPT ![s.blk] = 0, ![b] = 1]
        /\ UNCHANGED <<heads, pointers, copying, value>>

\* clone(): a second chain with the same blocks.
Clone(h, new) ==
    LET old == Chain(h)
        n   == Len(old)
        at(i) == CHOOSE k \in 1..n : new[k] = i
    IN  /\ Ready(h) /\ Len(new) = n /\ Range(new) \cap Live = {} /\ IsInjective(new)
        /\ heads' = heads \cup {new[1]}
        /\ next' = [i \in Node |-> IF i \in Range(new) THEN new[(at(i) % n) + 1] ELSE next[i]]
        /\ prev' = [i \in Node |-> IF i \in Range(new) THEN new[((at(i) + n - 2) % n) + 1]
                                   ELSE prev[i]]
        /\ shows' = [i \in Node |-> IF i \in Range(new)
                                      THEN [shows[old[at(i)]] EXCEPT !.maybe = TRUE]
                                    ELSE IF i \in Range(old) THEN Marked(i) ELSE shows[i]]
        /\ refcount' = [b \in Block |->
               refcount[b] + Cardinality({i \in Range(old) : shows[i].blk = b})]
        /\ value' = [value EXCEPT ![new[1]] = value[h]]
        /\ UNCHANGED <<mem, copying>>

-----------------------------------------------------------------------------
(***************************************************************************)
(* Linking and unlinking.                                                  *)
(***************************************************************************)

\* Fault: the old end of the chain still points to its head.
prependChainHalf(this, other) ==
    /\ next' = [next EXCEPT ![prev[other]] = this]
    /\ prev' = [prev EXCEPT ![other] = prev[this], ![this] = prev[other]]

\* this->prependChain(other): all of other's chain is put before this.
prependChain(this, other) ==
    /\ next' = [next EXCEPT ![prev[this]] = other, ![prev[other]] = this]
    /\ prev' = [prev EXCEPT ![other] = prev[this], ![this] = prev[other]]

\* separateChain(head, tail): from head to tail they become a chain of their own.
separateChain(head, tail) ==
    /\ next' = [next EXCEPT ![prev[head]] = next[tail], ![tail] = head]
    /\ prev' = [prev EXCEPT ![next[tail]] = prev[head], ![head] = tail]

\* Appender::ensure(n): a new object at the end, when the last one has less room; what
\* room that has is wasted.
Grow(h, n, i, b) ==
    /\ Ready(h) /\ tailroom(prev[h]) < n
    /\ prependChain(h, i)
    /\ NewObject(i, b, Max({n, Capacity}))
    /\ UNCHANGED <<heads, copying, value>>

\* appendChain(): an owned chain is put behind the k-th object of another.  Behind the
\* last one it is prependChain() of the head.
Join(h, k, g) ==
    LET c == Chain(h)
        m == Len(BytesOf(SubSeq(c, 1, k)))
    IN  /\ Ready(h) /\ Ready(g) /\ h # g
        /\ prependChain(next[c[k]], g)
        /\ heads' = heads \ {g}
        /\ value' = [value EXCEPT
               ![h] = SubSeq(@, 1, m) \o value[g] \o SubSeq(@, m + 1, Len(@)), ![g] = <<>>]
        /\ UNCHANGED <<shows, memory, copying>>

\* Move assignment: h drops its chain and takes the place of g, which is left with
\* nothing and then destroyed.
MoveAssign(h, g) ==
    LET gone == Range(Chain(h)) \ {h}
        link(i, l) == IF i \in gone \cup {g} THEN i
                      ELSE LET to == l[IF i = h THEN g ELSE i] IN IF to = g THEN h ELSE to
    IN  /\ Ready(h) /\ Ready(g) /\ h # g
        /\ refcount' = Release(gone \cup {h})
        /\ mem' = Remaining
        /\ shows' = [i \in Node |-> IF i \in gone \cup {g} THEN Empty(None)
                                    ELSE IF i = h THEN shows[g] ELSE shows[i]]
        /\ next' = [i \in Node |-> link(i, next)]
        /\ prev' = [i \in Node |-> link(i, prev)]
        /\ heads' = heads \ {g}
        /\ value' = [value EXCEPT ![h] = value[g], ![g] = <<>>]
        /\ UNCHANGED copying

\* separateChain() of the i-th to the j-th object, or unlink() when they are one.
\* pop() is the same from the other side: the rest is given to the caller.
Split(h, i, j) ==
    LET c == Chain(h)
        m == Len(BytesOf(SubSeq(c, 1, i - 1)))
        n == Len(BytesOf(SubSeq(c, 1, j)))
    IN  /\ Ready(h)
        /\ separateChain(c[i], c[j])
        /\ heads' = heads \cup {c[i]}
        /\ value' = [value EXCEPT
               ![h] = SubSeq(@, 1, m) \o SubSeq(@, n + 1, Len(@)),
               ![c[i]] = SubSeq(value[h], m + 1, n)]
        /\ UNCHANGED <<shows, memory, copying>>

-----------------------------------------------------------------------------
(***************************************************************************)
(* Copying: unshareOneSlow() and coalesceAndReallocate() first copy the    *)
(* bytes and then give up the old block.  Other threads may run between.   *)
(***************************************************************************)

\* The bytes of the first n objects go to a new block, with the headroom of the
\* first and the tailroom of the last.
StartCopy(h, n, b) ==
    LET c == Chain(h)
        new == Unwritten(headroom(h)) \o BytesOf(SubSeq(c, 1, n)) \o Unwritten(tailroom(c[n]))
    IN  /\ Ready(h) /\ b \notin Allocated /\ Len(new) <= MaxCapacity
        /\ mem' = [mem EXCEPT ![b] = new]
        /\ refcount' = [refcount EXCEPT ![b] = 1]
        /\ copying' = [copying EXCEPT ![h] = [blk |-> b, off |-> headroom(h), objects |-> n]]
        /\ UNCHANGED <<heads, pointers, shows, value>>

\* The head shows the new block; the objects that were copied with it are separated
\* and destroyed.
TakeOver(h) ==
    LET c    == Chain(h)
        n    == copying[h].objects
        gone == {c[k] : k \in 2..n}
        len  == Len(BytesOf(SubSeq(c, 1, n)))
    IN  /\ h \in heads /\ copying[h] # NoCopy
        /\ refcount' = Release(gone \cup {h})
        /\ mem' = Remaining
        /\ shows' = [i \in Node |->
               IF i \in gone THEN Empty(None)
               ELSE IF i = h THEN [blk |-> copying[h].blk, off |-> copying[h].off,
                                   len |-> len, maybe |-> FALSE]
               ELSE shows[i]]
        /\ next' = [i \in Node |-> IF i \in gone THEN i ELSE IF i = h THEN next[c[n]] ELSE next[i]]
        /\ prev' = [i \in Node |-> IF i \in gone THEN i
                                   ELSE IF i = next[c[n]] THEN h ELSE prev[i]]
        /\ copying' = [copying EXCEPT ![h] = NoCopy]
        /\ UNCHANGED <<heads, value>>

\* unshare() of a chain with a shared object copies all of it.
Unshare(h, b) ==
    /\ \E i \in Range(Chain(h)) : isSharedOne(i)
    /\ StartCopy(h, Len(Chain(h)), b)

\* unshare() that finds nothing shared; isSharedOne() then clears the flag.
UnshareNothing(h) ==
    /\ Ready(h)
    /\ \A i \in Range(Chain(h)) : ~isSharedOne(i)
    /\ shows' = [i \in Node |-> IF i \in Range(Chain(h)) THEN [shows[i] EXCEPT !.maybe = FALSE]
                                ELSE shows[i]]
    /\ UNCHANGED <<heads, pointers, memory, copying, value>>

\* coalesce() of all objects, and gather(), which stops at the object that holds
\* the last byte it is asked for.
Gather(h, n, b) ==
    /\ n = Len(Chain(h)) \/ shows[Chain(h)[n]].len > 0
    /\ StartCopy(h, n, b)

IOBufInit ==
    /\ heads = {}
    /\ next = [i \in Node |-> i] /\ prev = next
    /\ shows = [i \in Node |-> Empty(None)]
    /\ mem = [b \in Block |-> <<>>] /\ refcount = [b \in Block |-> 0]
    /\ copying = [i \in Node |-> NoCopy]
    /\ value = [i \in Node |-> <<>>]

IOBufNext ==
    \/ \E i \in Node, b \in Block : Create(i, b)
    \/ \E h \in heads :
        \/ Destroy(h) \/ TrimStart(h) \/ TrimEnd(h) \/ Clear(h)
        \/ \E x \in Data : Push(h, x) \/ Overwrite(h, x) \/ Prepend(h, x)
        \/ \E off \in 0..MaxHeadroom : Shift(h, off)
        \/ \E head \in 0..MaxHeadroom, tail \in 0..Capacity :
              \/ ReserveInside(h, head, tail)
              \/ \E b \in Block : ReserveAnew(h, head, tail, b)
        \/ \E new \in [1..Len(Chain(h)) -> Node \ Live] : Clone(h, new)
        \/ \E n \in 1..MaxCapacity, i \in Node, b \in Block : Grow(h, n, i, b)
        \/ \E k \in 1..Len(Chain(h)), g \in heads : Join(h, k, g)
        \/ \E g \in heads : MoveAssign(h, g)
        \/ \E i \in 2..Len(Chain(h)) : \E j \in i..Len(Chain(h)) : Split(h, i, j)
        \/ \E b \in Block : Unshare(h, b)
        \/ UnshareNothing(h)
        \/ \E n \in 2..Len(Chain(h)), b \in Block : Gather(h, n, b)
        \/ TakeOver(h)

IOBufSpec == IOBufInit /\ [][IOBufNext]_iobufVars

-----------------------------------------------------------------------------
\* Each chain has the bytes its owner put there, whatever the owners of chains that
\* share its blocks do at the same time: a block is only written by the one who
\* has it alone (unshare(), kFlagMaybeShared, clone()).
ContentsKept == \A h \in heads : BytesOf(Chain(h)) = value[h]

\* The memory is neither leaked nor freed too early: a block's count is the number
\* of objects that show it, and a copy in the making counts as one.
CountsExact ==
    \A b \in Block : refcount[b] = Cardinality({i \in Node : shows[i].blk = b})
                                   + Cardinality({h \in heads : copying[h].blk = b})

\* next_ and prev_ are always inverse, and each object is in exactly one owner's
\* chain: none is lost and none is destroyed twice.
ChainsSound ==
    /\ \A i \in Node : next[prev[i]] = i /\ prev[next[i]] = i
    /\ \A i \in Live : \E h \in heads : i \in Range(Chain(h))
    /\ \A g, h \in heads : g # h => Range(Chain(g)) \cap Range(Chain(h)) = {}
=============================================================================
