--------------------------- MODULE HasCycleProofs ---------------------------
(***************************************************************************)
(* hasCycle answers rightly for any number of jobs with any successors.    *)
(* CycleInv is its invariant.  That a graph with a cycle is not emptied    *)
(* follows from WholeInv; that what is left behind holds a cycle follows   *)
(* from BackwardForward.                                                   *)
(***************************************************************************)
EXTENDS DAG, FiniteSetTheorems, TLAPS

\* One can always go on within S.
Closed(S) == \A n \in S : \E m \in S : H!Edge(n, m)

\* The jobs of which hasCycle has removed no edge.
Whole == {n \in Job : copy[n] = nexts[n]}

\* hasCycle's copy keeps a prefix of every nexts, and the edges counted are its own.
CopyInv ==
    /\ copy \in [Job -> Seq(Job)]
    /\ \A n \in Job : /\ Len(copy[n]) <= Len(nexts[n])
                      /\ \A i \in 1..Len(copy[n]) : copy[n][i] = nexts[n][i]
    /\ targets = [n \in Job |-> H!InEdges(copy, n)]

\* No edge of the copy leads to a key or to the current node, and a node that none
\* leads to is one of these or has no edges left.
KeyInv ==
    /\ keys \in Seq(Job) /\ \A i \in 1..Len(keys) : targets[keys[i]] = 0
    /\ current \in Job \cup {0} /\ (current # 0 => targets[current] = 0)
    /\ \A n \in Job : targets[n] = 0 =>
          n = current \/ (\E i \in 1..Len(keys) : keys[i] = n) \/ copy[n] = <<>>

\* A set within which one can always go on keeps such a part untouched: this is
\* why hasCycle cannot empty the copy of a graph with a cycle.
WholeInv ==
    \A S \in SUBSET Job : S # {} /\ Closed(S) =>
        S \cap Whole # {} /\ Closed(S \cap Whole)

CycleInv == CopyInv /\ KeyInv /\ WholeInv

-----------------------------------------------------------------------------
(* Sequences, as the solver knows them.                                     *)

\* The facts about a sequence that the proofs use.
LEMMA SeqFacts ==
    ASSUME NEW S, NEW s \in Seq(S)
    PROVE  /\ Len(s) \in Nat /\ DOMAIN s = 1..Len(s)
           /\ \A i \in 1..Len(s) : s[i] \in S
           /\ s # <<>> <=> Len(s) > 0
<1>1. /\ Len(s) \in Nat /\ DOMAIN s = 1..Len(s)
      /\ \A i \in 1..Len(s) : s[i] \in S
  OBVIOUS
<1>2. s # <<>> <=> Len(s) > 0
  OBVIOUS
<1> QED  BY <1>1, <1>2, Zenon

\* A sequence over a set is one over any larger set.
LEMMA SeqMono ==
    ASSUME NEW S, NEW T, S \subseteq T, NEW s \in Seq(S)
    PROVE  s \in Seq(T)
OBVIOUS

\* A function on 1..n is a sequence of length n.
LEMMA SeqMake ==
    ASSUME NEW S, NEW n \in Nat, NEW s \in [1..n -> S]
    PROVE  s \in Seq(S) /\ Len(s) = n
<1>1. s \in Seq(S)
  OBVIOUS
<1>2. Len(s) = n
  BY <1>1
<1> QED  BY <1>1, <1>2, Zenon

\* A sequence without its last member.
LEMMA Shorter ==
    ASSUME NEW S, NEW s \in Seq(S), Len(s) > 0
    PROVE  /\ SubSeq(s, 1, Len(s) - 1) \in Seq(S)
           /\ Len(SubSeq(s, 1, Len(s) - 1)) = Len(s) - 1
           /\ \A i \in 1..(Len(s) - 1) : SubSeq(s, 1, Len(s) - 1)[i] = s[i]
<1> DEFINE t == SubSeq(s, 1, Len(s) - 1)
<1>1. Len(s) \in Nat /\ Len(s) - 1 \in Nat
  OBVIOUS
<1>2. t \in Seq(S)
  OBVIOUS
<1>3. Len(t) \in Nat /\ DOMAIN t = 1..Len(t)
  BY <1>2
<1>4. DOMAIN t = 1..(Len(s) - 1)
  BY <1>1
<1>5. Len(t) = Len(s) - 1
  <2> HIDE DEF t
  <2>1. \A i \in Int : i \in 1..Len(t) <=> i \in 1..(Len(s) - 1)
    BY <1>3, <1>4, Zenon
  <2>2. Len(t) > 0 => Len(t) <= Len(s) - 1
    BY <2>1, <1>3
  <2>3. Len(s) - 1 > 0 => Len(s) - 1 <= Len(t)
    BY <2>1, <1>1
  <2> QED  BY <1>1, <1>3, <2>2, <2>3
<1>6. \A i \in 1..(Len(s) - 1) : t[i] = s[i]
  OBVIOUS
<1> QED  BY <1>2, <1>5, <1>6, Zenon

-----------------------------------------------------------------------------
(* Finite sets: a least member of a family, a largest number, an order.     *)

Least(x, F) == \A y \in F : y \subseteq x => y = x

\* Taking one member from a finite set takes one from its size.
LEMMA RemoveOne ==
    ASSUME NEW U, IsFiniteSet(U), NEW e \in U
    PROVE  Cardinality(U \ {e}) = Cardinality(U) - 1
BY FS_RemoveElement, Zenon

\* A family of subsets of a finite set has a member that contains no other.
LEMMA Smallest ==
    ASSUME NEW V, IsFiniteSet(V), NEW F \in SUBSET SUBSET V, F # {}
    PROVE  \E x \in F : Least(x, F)
<1>1. IsWellFoundedOn(StrictSubsetOrdering(V), FiniteSubsetsOf(V))
  BY FS_StrictSubsetOrderingWellFounded, Zenon
<1>2. F \subseteq FiniteSubsetsOf(V)
  BY FS_Subset, Zenon DEF FiniteSubsetsOf
<1>3. PICK x \in F : \A y \in F : ~(<<y, x>> \in StrictSubsetOrdering(V))
  BY <1>1, <1>2, WFMin, Zenon
<1>4. \A y \in F : y \subseteq x => y = x
  <2> SUFFICES ASSUME NEW y \in F, y \subseteq x, y # x  PROVE  FALSE
    BY Zenon
  <2>1. <<y, x>> \in StrictSubsetOrdering(V)
    BY Zenon DEF StrictSubsetOrdering
  <2> QED  BY <2>1, <1>3, Zenon
<1> QED  BY <1>4, Zenon DEF Least

\* Where every member of a finite set is led to from within, one can always go on
\* within some part of it.
LEMMA BackwardForward ==
    ASSUME NEW V, IsFiniteSet(V), V # {}, NEW E,
           \A n \in V : \E a \in V : <<a, n>> \in E
    PROVE  \E S \in SUBSET V : S # {} /\ \A n \in S : \E m \in S : <<n, m>> \in E
<1> DEFINE F == {S \in SUBSET V : S # {} /\ \A n \in S : \E a \in S : <<a, n>> \in E}
<1>1. F \in SUBSET SUBSET V /\ F # {}
  <2>1. V \in F
    BY Zenon
  <2> QED  BY <2>1, Zenon
<1>2. PICK x \in F : Least(x, F)
  <2> HIDE DEF F
  <2> QED  BY <1>1, Smallest, Zenon
<1>3. ASSUME NEW n \in x  PROVE  \E m \in x : <<n, m>> \in E
  <2> SUFFICES ASSUME \A m \in x : <<n, m>> \notin E  PROVE  FALSE
    BY Zenon
  <2>1. PICK a \in x : <<a, n>> \in E
    BY Zenon
  <2>2. a # n
    BY <2>1, Zenon
  <2>3. \A k \in x \ {n} : \E b \in x \ {n} : <<b, k>> \in E
    BY Zenon
  <2>4. x \ {n} \in F
    BY <2>1, <2>2, <2>3, Zenon
  <2> QED  BY <2>4, <1>2, Zenon DEF Least
<1> QED  BY <1>2, <1>3, Zenon

\* A finite set of numbers has a largest one.
LEMMA Largest ==
    ASSUME NEW S, IsFiniteSet(S), S \subseteq Nat, S # {}
    PROVE  \E k \in S : \A x \in S : x <= k
<1> DEFINE Up(k) == {x \in S : x >= k}
           F == {Up(k) : k \in S}
<1>1. F \in SUBSET SUBSET S /\ F # {}
  BY Zenon
<1>2. PICK u \in F : Least(u, F)
  <2> HIDE DEF F
  <2> QED  BY <1>1, Smallest, Zenon
<1>3. PICK k \in S : u = Up(k)
  BY <1>2, Zenon
<1>4. ASSUME NEW x \in S  PROVE  x <= k
  <2> SUFFICES ASSUME x > k  PROVE  FALSE
    BY <1>3
  <2>0. x \in Nat /\ k \in Nat
    BY Zenon
  <2>1. k \notin Up(x) /\ k \in Up(k)
    BY <2>0
  <2>2. ASSUME NEW z \in Up(x)  PROVE  z \in Up(k)
    <3>1. z \in S /\ z \in Nat /\ z >= x
      BY Zenon
    <3> QED  BY <3>1, <2>0
  <2>3. Up(x) \in F
    BY Zenon
  <2> QED  BY <2>1, <2>3, <2>2, <1>2, <1>3, Zenon DEF Least
<1> QED  BY <1>3, <1>4, Zenon

Ascends(s, S) ==
    s \in [1..Cardinality(S) -> S] /\ \A i, j \in DOMAIN s : i < j => s[i] < s[j]

\* Any finite set of numbers can be put in ascending order.
LEMMA AscendingExists ==
    ASSUME NEW V, IsFiniteSet(V), V \subseteq Nat
    PROVE  \E s : Ascends(s, V)
<1> DEFINE F == {S \in SUBSET V : ~\E s : Ascends(s, S)}
<1> SUFFICES ASSUME F # {}  PROVE  FALSE
  BY Zenon
<1>1. PICK x \in F : Least(x, F)
  <2>1. F \in SUBSET SUBSET V
    BY Zenon
  <2> HIDE DEF F
  <2> QED  BY <2>1, Smallest, Zenon
<1>2. IsFiniteSet(x) /\ x \subseteq Nat
  BY FS_Subset, Zenon
<1>3. CASE x = {}
  <2>1. Cardinality(x) = 0
    BY <1>3, FS_EmptySet, Zenon
  <2>2. Ascends(<<>>, x)
    BY <2>1, <1>3 DEF Ascends
  <2> QED  BY <2>2, Zenon
<1>4. CASE x # {}
  <2>1. PICK k \in x : \A z \in x : z <= k
    BY <1>2, <1>4, Largest, Zenon
  <2> DEFINE y == x \ {k}
             c == Cardinality(y)
  <2>2. y \subseteq x /\ y # x /\ y \in SUBSET V
    BY Zenon
  <2>3. PICK s : Ascends(s, y)
    BY <2>2, <1>1, Zenon DEF Least
  <2>4. c \in Nat /\ Cardinality(x) = c + 1
    <3>1. Cardinality(x) \in Nat /\ c \in Nat
      BY <1>2, FS_RemoveElement, FS_CardinalityType, Zenon
    <3>2. c = Cardinality(x) - 1
      BY <1>2, FS_RemoveElement, Zenon
    <3> HIDE DEF c
    <3> QED  BY <3>1, <3>2
  <2> DEFINE t == [i \in 1..(c + 1) |-> IF i = c + 1 THEN k ELSE s[i]]
  <2>5. s \in [1..c -> y] /\ \A i, j \in 1..c : i < j => s[i] < s[j]
    BY <2>3, Zenon DEF Ascends
  <2> HIDE DEF c
  <2>6. t \in [1..Cardinality(x) -> x]
    BY <2>4, <2>5
  <2>7. ASSUME NEW i \in 1..(c + 1), NEW j \in 1..(c + 1), i < j  PROVE  t[i] < t[j]
    <3>1. i \in 1..c /\ t[i] = s[i] /\ s[i] \in y
      BY <2>7, <2>4, <2>5
    <3>2. CASE j = c + 1
      <4>1. t[j] = k /\ s[i] \in x /\ s[i] # k /\ s[i] \in Nat /\ k \in Nat
        BY <3>1, <3>2, <2>4, <1>2, Zenon
      <4> QED  BY <4>1, <3>1, <2>1
    <3>3. CASE j # c + 1
      BY <3>1, <3>3, <2>4, <2>5, <2>7
    <3> QED  BY <3>2, <3>3, Zenon
  <2>8. Ascends(t, x)
    BY <2>4, <2>6, <2>7, Zenon DEF Ascends
  <2> QED  BY <2>8, Zenon
<1> QED  BY <1>3, <1>4, Zenon

\* A sequence of all members of S, none twice.
Lists(s, S) ==
    /\ s \in Seq(S)
    /\ \A i, j \in 1..Len(s) : s[i] = s[j] => i = j
    /\ \A n \in S : \E i \in 1..Len(s) : s[i] = n

\* An ascending sequence is one.
LEMMA AscendsFacts ==
    ASSUME NEW S \in SUBSET Nat, IsFiniteSet(S), NEW s, Ascends(s, S)
    PROVE  Lists(s, S) /\ Len(s) = Cardinality(S)
<1> DEFINE c == Cardinality(S)
<1>1. c \in Nat
  BY FS_CardinalityType, Zenon
<1>2. s \in [1..c -> S] /\ \A i, j \in 1..c : i < j => s[i] < s[j]
  BY Zenon DEF Ascends
<1>3. IsFiniteSet(1..c) /\ Cardinality(1..c) = c
  BY <1>1, FS_Interval
<1> HIDE DEF c
<1>4. s \in Seq(S)
  BY <1>1, <1>2, SeqMake, Zenon
<1>5. Len(s) = c
  BY <1>1, <1>2, SeqMake, Zenon
<1>6. ASSUME NEW i \in 1..c, NEW j \in 1..c, s[i] = s[j]  PROVE  i = j
  <2>1. s[i] \in Nat /\ s[j] \in Nat
    BY <1>2, Zenon
  <2> QED  BY <1>1, <1>2, <1>6, <2>1
<1>7. s \in Injection(1..c, S)
  BY <1>2, <1>6, Zenon DEF Injection, IsInjective
<1>8. s \in Surjection(1..c, S)
  BY <1>3, <1>7, FS_Injection, Zenon DEF c
<1>9. \A n \in S : \E i \in 1..c : s[i] = n
  BY <1>8, Zenon DEF Surjection
<1> QED  BY <1>4, <1>5, <1>6, <1>9, Zenon DEF c, Lists
-----------------------------------------------------------------------------
(* hasCycle.                                                                *)

\* The edges of c into m.
In(c, m) == {e \in Job \X (1..MaxNexts) : e[2] \in DOMAIN c[e[1]] /\ c[e[1]][e[2]] = m}

\* Jobs are neither the source nor the sink.
LEMMA JobFacts ==
    /\ Jobs \in Nat /\ MaxNexts \in Nat
    /\ Job \subseteq Node /\ Source \in Node /\ Sink \in Node /\ Source # Sink
    /\ Source \notin Job /\ Sink \notin Job /\ Node = Job \cup {Source, Sink}
    /\ 0 \notin Job /\ Job \subseteq Nat /\ IsFiniteSet(Job)
<1>1. Jobs \in Nat /\ MaxNexts \in Nat
  BY DAGAssumption, Zenon
<1>2. IsFiniteSet(1..Jobs)
  BY <1>1, FS_Interval
<1> QED  BY <1>1, <1>2 DEF Job, Node, Source, Sink

\* HasCycle counts as DAG does.
LEMMA HCardinality == \A S : H!Cardinality(S) = Cardinality(S)
BY Zenon DEF H!Cardinality, Cardinality

\* The operators of HasCycle in the terms of DAG.
LEMMA HFacts ==
    /\ H!Node = Job
    /\ \A n \in Job : \A m : H!Edge(n, m) <=> \E i \in DOMAIN nexts[n] : nexts[n][i] = m
    /\ \A c, m : H!InEdges(c, m) = Cardinality(In(c, m))
<1>1. H!Node = Job
  BY Zenon DEF H!Node, Job
<1>2. \A n \in Job : \A m : H!Edge(n, m) <=> \E i \in DOMAIN nexts[n] : nexts[n][i] = m
  BY Zenon DEF H!Edge
<1>3. \A c, m : H!InEdges(c, m) = Cardinality(In(c, m))
  BY <1>1, HCardinality, Zenon DEF H!InEdges, In
<1> QED  BY <1>1, <1>2, <1>3, Zenon

LEMMA InFinite ==
    ASSUME NEW c, NEW m
    PROVE  /\ IsFiniteSet(In(c, m)) /\ Cardinality(In(c, m)) \in Nat
           /\ Cardinality(In(c, m)) = 0 <=> In(c, m) = {}
<1>1. IsFiniteSet(Job) /\ IsFiniteSet(1..MaxNexts)
  BY JobFacts, FS_Interval
<1>2. IsFiniteSet(Job \X (1..MaxNexts))
  BY <1>1, FS_Product, Zenon
<1>3. In(c, m) \in SUBSET (Job \X (1..MaxNexts))
  BY Zenon DEF In
<1>4. IsFiniteSet(In(c, m))
  BY <1>2, <1>3, FS_Subset, Zenon
<1> QED  BY <1>4, FS_CardinalityType, FS_EmptySet, Zenon

\* An edge of c is in In.
LEMMA InHas ==
    ASSUME NEW c \in [Job -> Seq(Job)], NEW n \in Job, Len(c[n]) <= MaxNexts,
           NEW i \in 1..Len(c[n])
    PROVE  <<n, i>> \in In(c, c[n][i])
<1>1. DOMAIN c[n] = 1..Len(c[n]) /\ Len(c[n]) \in Nat
  BY SeqFacts, Zenon
<1>2. i \in 1..MaxNexts
  BY <1>1, JobFacts
<1> QED  BY <1>1, <1>2, Zenon DEF In

\* The shape of the graph that hasCycle works on.
Checked == \A n \in Job : nexts[n] \in Seq(Job) /\ Len(nexts[n]) <= MaxNexts

\* No member of a whole set is led to from it when no edge of the copy is left.
LEMMA WholeStep ==
    ASSUME Checked, CopyInv, WholeInv, current \in Job, targets[current] = 0,
           copy' \in [Job -> Seq(Job)], UNCHANGED nexts,
           \A n \in Job \ {current} : copy'[n] = copy[n],
           Len(copy'[current]) < Len(copy[current])
    PROVE  WholeInv'
<1>1. In(copy, current) = {}
  BY HFacts, InFinite, Zenon DEF CopyInv
<1>2. \A n, m \in Job : H!Edge(n, m)' <=> H!Edge(n, m)
  BY Zenon DEF H!Edge
<1>3. Whole' = Whole \ {current}
  <2>1. \A n \in Job \ {current} : n \in Whole' <=> n \in Whole
    BY Zenon DEF Whole
  <2>2. Len(copy'[current]) \in Nat /\ Len(copy[current]) \in Nat /\ Len(nexts[current]) \in Nat
    BY SeqFacts, Zenon DEF CopyInv, Checked
  <2>3. copy'[current] # nexts[current]
    BY <2>2 DEF CopyInv
  <2>4. current \notin Whole'
    BY <2>3, Zenon DEF Whole
  <2> QED  BY <2>1, <2>4, Zenon DEF Whole
<1>4. ASSUME NEW n \in Whole  PROVE  ~H!Edge(n, current)
  <2> SUFFICES ASSUME H!Edge(n, current)  PROVE  FALSE
    BY Zenon
  <2>1. n \in Job /\ copy[n] = nexts[n] /\ nexts[n] \in Seq(Job)
    BY Zenon DEF Whole, Checked
  <2>2. PICK i \in DOMAIN nexts[n] : nexts[n][i] = current
    BY <2>1, HFacts, Zenon
  <2>3. i \in 1..Len(copy[n]) /\ Len(copy[n]) <= MaxNexts
    BY <2>1, SeqFacts, Zenon DEF Checked
  <2>4. <<n, i>> \in In(copy, current)
    BY <2>1, <2>2, <2>3, InHas, Zenon DEF CopyInv
  <2> QED  BY <2>4, <1>1, Zenon
<1>5. ASSUME NEW S \in SUBSET Job, S # {}, Closed(S)'
      PROVE  /\ S \cap Whole' # {}
             /\ \A n \in S \cap Whole' : \E m \in S \cap Whole' : H!Edge(n, m)'
  <2>1. Closed(S)
    BY <1>2, <1>5, Zenon DEF Closed
  <2>2. S \cap Whole # {} /\ Closed(S \cap Whole)
    BY <1>5, <2>1, Zenon DEF WholeInv
  <2>3. \A n \in S \cap Whole : \E m \in S \cap Whole' : H!Edge(n, m)
    BY <2>2, <1>3, <1>4, Zenon DEF Closed
  <2>4. \A n \in S \cap Whole' : n \in S \cap Whole
    BY <1>3, Zenon
  <2>5. \A n \in S \cap Whole' : \E m \in S \cap Whole' : H!Edge(n, m)'
    BY <2>3, <2>4, <1>2, Zenon
  <2> QED  BY <2>2, <2>3, <2>5, Zenon
<1> QED  BY <1>5, Zenon DEF WholeInv, Closed

\* A node's edges in the copy are few enough to be counted.
LEMMA CopyFacts ==
    ASSUME Checked, CopyInv, NEW n \in Job
    PROVE  /\ copy[n] \in Seq(Job) /\ Len(copy[n]) \in Nat /\ Len(copy[n]) <= MaxNexts
           /\ nexts[n] \in Seq(Job) /\ Len(nexts[n]) \in Nat
           /\ DOMAIN copy[n] = 1..Len(copy[n]) /\ DOMAIN nexts[n] = 1..Len(nexts[n])
           /\ targets[n] = Cardinality(In(copy, n)) /\ targets[n] \in Nat
<1>1. copy[n] \in Seq(Job) /\ nexts[n] \in Seq(Job)
  BY Zenon DEF CopyInv, Checked
<1>2. /\ Len(copy[n]) \in Nat /\ Len(nexts[n]) \in Nat
      /\ DOMAIN copy[n] = 1..Len(copy[n]) /\ DOMAIN nexts[n] = 1..Len(nexts[n])
  BY <1>1, SeqFacts, Zenon
<1>3. Len(copy[n]) <= Len(nexts[n]) /\ Len(nexts[n]) <= MaxNexts
  BY Zenon DEF CopyInv, Checked
<1>4. targets[n] = Cardinality(In(copy, n)) /\ targets[n] \in Nat
  BY HFacts, InFinite, Zenon DEF CopyInv
<1> QED  BY <1>1, <1>2, <1>3, <1>4, JobFacts

\* The inner loop keeps the invariant.
LEMMA RemoveEdgeInv ==
    ASSUME Checked, CycleInv, H!RemoveEdge, UNCHANGED nexts
    PROVE  CycleInv'
<1> DEFINE l == Len(copy[current])
           m == copy[current][l]
<1>1. /\ current \in Job /\ targets[current] = 0 /\ copy[current] # <<>>
      /\ copy' = [copy EXCEPT ![current] = SubSeq(@, 1, l - 1)]
      /\ targets' = [targets EXCEPT ![m] = @ - 1]
      /\ keys' = IF targets[m] = 1 THEN Append(keys, m) ELSE keys
      /\ current' = current
  BY Zenon DEF H!RemoveEdge, CycleInv, KeyInv
<1>2. CopyInv /\ KeyInv /\ WholeInv
  BY Zenon DEF CycleInv
<1>3. /\ copy[current] \in Seq(Job) /\ l \in Nat \ {0} /\ l <= MaxNexts
      /\ DOMAIN copy[current] = 1..l /\ m \in Job
  BY <1>1, <1>2, CopyFacts, SeqFacts
<1> DEFINE c == SubSeq(copy[current], 1, l - 1)
<1>4. c \in Seq(Job) /\ Len(c) = l - 1 /\ \A i \in 1..(l - 1) : c[i] = copy[current][i]
  BY <1>3, Shorter
<1>5. DOMAIN c = 1..(l - 1)
  BY <1>4, SeqFacts, Zenon
<1> HIDE DEF l, m, c
<1>6. /\ copy' \in [Job -> Seq(Job)] /\ copy'[current] = c
      /\ \A n \in Job \ {current} : copy'[n] = copy[n]
  BY <1>1, <1>2, <1>4, Zenon DEF CopyInv, c, l
<1>7. \A n \in Job : /\ Len(copy'[n]) <= Len(nexts'[n])
                     /\ \A i \in 1..Len(copy'[n]) : copy'[n][i] = nexts'[n][i]
  <2> SUFFICES ASSUME NEW n \in Job
               PROVE  /\ Len(copy'[n]) <= Len(nexts[n])
                      /\ \A i \in 1..Len(copy'[n]) : copy'[n][i] = nexts[n][i]
    BY Zenon
  <2>1. CASE n # current
    BY <2>1, <1>6, <1>2, Zenon DEF CopyInv
  <2>2. CASE n = current
    <3>1. l <= Len(nexts[n]) /\ \A i \in 1..l : copy[n][i] = nexts[n][i]
      BY <2>2, <1>2, Zenon DEF CopyInv, l
    <3>2. Len(nexts[n]) \in Nat
      BY <1>2, CopyFacts, Zenon
    <3>3. Len(copy'[n]) = l - 1 /\ \A i \in 1..(l - 1) : copy'[n][i] = copy[n][i]
      BY <2>2, <1>4, <1>6, Zenon
    <3> QED  BY <3>1, <3>2, <3>3, <1>3
  <2> QED  BY <2>1, <2>2, Zenon
<1>8. <<current, l>> \in In(copy, m)
  <2>1. l \in 1..Len(copy[current])
    BY <1>3 DEF l
  <2>2. Len(copy[current]) <= MaxNexts /\ copy \in [Job -> Seq(Job)]
    BY <1>2, <1>3, Zenon DEF l, CopyInv
  <2> QED  BY <1>1, <2>1, <2>2, InHas, Zenon DEF m
<1>9. In(copy', m) = In(copy, m) \ {<<current, l>>}
  <2>1. ASSUME NEW e \in Job \X (1..MaxNexts)
        PROVE  (e[2] \in DOMAIN copy'[e[1]] /\ copy'[e[1]][e[2]] = m)
                 <=> (e[2] \in DOMAIN copy[e[1]] /\ copy[e[1]][e[2]] = m) /\ e # <<current, l>>
    <3>1. e = <<e[1], e[2]>> /\ e[1] \in Job /\ e[2] \in 1..MaxNexts
      OBVIOUS
    <3>2. CASE e[1] # current
      BY <3>1, <3>2, <1>6
    <3>3. CASE e[1] = current
      <4>1. e = <<current, l>> <=> e[2] = l
        BY <3>1, <3>3
      <4>2. e[2] \in DOMAIN copy'[e[1]] <=> e[2] \in 1..(l - 1)
        BY <3>3, <1>5, <1>6, Zenon
      <4>3. e[2] \in DOMAIN copy[e[1]] <=> e[2] \in 1..l
        BY <3>3, <1>3, Zenon
      <4>4. e[2] \in 1..(l - 1) => copy'[e[1]][e[2]] = copy[e[1]][e[2]]
        BY <3>3, <1>4, <1>6, Zenon
      <4> QED  BY <4>1, <4>2, <4>3, <4>4, <3>1, <1>3
    <3> QED  BY <3>2, <3>3, Zenon
  <2> QED  BY <2>1, Zenon DEF In
<1>10. ASSUME NEW k \in Job \ {m}  PROVE  In(copy', k) = In(copy, k)
  <2>1. ASSUME NEW e \in Job \X (1..MaxNexts)
        PROVE  (e[2] \in DOMAIN copy'[e[1]] /\ copy'[e[1]][e[2]] = k)
                 <=> (e[2] \in DOMAIN copy[e[1]] /\ copy[e[1]][e[2]] = k)
    <3>1. e[1] \in Job /\ e[2] \in 1..MaxNexts
      BY Zenon
    <3>2. CASE e[1] # current
      BY <3>1, <3>2, <1>6, Zenon
    <3>3. CASE e[1] = current
      <4>1. e[2] \in DOMAIN copy'[e[1]] <=> e[2] \in 1..(l - 1)
        BY <3>3, <1>5, <1>6, Zenon
      <4>2. e[2] \in DOMAIN copy[e[1]] <=> e[2] \in 1..l
        BY <3>3, <1>3, Zenon
      <4>3. e[2] \in 1..(l - 1) => copy'[e[1]][e[2]] = copy[e[1]][e[2]]
        BY <3>3, <1>4, <1>6, Zenon
      <4>4. e[2] = l => copy[e[1]][e[2]] # k
        BY <3>3, Zenon DEF m
      <4> QED  BY <4>1, <4>2, <4>3, <4>4, <3>1, <1>3
    <3> QED  BY <3>2, <3>3, Zenon
  <2> QED  BY <2>1, Zenon DEF In
<1>11. /\ targets \in [Job -> Nat] /\ targets[m] > 0
       /\ targets' = [n \in Job |-> H!InEdges(copy', n)]
  <2>1. targets \in [Job -> Nat]
    BY <1>2, CopyFacts, Zenon DEF CopyInv
  <2>2. targets[m] > 0
    BY <1>2, <1>3, <1>8, CopyFacts, InFinite
  <2>3. \A k \in Job : targets[k] = Cardinality(In(copy, k))
    BY <1>2, CopyFacts, Zenon
  <2>4. targets'[m] = Cardinality(In(copy', m))
    <3>1. Cardinality(In(copy', m)) = Cardinality(In(copy, m)) - 1
      <4>1. IsFiniteSet(In(copy, m)) /\ <<current, l>> \in In(copy, m)
        BY <1>8, InFinite, Zenon
      <4> QED  BY <4>1, <1>9, RemoveOne, Zenon
    <3>2. targets'[m] = targets[m] - 1
      BY <1>1, <1>3, <2>1, Zenon
    <3> QED  BY <3>1, <3>2, <2>3, <1>3, Zenon
  <2>5. \A k \in Job \ {m} : targets'[k] = Cardinality(In(copy', k))
    BY <1>1, <1>10, <2>1, <2>3, Zenon
  <2>6. \A k \in Job : targets'[k] = H!InEdges(copy', k)
    BY <2>4, <2>5, HFacts, Zenon
  <2>7. targets' \in [Job -> Int]
    BY <1>1, <1>3, <2>1
  <2> QED  BY <2>1, <2>2, <2>6, <2>7, Zenon
<1>12. CopyInv'
  BY <1>6, <1>7, <1>11, Zenon DEF CopyInv
<1>13. KeyInv'
  <2>1. targets'[m] = targets[m] - 1 /\ \A k \in Job \ {m} : targets'[k] = targets[k]
    BY <1>1, <1>3, <1>11, Zenon
  <2>2. current # m
    BY <1>1, <1>11
  <2>3. keys \in Seq(Job) /\ \A i \in 1..Len(keys) : keys[i] \in Job /\ targets[keys[i]] = 0
    BY <1>2, SeqFacts, Zenon DEF KeyInv
  <2>4. \A i \in 1..Len(keys) : targets'[keys[i]] = 0
    BY <2>1, <2>3, <1>11
  <2>5. \A k \in Job \ {m} : targets'[k] = 0 =>
           k = current \/ (\E i \in 1..Len(keys) : keys[i] = k) \/ copy'[k] = <<>>
    BY <2>1, <1>2, <1>6, Zenon DEF KeyInv
  <2>6. CASE targets[m] = 1
    <3>1. /\ keys' \in Seq(Job) /\ Len(keys') = Len(keys) + 1 /\ Len(keys) \in Nat
          /\ \A i \in 1..Len(keys) : keys'[i] = keys[i]
          /\ keys'[Len(keys) + 1] = m
      BY <2>3, <2>6, <1>1, <1>3, SeqFacts
    <3>2. targets'[m] = 0
      BY <2>1, <2>6
    <3>3. \A i \in 1..Len(keys') : targets'[keys'[i]] = 0
      BY <3>1, <3>2, <2>4
    <3>4. \A k \in Job : (k = m \/ \E i \in 1..Len(keys) : keys[i] = k) =>
             \E i \in 1..Len(keys') : keys'[i] = k
      BY <3>1
    <3> QED  BY <3>1, <3>3, <3>4, <2>1, <2>2, <2>5, <1>1 DEF KeyInv
  <2>7. CASE targets[m] # 1
    <3>1. keys' = keys /\ targets'[m] # 0
      BY <2>1, <2>7, <1>1, <1>11, <1>3
    <3> QED  BY <3>1, <2>1, <2>2, <2>3, <2>4, <2>5, <1>1 DEF KeyInv
  <2> QED  BY <2>6, <2>7, Zenon
<1>14. WholeInv'
  <2>1. Len(copy'[current]) < Len(copy[current])
    BY <1>3, <1>4, <1>6 DEF l
  <2> QED  BY <2>1, <1>1, <1>2, <1>6, WholeStep, Zenon
<1> QED  BY <1>12, <1>13, <1>14, Zenon DEF CycleInv
\* The outer loop keeps it.
LEMMA TakeKeyInv ==
    ASSUME Checked, CycleInv, H!TakeKey, UNCHANGED nexts
    PROVE  CycleInv'
<1> DEFINE l == Len(keys)
<1>1. /\ current = 0 /\ keys # <<>> /\ current' = keys[l] /\ keys' = SubSeq(keys, 1, l - 1)
      /\ copy' = copy /\ targets' = targets
  BY Zenon DEF H!TakeKey
<1>2. CopyInv /\ KeyInv /\ WholeInv
  BY Zenon DEF CycleInv
<1>3. keys \in Seq(Job) /\ l \in Nat \ {0} /\ \A i \in 1..l : keys[i] \in Job
  BY <1>1, <1>2, SeqFacts DEF KeyInv
<1> DEFINE k == SubSeq(keys, 1, l - 1)
<1>4. /\ keys' \in Seq(Job) /\ Len(keys') = l - 1
      /\ \A i \in 1..(l - 1) : keys'[i] = keys[i]
  <2>1. k \in Seq(Job) /\ Len(k) = l - 1 /\ \A i \in 1..(l - 1) : k[i] = keys[i]
    BY <1>3, Shorter
  <2> HIDE DEF k, l
  <2>2. keys' = k
    BY <1>1, Zenon DEF k
  <2> QED  BY <2>1, <2>2, Zenon
<1>5. \A i \in 1..l : targets[keys[i]] = 0
  BY <1>2, Zenon DEF KeyInv
<1> HIDE DEF k, l
<1>6. \A n \in Job : targets[n] = 0 => (\E i \in 1..l : keys[i] = n) \/ copy[n] = <<>>
  BY <1>1, <1>2, JobFacts, Zenon DEF KeyInv, l
<1>7. \A n \in Job : (\E i \in 1..l : keys[i] = n) =>
         n = current' \/ \E i \in 1..(l - 1) : keys'[i] = n
  BY <1>1, <1>3, <1>4
<1>8. current' \in Job /\ targets[current'] = 0
  BY <1>1, <1>3, <1>5
<1>9. \A i \in 1..(l - 1) : targets[keys'[i]] = 0
  BY <1>3, <1>4, <1>5
<1>10. KeyInv'
  BY <1>1, <1>4, <1>6, <1>7, <1>8, <1>9 DEF KeyInv
<1>11. CopyInv' /\ WholeInv'
  <2>1. CopyInv'
    BY <1>1, <1>2, Zenon DEF CopyInv
  <2>2. \A n, m : H!Edge(n, m)' <=> H!Edge(n, m)
    BY Zenon DEF H!Edge
  <2>3. Whole' = Whole
    BY <1>1, Zenon DEF Whole
  <2> QED  BY <2>1, <2>2, <2>3, <1>2, Zenon DEF WholeInv, Closed
<1> QED  BY <1>10, <1>11, Zenon DEF CycleInv

LEMMA NextKeyInv ==
    ASSUME CycleInv, H!NextKey, UNCHANGED nexts
    PROVE  CycleInv'
<1>1. /\ current # 0 /\ copy[current] = <<>> /\ current' = 0
      /\ keys' = keys /\ copy' = copy /\ targets' = targets
  BY Zenon DEF H!NextKey
<1>2. KeyInv'
  <2>1. \A n \in Job : targets[n] = 0 =>
           n = current \/ (\E i \in 1..Len(keys) : keys[i] = n) \/ copy[n] = <<>>
    BY Zenon DEF CycleInv, KeyInv
  <2>2. \A n \in Job : targets[n] = 0 =>
           (\E i \in 1..Len(keys) : keys[i] = n) \/ copy[n] = <<>>
    BY <2>1, <1>1, Zenon
  <2>3. keys \in Seq(Job) /\ \A i \in 1..Len(keys) : targets[keys[i]] = 0
    BY Zenon DEF CycleInv, KeyInv
  <2> QED  BY <2>2, <2>3, <1>1, Zenon DEF KeyInv
<1>3. CopyInv'
  BY <1>1, Zenon DEF CycleInv, CopyInv
<1>4. \A n, m : H!Edge(n, m)' <=> H!Edge(n, m)
  BY Zenon DEF H!Edge
<1>5. Whole' = Whole
  BY <1>1, Zenon DEF Whole
<1> QED  BY <1>2, <1>3, <1>4, <1>5, Zenon DEF CycleInv, WholeInv, Closed

\* What does not change any of it keeps it.
LEMMA SameCycleInv ==
    ASSUME CycleInv, UNCHANGED <<nexts, copy, targets, keys, current>>
    PROVE  CycleInv'
<1>1. CopyInv' /\ KeyInv'
  BY Zenon DEF CycleInv, CopyInv, KeyInv
<1>2. \A n, m : H!Edge(n, m)' <=> H!Edge(n, m)
  BY Zenon DEF H!Edge
<1>3. Whole' = Whole
  BY Zenon DEF Whole
<1> QED  BY <1>1, <1>2, <1>3, Zenon DEF CycleInv, WholeInv, Closed

\* There is a set of jobs within which one can always go on.
Cyclic == \E S \in SUBSET Job : S # {} /\ Closed(S)

LEMMA CorrectDef == Correct <=> (result # "none" => (result = "cycle" <=> Cyclic))
BY HFacts, Zenon DEF Correct, H!Correct, Cyclic, Closed

\* When no key is left, an edge is left iff there is a cycle.
LEMMA CycleAnswer ==
    ASSUME Checked, CycleInv, current = 0, keys = <<>>
    PROVE  (\E n \in Job : copy[n] # <<>>) <=> Cyclic
<1>0. CopyInv /\ KeyInv /\ WholeInv
  BY Zenon DEF CycleInv
<1>1. ASSUME Cyclic, \A n \in Job : copy[n] = <<>>  PROVE  FALSE
  <2>1. PICK S \in SUBSET Job : S \cap Whole # {} /\ Closed(S \cap Whole)
    BY <1>0, <1>1, Zenon DEF Cyclic, WholeInv
  <2>2. PICK n \in S \cap Whole : TRUE
    BY <2>1, Zenon
  <2>3. PICK i \in DOMAIN nexts[n] : TRUE
    BY <2>1, <2>2, HFacts, Zenon DEF Closed
  <2>4. nexts[n] = <<>>
    BY <2>2, <1>1, Zenon DEF Whole
  <2> QED  BY <2>3, <2>4
<1>2. ASSUME NEW x \in Job, copy[x] # <<>>  PROVE  Cyclic
  <2> DEFINE V == {n \in Job : copy[n] # <<>>}
             E == {e \in Job \X Job : H!Edge(e[1], e[2])}
  <2>1. IsFiniteSet(V) /\ V # {} /\ V \subseteq Job
    BY <1>2, JobFacts, FS_Subset, Zenon
  <2>2. ASSUME NEW n \in V  PROVE  \E a \in V : <<a, n>> \in E
    <3>1. keys = <<>> /\ current = 0 /\ n # 0 /\ n \in Job /\ copy[n] # <<>>
      BY JobFacts, Zenon
    <3>2. targets[n] # 0
      BY <3>1, <1>0 DEF KeyInv
    <3>3. PICK e \in In(copy, n) : TRUE
      BY <3>1, <3>2, <1>0, CopyFacts, InFinite, Zenon
    <3> DEFINE a == e[1]
    <3>4. a \in Job /\ e[2] \in DOMAIN copy[a] /\ copy[a][e[2]] = n
      BY Zenon DEF In
    <3>5. e[2] \in 1..Len(copy[a]) /\ e[2] \in DOMAIN nexts[a] /\ nexts[a][e[2]] = n
      <4>1. /\ DOMAIN copy[a] = 1..Len(copy[a]) /\ DOMAIN nexts[a] = 1..Len(nexts[a])
            /\ Len(copy[a]) \in Nat /\ Len(nexts[a]) \in Nat
        BY <3>4, <1>0, CopyFacts, Zenon
      <4>2. Len(copy[a]) <= Len(nexts[a]) /\ \A i \in 1..Len(copy[a]) : copy[a][i] = nexts[a][i]
        BY <3>4, <1>0, Zenon DEF CopyInv
      <4> HIDE DEF a
      <4> QED  BY <4>1, <4>2, <3>4
    <3>6. H!Edge(a, n)
      BY <3>4, <3>5, HFacts, Zenon
    <3>7. copy[a] # <<>>
      BY <3>5
    <3> QED  BY <3>1, <3>4, <3>6, <3>7, Zenon
  <2> HIDE DEF V, E
  <2>3. PICK S \in SUBSET V : S # {} /\ \A n \in S : \E m \in S : <<n, m>> \in E
    BY <2>1, <2>2, BackwardForward, Zenon
  <2>4. Closed(S)
    BY <2>3, Zenon DEF Closed, E
  <2> QED  BY <2>1, <2>3, <2>4, Zenon DEF Cyclic
<1> QED  BY <1>1, <1>2, Zenon
\* The graph of the jobs is the one that hasCycle starts from.
LEMMA InitGraph ==
    ASSUME DAGInit
    PROVE  /\ Checked /\ nexts \in [Node -> Seq(Node)]
           /\ nexts[Source] = <<>> /\ nexts[Sink] = <<>>
           /\ \A n \in Node : Len(nexts[n]) <= Jobs + MaxNexts
<1>1. PICK g \in [Job -> UNION {[1..k -> Job] : k \in 0..MaxNexts}] :
          nexts = [n \in Node |-> IF n \in Job THEN g[n] ELSE <<>>]
  BY Zenon DEF DAGInit
<1>2. ASSUME NEW n \in Job
      PROVE  nexts[n] \in Seq(Job) /\ Len(nexts[n]) <= MaxNexts /\ Len(nexts[n]) \in Nat
  <2>1. PICK k \in 0..MaxNexts : g[n] \in [1..k -> Job]
    OBVIOUS
  <2>2. k \in Nat /\ k <= MaxNexts
    BY JobFacts
  <2>3. g[n] \in Seq(Job)
    BY <2>1, <2>2, SeqMake, Zenon
  <2>4. Len(g[n]) = k
    BY <2>1, <2>2, SeqMake, Zenon
  <2>5. nexts[n] = g[n]
    BY <1>1, JobFacts, Zenon
  <2> QED  BY <2>2, <2>3, <2>4, <2>5, Zenon
<1>3. Checked
  BY <1>2, Zenon DEF Checked
<1>4. nexts[Source] = <<>> /\ nexts[Sink] = <<>>
  BY <1>1, JobFacts, Zenon
<1>5. \A n \in Node : nexts[n] \in Seq(Node) /\ Len(nexts[n]) <= Jobs + MaxNexts
  <2>1. \A n \in Job : nexts[n] \in Seq(Node) /\ Len(nexts[n]) <= Jobs + MaxNexts
    BY <1>2, JobFacts, SeqMono
  <2>2. <<>> \in Seq(Node) /\ Len(<<>>) <= Jobs + MaxNexts
    BY JobFacts
  <2> QED  BY <2>1, <2>2, <1>4, JobFacts, Zenon
<1>6. nexts \in [Node -> Seq(Node)]
  BY <1>1, <1>5, Zenon
<1> QED  BY <1>3, <1>4, <1>5, <1>6, Zenon

\* hasCycle starts in its invariant.
LEMMA InitCycle ==
    ASSUME DAGInit
    PROVE  CycleInv
<1> DEFINE g == [n \in Job |-> nexts[n]]
           S == {n \in Job : H!InEdges(g, n) = 0}
<1>1. Checked
  BY InitGraph, Zenon
<1>2. /\ copy = g /\ targets = [n \in Job |-> H!InEdges(g, n)]
      /\ keys = H!FirstKeys(g) /\ current = 0
  BY HFacts, Zenon DEF DAGInit, H!Init
<1>3. CopyInv
  <2>1. g \in [Job -> Seq(Job)]
    BY <1>1, Zenon DEF Checked
  <2>2. \A n \in Job : /\ g[n] = nexts[n] /\ Len(nexts[n]) \in Nat
    BY <1>1, SeqFacts, Zenon DEF Checked
  <2> HIDE DEF g
  <2> QED  BY <2>1, <2>2, <1>2 DEF CopyInv
<1>4. Ascends(keys, S)
  <2>1. IsFiniteSet(S) /\ S \subseteq Nat
    BY JobFacts, FS_Subset, Zenon
  <2>2. \E s : Ascends(s, S)
    BY <2>1, AscendingExists, Zenon
  <2>3. keys = CHOOSE s \in [1..Cardinality(S) -> S] : \A i, j \in DOMAIN s : i < j => s[i] < s[j]
    BY <1>2, HFacts, HCardinality, Zenon DEF H!FirstKeys
  <2> HIDE DEF S
  <2> QED  BY <2>2, <2>3, Zenon DEF Ascends
<1>5. Lists(keys, S) /\ S \subseteq Job
  <2>1. S \subseteq Job
    BY Zenon
  <2> HIDE DEF S
  <2>2. IsFiniteSet(S) /\ S \in SUBSET Nat
    BY <2>1, JobFacts, FS_Subset, Zenon
  <2> QED  BY <2>1, <2>2, <1>4, AscendsFacts, Zenon
<1>6. KeyInv
  <2>1. keys \in Seq(Job)
    BY <1>5, SeqMono, Zenon DEF Lists
  <2>2. \A n \in Job : targets[n] = 0 <=> n \in S
    BY <1>2, Zenon
  <2>3. \A i \in 1..Len(keys) : keys[i] \in S
    BY <1>5, SeqFacts, Zenon DEF Lists
  <2> HIDE DEF S
  <2> QED  BY <2>1, <2>2, <2>3, <1>2, <1>5, Zenon DEF KeyInv, Lists
<1>7. Whole = Job
  BY <1>2, Zenon DEF Whole
<1>8. WholeInv
  <2>1. \A T \in SUBSET Job : T \cap Whole = T
    BY <1>7, Zenon
  <2> QED  BY <2>1, Zenon DEF WholeInv
<1> QED  BY <1>3, <1>6, <1>8, Zenon DEF CycleInv
LEMMA EdgePrime ==
    \A n \in Job : \A m : H!Edge(n, m)' <=> \E i \in DOMAIN nexts'[n] : nexts'[n][i] = m
BY Zenon DEF H!Edge

LEMMA CorrectPrime == Correct' <=> (result' # "none" => (result' = "cycle" <=> Cyclic'))
<1>1. H!Node = Job
  BY HFacts, Zenon
<1> QED  BY <1>1, Zenon DEF Correct, H!Correct, Cyclic, Closed

\* The answer stands while the edges between jobs do.
LEMMA CorrectKept ==
    ASSUME Correct, result' = result, \A n, m \in Job : H!Edge(n, m)' <=> H!Edge(n, m)
    PROVE  Correct'
<1>1. \A S \in SUBSET Job : Closed(S)' <=> Closed(S)
  BY Zenon DEF Closed
<1>2. Cyclic' <=> Cyclic
  BY <1>1, Zenon DEF Cyclic
<1> QED  BY <1>2, CorrectDef, CorrectPrime, Zenon
=============================================================================
