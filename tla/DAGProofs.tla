------------------------------ MODULE DAGProofs ------------------------------
(***************************************************************************)
(* For any number of jobs with any successors: a graph without a cycle     *)
(* runs every job once, after the jobs before it, and its threads do not   *)
(* touch the nodes after the handler destroyed them.  DInv is the          *)
(* invariant: until the handler yields again a count is the number of      *)
(* edges not yet seen.                                                     *)
(* AllSeen, that no edge is left once the sink was executed, rests on      *)
(* hasCycle's answer.                                                      *)
(***************************************************************************)
EXTENDS HasCycleProofs

\* go() has linked the graph and the handler yielded.
Launched == handler \in {"yielded", "runnable", "running", "returned", "lost"}

\* The types, and the shape of the graph before and after go().
ShapeInv ==
    /\ handler \in {"setup", "checking", "thrown"} \/ Launched
    /\ result \in {"none", "cycle", "acyclic"}
    /\ nexts \in [Node -> Seq(Node)]
    /\ \A n \in Node : Len(nexts[n]) <= Jobs + MaxNexts
    /\ nexts[Sink] = <<>>
    /\ ~Launched => nexts[Source] = <<>> /\
          \A n \in Job : nexts[n] \in Seq(Job) /\ Len(nexts[n]) <= MaxNexts
    /\ Launched =>
          /\ result = "acyclic"
          /\ \A n \in Job : nexts[n] \in Seq(Job \cup {Sink}) /\ nexts[n] # <<>>
          /\ nexts[Source] \in Seq(Job)
          /\ \A i, j \in 1..Len(nexts[Source]) : nexts[Source][i] = nexts[Source][j] => i = j

\* The edges of g into m behind the positions p.
Behind(g, p, m) == {e \in Node \X (1..(Jobs + MaxNexts)) :
                       /\ e[2] \in 1..Len(g[e[1]]) /\ g[e[1]][e[2]] = m
                       /\ e[2] > p[e[1]]}

\* The edges into m that no schedule() has seen.
Unseen(m) == Behind(nexts, pos, m)

\* Where every node is.
NodeInv ==
    /\ waitCount \in [Node -> 0..Width]
    /\ pos \in [Node -> Nat] /\ runs \in [Node -> {0, 1}] /\ yields \in Nat
    /\ nodeState \in [Node -> {"waiting", "queued", "scheduling", "done"}]
    /\ nodeState[Sink] = "waiting" /\ runs[Source] = 0
    /\ \A n \in Node : pos[n] <= Len(nexts[n])
    /\ \A n \in Node : nodeState[n] \in {"waiting", "queued"} => pos[n] = 0
    /\ \A n \in Node : nodeState[n] = "done" => pos[n] = Len(nexts[n])
    /\ \A n \in Job : runs[n] = 0 <=> nodeState[n] = "waiting"
    /\ ~Launched => /\ \A n \in Node : nodeState[n] = "waiting" /\ runs[n] = 0
                    /\ yields = 0
    /\ Launched => nodeState[Source] \in {"scheduling", "done"} /\ yields > 0
    /\ alive \in BOOLEAN /\ (~alive => handler \in {"running", "returned", "lost"})

\* Until the handler yields again, a count is the number of edges not yet seen.
FirstInv ==
    Launched /\ yields = 1 =>
        /\ \A m \in Node : waitCount[m] = Cardinality(Unseen(m))
        /\ \A m \in Node : runs[m] = 1 => Unseen(m) = {}
        /\ handler = "yielded" <=> runs[Sink] = 0

\* How often later yields have decremented the count of the i-th root.
Times(i) == yields - 2 + (IF pos[Source] >= i THEN 1 ELSE 0)

\* Afterwards only the source is scheduled, and the counts of the roots wrap.
LaterInv ==
    Launched /\ yields > 1 =>
        /\ yields <= MaxYields /\ runs[Sink] = 1
        /\ \A n \in Job : runs[n] = 1 /\ nodeState[n] \in {"scheduling", "done"}
                                     /\ pos[n] = Len(nexts[n])
        /\ \A i \in 1..Len(nexts[Source]) :
              waitCount[nexts[Source][i]] = IF Times(i) = 0 THEN 0 ELSE Width - Times(i)
        /\ handler # "yielded" => nodeState[Source] = "done"

DInv ==
    /\ ShapeInv /\ NodeInv /\ FirstInv /\ LaterInv
    /\ Correct /\ NoUseAfterDestroy
    /\ handler \in {"setup", "checking"} => CycleInv
    /\ handler = "setup" => result = "none"
-----------------------------------------------------------------------------
(* The graph before and after go().                                         *)

LEMMA OneSink == <<Sink>> \in Seq(Job \cup {Sink}) /\ Len(<<Sink>>) = 1 /\ <<Sink>>[1] = Sink
OBVIOUS

\* Ascending puts the members of any set of jobs in order.
LEMMA AscendingFacts ==
    ASSUME NEW S, S \subseteq Job
    PROVE  /\ Lists(Ascending(S), S)
           /\ Len(Ascending(S)) \in Nat /\ Len(Ascending(S)) <= Jobs
<1>1. IsFiniteSet(S) /\ S \subseteq Nat
  BY JobFacts, FS_Subset, Zenon
<1>2. Cardinality(S) <= Cardinality(Job) /\ Cardinality(Job) = Jobs
  <2>1. Cardinality(S) <= Cardinality(Job)
    BY JobFacts, FS_Subset, Zenon
  <2>2. Cardinality(Job) = IF 1 > Jobs THEN 0 ELSE Jobs - 1 + 1
    BY JobFacts, FS_Interval DEF Job
  <2> QED  BY <2>1, <2>2, JobFacts
<1>3. \E s : Ascends(s, S)
  BY <1>1, AscendingExists, Zenon
<1>4. Ascends(Ascending(S), S)
  BY <1>3, Zenon DEF Ascending, Ascends
<1>5. Len(Ascending(S)) = Cardinality(S) /\ Cardinality(S) \in Nat
  BY <1>1, <1>4, AscendsFacts, FS_CardinalityType, Zenon
<1>6. Len(Ascending(S)) <= Jobs
  BY <1>2, <1>5, Zenon
<1>7. Lists(Ascending(S), S)
  BY <1>1, <1>4, AscendsFacts, Zenon
<1> QED  BY <1>5, <1>6, <1>7, Zenon

LEMMA InitInv == DAGInit => DInv
<1> SUFFICES ASSUME DAGInit  PROVE  DInv
  BY Zenon
<1>1. /\ waitCount = [n \in Node |-> 0] /\ handler = "setup"
      /\ nodeState = [n \in Node |-> "waiting"]
      /\ pos = [n \in Node |-> 0] /\ runs = [n \in Node |-> 0]
      /\ yields = 0 /\ alive = TRUE /\ fault = FALSE /\ result = "none"
  BY Zenon DEF DAGInit, H!Init
<1>2. ~Launched
  BY <1>1, Zenon DEF Launched
<1>3. ShapeInv
  BY <1>1, <1>2, InitGraph, Zenon DEF ShapeInv, Checked
<1>4. NodeInv
  <2>1. \A n \in Node : Len(nexts[n]) \in Nat
    BY InitGraph, SeqFacts, Zenon
  <2> QED  BY <2>1, <1>1, <1>2, JobFacts, InitGraph, DAGAssumption DEF NodeInv
<1>5. FirstInv /\ LaterInv
  BY <1>2, Zenon DEF FirstInv, LaterInv
<1>6. Correct /\ NoUseAfterDestroy
  BY <1>1, CorrectDef, Zenon DEF NoUseAfterDestroy
<1> QED  BY <1>1, <1>3, <1>4, <1>5, <1>6, InitCycle, Zenon DEF DInv

-----------------------------------------------------------------------------
(* Counting the edges that are left.                                        *)

\* A size_t counts them.
LEMMA BehindFinite ==
    ASSUME NEW g, NEW p, NEW m
    PROVE  /\ IsFiniteSet(Behind(g, p, m)) /\ Cardinality(Behind(g, p, m)) \in 0..Width
           /\ Cardinality(Behind(g, p, m)) = 0 <=> Behind(g, p, m) = {}
<1> DEFINE L == Jobs + MaxNexts
           B == Behind(g, p, m)
<1>1. /\ IsFiniteSet(Node) /\ Cardinality(Node) = Jobs + 2
      /\ IsFiniteSet(1..L) /\ Cardinality(1..L) = L
  <2>1. IsFiniteSet(1..(Jobs + 2)) /\ IsFiniteSet(1..L)
    BY JobFacts, FS_Interval
  <2>2. Cardinality(1..(Jobs + 2)) = IF 1 > Jobs + 2 THEN 0 ELSE Jobs + 2 - 1 + 1
    BY JobFacts, FS_Interval
  <2>3. Cardinality(1..L) = IF 1 > L THEN 0 ELSE L - 1 + 1
    BY JobFacts, FS_Interval
  <2> QED  BY <2>1, <2>2, <2>3, JobFacts DEF Node
<1>2. IsFiniteSet(Node \X (1..L)) /\ Cardinality(Node \X (1..L)) = (Jobs + 2) * L
  <2> DEFINE K == 1..L
  <2>1. IsFiniteSet(K) /\ Cardinality(K) = L
    BY <1>1, Zenon
  <2> HIDE DEF K
  <2>2. IsFiniteSet(Node \X K) /\ Cardinality(Node \X K) = Cardinality(Node) * Cardinality(K)
    BY <2>1, <1>1, FS_Product, Zenon
  <2> QED  BY <2>1, <2>2, <1>1, Zenon DEF K
<1>3. B \in SUBSET (Node \X (1..L))
  BY Zenon DEF Behind
<1> HIDE DEF B
<1>4. IsFiniteSet(B) /\ Cardinality(B) <= (Jobs + 2) * L
  BY <1>2, <1>3, FS_Subset
<1>5. Cardinality(B) \in Nat /\ (Cardinality(B) = 0 <=> B = {})
  BY <1>4, FS_CardinalityType, FS_EmptySet, Zenon
<1>6. (Jobs + 2) * L < Width /\ (Jobs + 2) * L \in Nat /\ Width \in Nat
  <2>1. Jobs \in Nat /\ MaxNexts \in Nat /\ Width \in Nat /\ (Jobs + 2) * L < Width
    BY DAGAssumption, Zenon
  <2>2. (Jobs + 2) \in Nat /\ L \in Nat
    BY <2>1
  <2> HIDE DEF L
  <2> QED  BY <2>1, <2>2
<1> DEFINE N == (Jobs + 2) * L
<1> HIDE DEF N
<1>7. Cardinality(B) \in 0..Width
  <2>1. Cardinality(B) <= N /\ N < Width /\ N \in Nat
    BY <1>4, <1>6, Zenon DEF N
  <2> QED  BY <2>1, <1>5, <1>6
<1> QED  BY <1>4, <1>5, <1>7, Zenon DEF B

LEMMA NodeFacts ==
    ASSUME ShapeInv, NEW n \in Node
    PROVE  /\ nexts[n] \in Seq(Node) /\ Len(nexts[n]) \in Nat
           /\ DOMAIN nexts[n] = 1..Len(nexts[n]) /\ Len(nexts[n]) <= Jobs + MaxNexts
<1>1. nexts[n] \in Seq(Node) /\ Len(nexts[n]) <= Jobs + MaxNexts
  BY Zenon DEF ShapeInv
<1> QED  BY <1>1, SeqFacts, Zenon

\* What a schedule() comes upon is a job or the sink.
LEMMA NextFacts ==
    ASSUME ShapeInv, Launched, NEW n \in Node, NEW i \in 1..Len(nexts[n])
    PROVE  /\ n # Sink /\ nexts[n][i] \in Job \cup {Sink} /\ nexts[n][i] \in Node
           /\ n = Source => nexts[n][i] \in Job
<1>1. nexts[n][i] \in Node
  BY NodeFacts, SeqFacts, Zenon
<1>2. n # Sink
  BY DEF ShapeInv
<1>3. n = Source => nexts[n][i] \in Job
  BY SeqFacts, Zenon DEF ShapeInv
<1>4. n \in Job => nexts[n][i] \in Job \cup {Sink}
  BY SeqFacts, Zenon DEF ShapeInv
<1> QED  BY <1>1, <1>2, <1>3, <1>4, JobFacts, Zenon

\* The next edge of a node has not been seen.
LEMMA UnseenHas ==
    ASSUME ShapeInv, NodeInv, NEW n \in Node, pos[n] < Len(nexts[n])
    PROVE  /\ pos[n] + 1 \in 1..Len(nexts[n])
           /\ <<n, pos[n] + 1>> \in Unseen(nexts[n][pos[n] + 1])
<1>1. pos[n] \in Nat /\ Len(nexts[n]) \in Nat /\ Len(nexts[n]) <= Jobs + MaxNexts
  BY NodeFacts, Zenon DEF NodeInv
<1> DEFINE i == pos[n] + 1
<1>2. i \in 1..Len(nexts[n]) /\ i \in 1..(Jobs + MaxNexts) /\ i > pos[n]
  BY <1>1, JobFacts
<1> HIDE DEF i
<1>3. <<n, i>> \in Unseen(nexts[n][i])
  BY <1>2, Zenon DEF Unseen, Behind
<1> QED  BY <1>2, <1>3, Zenon DEF i

\* Once the sink was executed every edge has been seen: otherwise one could always
\* go on within the jobs that have edges left.
LEMMA AllSeen ==
    ASSUME ShapeInv, NodeInv, FirstInv, Correct, Launched, yields = 1, runs[Sink] = 1
    PROVE  /\ \A n \in Node : pos[n] = Len(nexts[n])
           /\ \A n \in Job : runs[n] = 1 /\ nodeState[n] \in {"scheduling", "done"}
<1> DEFINE S == {n \in Job : pos[n] < Len(nexts[n])}
<1>1. ASSUME NEW n \in Node, pos[n] < Len(nexts[n])
      PROVE  nexts[n][pos[n] + 1] \in S
  <2> DEFINE i == pos[n] + 1
             m == nexts[n][i]
  <2>1. i \in 1..Len(nexts[n]) /\ <<n, i>> \in Unseen(m)
    BY <1>1, UnseenHas, Zenon
  <2>2. m \in Job \cup {Sink} /\ m \in Node
    BY <2>1, NextFacts, Zenon
  <2> HIDE DEF i, m
  <2>3. runs[m] # 1
    BY <2>1, <2>2, Zenon DEF FirstInv
  <2>4. m \in Job /\ runs[m] = 0
    BY <2>2, <2>3, Zenon DEF NodeInv
  <2>5. pos[m] = 0
    BY <2>2, <2>4, Zenon DEF NodeInv
  <2>6. nexts[m] \in Seq(Job \cup {Sink}) /\ nexts[m] # <<>>
    BY <2>4, Zenon DEF ShapeInv
  <2>7. Len(nexts[m]) > 0
    BY <2>6, SeqFacts, Zenon
  <2> QED  BY <2>4, <2>5, <2>7, Zenon DEF i, m
<1>2. S = {}
  <2>1. Closed(S)
    <3> SUFFICES ASSUME NEW n \in S  PROVE  \E m \in S : H!Edge(n, m)
      BY Zenon DEF Closed
    <3>1. n \in Job /\ n \in Node /\ pos[n] < Len(nexts[n])
      BY JobFacts, Zenon
    <3>2. nexts[n][pos[n] + 1] \in S /\ pos[n] + 1 \in DOMAIN nexts[n]
      BY <3>1, <1>1, UnseenHas, NodeFacts, Zenon
    <3> HIDE DEF S
    <3> QED  BY <3>1, <3>2, HFacts, Zenon
  <2>2. ~Cyclic
    BY CorrectDef, Zenon DEF ShapeInv
  <2> QED  BY <2>1, <2>2, Zenon DEF Cyclic
<1>3. \A n \in Node : pos[n] = Len(nexts[n])
  <2> SUFFICES ASSUME NEW n \in Node  PROVE  ~(pos[n] < Len(nexts[n]))
    BY NodeFacts DEF NodeInv
  <2> HIDE DEF S
  <2> QED  BY <1>1, <1>2, Zenon
<1>4. ASSUME NEW n \in Job  PROVE  runs[n] = 1 /\ nodeState[n] \in {"scheduling", "done"}
  <2>1. n \in Node /\ nexts[n] \in Seq(Job \cup {Sink}) /\ nexts[n] # <<>>
    BY JobFacts, Zenon DEF ShapeInv
  <2>2. pos[n] > 0
    BY <2>1, <1>3, SeqFacts, Zenon
  <2>3. nodeState[n] \in {"scheduling", "done"}
    <3>1. /\ nodeState[n] \in {"waiting", "queued", "scheduling", "done"}
          /\ nodeState[n] \in {"waiting", "queued"} => pos[n] = 0
      BY <2>1, Zenon DEF NodeInv
    <3> QED  BY <3>1, <2>2
  <2> QED  BY <2>1, <2>3, Zenon DEF NodeInv
<1> QED  BY <1>3, <1>4, Zenon

\* Whenever the handler goes on, no thread will read a node again.
LEMMA Finished ==
    ASSUME DInv, Launched, handler # "yielded"
    PROVE  /\ \A n \in Node : pos[n] = Len(nexts[n])
           /\ \A n \in Job : runs[n] = 1 /\ nodeState[n] \in {"scheduling", "done"}
           /\ runs[Sink] = 1
<1>0. ShapeInv /\ NodeInv /\ FirstInv /\ LaterInv /\ Correct
  BY Zenon DEF DInv
<1>1. CASE yields = 1
  <2>1. runs[Sink] = 1
    BY <1>0, <1>1, JobFacts, Zenon DEF FirstInv, NodeInv
  <2> QED  BY <2>1, <1>0, <1>1, AllSeen, Zenon
<1>2. CASE yields # 1
  <2>1. yields > 1
    BY <1>0, <1>2 DEF NodeInv
  <2>2. /\ runs[Sink] = 1 /\ nodeState[Source] = "done"
        /\ \A n \in Job : /\ runs[n] = 1 /\ nodeState[n] \in {"scheduling", "done"}
                          /\ pos[n] = Len(nexts[n])
    BY <2>1, <1>0, Zenon DEF LaterInv
  <2>3. pos[Source] = Len(nexts[Source])
    BY <2>2, <1>0, JobFacts, Zenon DEF NodeInv
  <2>4. pos[Sink] = Len(nexts[Sink])
    <3>1. nexts[Sink] = <<>> /\ Sink \in Node /\ pos[Sink] <= Len(nexts[Sink])
      BY <1>0, JobFacts, Zenon DEF NodeInv, ShapeInv
    <3>2. Len(nexts[Sink]) = 0 /\ pos[Sink] \in Nat
      BY <3>1, <1>0, Zenon DEF NodeInv
    <3> QED  BY <3>1, <3>2
  <2> QED  BY <2>2, <2>3, <2>4, JobFacts, Zenon
<1> QED  BY <1>1, <1>2, Zenon
-----------------------------------------------------------------------------
(* The steps.                                                               *)

\* setDependency and the steps of hasCycle.
LEMMA CheckInv ==
    ASSUME DInv, RunGraph \/ CheckStep
    PROVE  DInv'
<1>0. ShapeInv /\ NodeInv /\ Correct /\ NoUseAfterDestroy
  BY Zenon DEF DInv
<1>1. /\ UNCHANGED <<nexts, waitCount, nodeState, pos, runs, yields, alive, fault>>
      /\ handler \in {"setup", "checking"} /\ handler' = "checking"
  BY Zenon DEF RunGraph, CheckStep, graph
<1>2. ~Launched /\ ~Launched'
  BY <1>1, Zenon DEF Launched
<1>3. CycleInv /\ Checked
  BY <1>0, <1>1, <1>2, Zenon DEF DInv, ShapeInv, Checked
<1>4. \A n, m \in Job : H!Edge(n, m)' <=> H!Edge(n, m)
  BY <1>1, Zenon DEF H!Edge
<1>5. CycleInv' /\ Correct' /\ result' \in {"none", "cycle", "acyclic"}
  <2>1. CASE RunGraph
    <3>1. UNCHANGED <<copy, targets, keys, current, result>>
      BY <2>1, Zenon DEF RunGraph, check
    <3> QED  BY <3>1, <1>0, <1>1, <1>3, <1>4, SameCycleInv, CorrectKept, Zenon DEF ShapeInv
  <2>2. CASE H!TakeKey
    <3>1. result' = result
      BY <2>2, Zenon DEF H!TakeKey
    <3> QED  BY <3>1, <2>2, <1>0, <1>1, <1>3, <1>4, TakeKeyInv, CorrectKept, Zenon DEF ShapeInv
  <2>3. CASE H!RemoveEdge
    <3>1. result' = result
      BY <2>3, Zenon DEF H!RemoveEdge
    <3> QED  BY <3>1, <2>3, <1>0, <1>1, <1>3, <1>4, RemoveEdgeInv, CorrectKept, Zenon
       DEF ShapeInv
  <2>4. CASE H!NextKey
    <3>1. result' = result
      BY <2>4, Zenon DEF H!NextKey
    <3> QED  BY <3>1, <2>4, <1>0, <1>1, <1>3, <1>4, NextKeyInv, CorrectKept, Zenon DEF ShapeInv
  <2>5. CASE H!Return
    <3>1. /\ UNCHANGED <<copy, targets, keys, current>> /\ current = 0 /\ keys = <<>>
          /\ result' = IF \E n \in Job : copy[n] # <<>> THEN "cycle" ELSE "acyclic"
      BY <2>5, HFacts, Zenon DEF H!Return
    <3>2. result' = "cycle" <=> Cyclic
      BY <3>1, <1>3, CycleAnswer, Zenon
    <3>3. \A S \in SUBSET Job : Closed(S)' <=> Closed(S)
      BY <1>4, Zenon DEF Closed
    <3>4. Cyclic' <=> Cyclic
      BY <3>3, Zenon DEF Cyclic
    <3>5. CycleInv'
      BY <3>1, <1>1, <1>3, SameCycleInv, Zenon
    <3> QED  BY <3>1, <3>2, <3>4, <3>5, CorrectPrime, Zenon
  <2> QED  BY <2>1, <2>2, <2>3, <2>4, <2>5, Zenon DEF CheckStep, H!Next
<1>6. ShapeInv'
  BY <1>0, <1>1, <1>2, <1>5, Zenon DEF ShapeInv
<1>7. NodeInv'
  BY <1>0, <1>1, <1>2, Zenon DEF NodeInv
<1>8. FirstInv' /\ LaterInv'
  BY <1>2, Zenon DEF FirstInv, LaterInv
<1>9. NoUseAfterDestroy' /\ handler' # "setup"
  BY <1>0, <1>1, Zenon DEF NoUseAfterDestroy
<1> QED  BY <1>1, <1>5, <1>6, <1>7, <1>8, <1>9, Zenon DEF DInv

\* The graph that go() makes.
LEMMA LinkedFacts ==
    ASSUME ShapeInv, ~Launched
    PROVE  /\ Linked \in [Node -> Seq(Node)] /\ Linked[Sink] = <<>>
           /\ \A n \in Node : Len(Linked[n]) <= Jobs + MaxNexts
           /\ \A n \in Job : Linked[n] \in Seq(Job \cup {Sink}) /\ Linked[n] # <<>>
           /\ Linked[Source] \in Seq(Job)
           /\ \A i, j \in 1..Len(Linked[Source]) : Linked[Source][i] = Linked[Source][j] => i = j
           /\ \A n \in Job : Linked[n] = IF nexts[n] = <<>> THEN <<Sink>> ELSE nexts[n]
<1>1. /\ Linked[Source] = Ascending(Roots) /\ Linked[Sink] = nexts[Sink]
      /\ \A n \in Job : Linked[n] = IF nexts[n] = <<>> THEN <<Sink>> ELSE nexts[n]
  BY JobFacts, Zenon DEF Linked
<1>2. Roots \subseteq Job
  BY Zenon DEF Roots
<1>3. /\ Linked[Source] \in Seq(Job) /\ Len(Linked[Source]) <= Jobs
      /\ Len(Linked[Source]) \in Nat
      /\ \A i, j \in 1..Len(Linked[Source]) : Linked[Source][i] = Linked[Source][j] => i = j
  <2>1. Lists(Linked[Source], Roots) /\ Len(Linked[Source]) \in Nat /\ Len(Linked[Source]) <= Jobs
    BY <1>1, <1>2, AscendingFacts, Zenon
  <2> QED  BY <2>1, <1>2, SeqMono, Zenon DEF Lists
<1>4. ASSUME NEW n \in Job
      PROVE  /\ Linked[n] \in Seq(Job \cup {Sink}) /\ Linked[n] # <<>>
             /\ Len(Linked[n]) <= Jobs + MaxNexts
  <2>1. nexts[n] \in Seq(Job) /\ Len(nexts[n]) <= MaxNexts /\ Len(nexts[n]) \in Nat
    BY SeqFacts, Zenon DEF ShapeInv
  <2>2. CASE nexts[n] = <<>>
    <3>1. Linked[n] = <<Sink>>
      BY <1>1, <2>2, Zenon
    <3>2. 1 <= Jobs
      BY JobFacts DEF Job
    <3> QED  BY <3>1, <3>2, OneSink, JobFacts
  <2>3. CASE nexts[n] # <<>>
    <3>1. Linked[n] = nexts[n]
      BY <1>1, <2>3, Zenon
    <3>2. nexts[n] \in Seq(Job \cup {Sink})
      BY <2>1, SeqMono, Zenon
    <3> QED  BY <3>1, <3>2, <2>1, <2>3, JobFacts
  <2> QED  BY <2>2, <2>3, Zenon
<1>5. Linked[Sink] = <<>>
  BY <1>1, Zenon DEF ShapeInv
<1>6. \A n \in Node : Linked[n] \in Seq(Node) /\ Len(Linked[n]) <= Jobs + MaxNexts
  <2>1. \A n \in Job : Linked[n] \in Seq(Node) /\ Len(Linked[n]) <= Jobs + MaxNexts
    BY <1>4, JobFacts, SeqMono, Zenon
  <2>2. Linked[Source] \in Seq(Node) /\ Len(Linked[Source]) <= Jobs + MaxNexts
    BY <1>3, JobFacts, SeqMono
  <2>3. Linked[Sink] \in Seq(Node) /\ Len(Linked[Sink]) <= Jobs + MaxNexts
    BY <1>5, JobFacts
  <2> QED  BY <2>1, <2>2, <2>3, JobFacts, Zenon
<1>7. Linked \in [Node -> Seq(Node)]
  BY <1>6, Zenon DEF Linked
<1> QED  BY <1>1, <1>3, <1>4, <1>5, <1>6, <1>7, Zenon
LEMMA GoInv ==
    ASSUME DInv, Go
    PROVE  DInv'
<1>0. ShapeInv /\ NodeInv /\ Correct /\ NoUseAfterDestroy
  BY Zenon DEF DInv
<1>1. /\ handler = "checking" /\ UNCHANGED <<pos, runs, alive, fault, result>>
      /\ handler' \in {"thrown", "yielded"}
  BY Zenon DEF Go, check
<1>2. ~Launched
  BY <1>1, Zenon DEF Launched
<1>3. NoUseAfterDestroy' /\ handler' \notin {"setup", "checking"}
  BY <1>0, <1>1, Zenon DEF NoUseAfterDestroy
<1>4. CASE result = "cycle"
  <2>1. handler' = "thrown" /\ UNCHANGED <<nexts, waitCount, nodeState, yields>>
    BY <1>4, Zenon DEF Go
  <2>2. ~Launched'
    BY <2>1, Zenon DEF Launched
  <2>3. ShapeInv'
    BY <2>1, <2>2, <1>0, <1>1, <1>2, Zenon DEF ShapeInv
  <2>4. NodeInv'
    BY <2>1, <2>2, <1>0, <1>1, <1>2, Zenon DEF NodeInv
  <2>5. FirstInv' /\ LaterInv'
    BY <2>2, Zenon DEF FirstInv, LaterInv
  <2>6. Correct'
    <3>1. \A n, m \in Job : H!Edge(n, m)' <=> H!Edge(n, m)
      BY <2>1, Zenon DEF H!Edge
    <3> QED  BY <3>1, <1>0, <1>1, CorrectKept, Zenon
  <2> QED  BY <2>3, <2>4, <2>5, <2>6, <1>3, Zenon DEF DInv
<1>5. CASE result = "acyclic"
  <2>1. /\ nexts' = Linked /\ waitCount' = [n \in Node |-> InEdges(Linked, n)]
        /\ handler' = "yielded" /\ nodeState' = [nodeState EXCEPT ![Source] = "scheduling"]
        /\ yields' = yields + 1
    BY <1>5, Zenon DEF Go
  <2>2. Launched'
    BY <2>1, Zenon DEF Launched
  <2>3. ShapeInv'
    BY <2>1, <2>2, <1>0, <1>1, <1>2, <1>5, LinkedFacts, Zenon DEF ShapeInv
  <2>4. \A n \in Node : nodeState[n] = "waiting" /\ runs[n] = 0 /\ pos[n] = 0
    BY <1>0, <1>2, Zenon DEF NodeInv
  <2>5. yields' = 1
    BY <2>1, <1>0, <1>2 DEF NodeInv
  <2>6. \A n \in Node : Linked[n] \in Seq(Node) /\ DOMAIN Linked[n] = 1..Len(Linked[n])
                        /\ Len(Linked[n]) \in Nat
    BY <1>0, <1>2, LinkedFacts, SeqFacts, Zenon
  <2>7. \A m \in Node : waitCount'[m] = Cardinality(Behind(Linked, pos, m))
    <3> SUFFICES ASSUME NEW m \in Node
                 PROVE  InEdges(Linked, m) = Cardinality(Behind(Linked, pos, m))
      BY <2>1, Zenon
    <3> DEFINE K == 1..(Jobs + MaxNexts)
    <3>1. \A e \in Node \X K : e[1] \in Node /\ e[2] > 0
      BY JobFacts
    <3>2. \A e \in Node \X K :
             (e[2] \in DOMAIN Linked[e[1]] /\ Linked[e[1]][e[2]] = m)
             <=> (e[2] \in 1..Len(Linked[e[1]]) /\ Linked[e[1]][e[2]] = m /\ e[2] > pos[e[1]])
      BY <3>1, <2>4, <2>6, Zenon
    <3>3. {e \in Node \X K : e[2] \in DOMAIN Linked[e[1]] /\ Linked[e[1]][e[2]] = m}
             = Behind(Linked, pos, m)
      <4> HIDE DEF K
      <4>1. Behind(Linked, pos, m) =
              {e \in Node \X K : /\ e[2] \in 1..Len(Linked[e[1]]) /\ Linked[e[1]][e[2]] = m
                                 /\ e[2] > pos[e[1]]}
        BY Zenon DEF Behind, K
      <4> QED  BY <3>2, <4>1, Zenon
    <3> QED  BY <3>3, Zenon DEF InEdges
  <2>8. waitCount' \in [Node -> 0..Width]
    <3>1. \A m \in Node : waitCount'[m] \in 0..Width
      BY <2>7, BehindFinite, Zenon
    <3> QED  BY <2>1, <3>1, Zenon
  <2>9. NodeInv'
    <3>1. /\ nodeState' \in [Node -> {"waiting", "queued", "scheduling", "done"}]
          /\ nodeState'[Source] = "scheduling"
          /\ \A n \in Node \ {Source} : nodeState'[n] = "waiting"
      BY <2>1, <2>4, <1>0, JobFacts, Zenon DEF NodeInv
    <3>2. \A n \in Node : runs'[n] = 0 /\ pos'[n] = 0 /\ pos'[n] <= Len(nexts'[n])
      BY <2>1, <2>4, <2>6, <1>1
    <3>3. pos' \in [Node -> Nat] /\ runs' \in [Node -> {0, 1}]
      BY <1>0, <1>1, Zenon DEF NodeInv
    <3>4. alive' \in BOOLEAN /\ (~alive' => handler' \in {"running", "returned", "lost"})
      BY <1>0, <1>1, <2>1, Zenon DEF NodeInv
    <3> QED  BY <3>1, <3>2, <3>3, <3>4, <2>2, <2>5, <2>8, JobFacts DEF NodeInv
  <2>10. FirstInv'
    <3>1. \A m \in Node : waitCount'[m] = Cardinality(Behind(nexts', pos', m))
      BY <2>1, <2>7, <1>1, Zenon
    <3>2. \A m \in Node : runs'[m] = 0
      BY <2>4, <1>1, Zenon
    <3>3. handler' = "yielded" /\ runs'[Sink] = 0
      BY <3>2, <2>1, JobFacts, Zenon
    <3>4. \A m \in Node : runs'[m] # 1
      BY <3>2
    <3> QED  BY <3>1, <3>3, <3>4, Zenon DEF FirstInv, Unseen
  <2>11. LaterInv'
    BY <2>5 DEF LaterInv
  <2>12. Correct'
    <3>1. ASSUME NEW n \in Job, NEW m \in Job  PROVE  H!Edge(n, m)' <=> H!Edge(n, m)
      <4>1. nexts'[n] = IF nexts[n] = <<>> THEN <<Sink>> ELSE nexts[n]
        BY <2>1, <1>0, <1>2, LinkedFacts, Zenon
      <4>2. CASE nexts[n] # <<>>
        BY <4>1, <4>2, HFacts, EdgePrime
      <4>3. CASE nexts[n] = <<>>
        <5>1. ~H!Edge(n, m)
          BY <4>3, HFacts
        <5>2. \A i \in DOMAIN <<Sink>> : <<Sink>>[i] # m
          BY JobFacts
        <5>3. ~H!Edge(n, m)'
          BY <4>1, <4>3, <5>2, EdgePrime
        <5> QED  BY <5>1, <5>3, Zenon
      <4> QED  BY <4>2, <4>3, Zenon
    <3> QED  BY <3>1, <1>0, <1>1, CorrectKept, Zenon
  <2> QED  BY <2>3, <2>9, <2>10, <2>11, <2>12, <1>3, Zenon DEF DInv
<1> QED  BY <1>4, <1>5, Zenon DEF Go
\* A step that leaves the graph and hasCycle alone keeps what they are.
LEMMA GraphKept ==
    ASSUME DInv, UNCHANGED <<nexts, check>>, Launched, Launched'
    PROVE  ShapeInv' /\ Correct'
<1>1. UNCHANGED <<nexts, result>>
  BY Zenon DEF check
<1>2. ShapeInv'
  BY <1>1, Zenon DEF DInv, ShapeInv
<1>3. \A n, m \in Job : H!Edge(n, m)' <=> H!Edge(n, m)
  BY <1>1, Zenon DEF H!Edge
<1> QED  BY <1>1, <1>2, <1>3, CorrectKept, Zenon DEF DInv

\* What is left of an invariant's proof once the handler is under way.
LEMMA LaunchedInv ==
    ASSUME Launched', ShapeInv', NodeInv', FirstInv', LaterInv', Correct', NoUseAfterDestroy'
    PROVE  DInv'
<1>1. handler' \notin {"setup", "checking"}
  BY Zenon DEF Launched
<1> QED  BY <1>1, Zenon DEF DInv

\* The arithmetic of size_t.
LEMMA Decrement ==
    /\ Width \in Nat /\ Width > 0
    /\ \A w \in 1..Width : (w - 1 + Width) % Width = w - 1
    /\ (0 - 1 + Width) % Width = Width - 1
<1>1. Width \in Nat /\ Width > 0
  <2>1. Jobs \in Nat /\ MaxNexts \in Nat /\ Width \in Nat
    BY DAGAssumption, Zenon
  <2> DEFINE N == (Jobs + 2) * (Jobs + MaxNexts)
  <2>2. N \in Nat
    BY <2>1
  <2>3. N < Width
    BY DAGAssumption, Zenon
  <2> HIDE DEF N
  <2> QED  BY <2>1, <2>2, <2>3
<1>2. \A w \in 1..Width : (w - 1 + Width) % Width = w - 1
  BY <1>1
<1>3. (0 - 1 + Width) % Width = Width - 1
  BY <1>1
<1> QED  BY <1>1, <1>2, <1>3, Zenon

\* What a step of schedule() starts from.
LEMMA ScheduleFacts ==
    ASSUME DInv, NEW n \in Node, nodeState[n] = "scheduling", pos[n] < Len(nexts[n])
    PROVE  /\ Launched /\ handler = "yielded" /\ alive
           /\ n # Sink /\ pos[n] \in Nat /\ pos[n] + 1 \in 1..Len(nexts[n])
           /\ Len(nexts[n]) \in Nat
           /\ nexts[n][pos[n] + 1] \in Job \cup {Sink} /\ nexts[n][pos[n] + 1] \in Node
           /\ <<n, pos[n] + 1>> \in Unseen(nexts[n][pos[n] + 1])
<1>0. ShapeInv /\ NodeInv
  BY Zenon DEF DInv
<1>1. Launched
  BY <1>0, Zenon DEF NodeInv
<1>2. handler = "yielded"
  <2>1. pos[n] \in Nat /\ Len(nexts[n]) \in Nat
    BY <1>0, NodeFacts, Zenon DEF NodeInv
  <2> QED  BY <2>1, <1>1, Finished
<1>3. alive
  BY <1>0, <1>2, Zenon DEF NodeInv
<1>4. pos[n] \in Nat /\ Len(nexts[n]) \in Nat
  BY <1>0, NodeFacts, Zenon DEF NodeInv
<1>5. /\ pos[n] + 1 \in 1..Len(nexts[n])
      /\ <<n, pos[n] + 1>> \in Unseen(nexts[n][pos[n] + 1])
  BY <1>0, UnseenHas, Zenon
<1>6. /\ n # Sink /\ nexts[n][pos[n] + 1] \in Job \cup {Sink}
      /\ nexts[n][pos[n] + 1] \in Node
  BY <1>0, <1>1, <1>5, NextFacts, Zenon
<1> QED  BY <1>1, <1>2, <1>3, <1>4, <1>5, <1>6, Zenon

\* Seeing an edge takes it from the edges left, and no other.
LEMMA BehindStep ==
    ASSUME NEW g, NEW p, NEW q, NEW n \in Node, NEW i \in Nat, NEW key,
           key = g[n][i], p[n] = i - 1, q[n] = i, \A u \in Node \ {n} : q[u] = p[u]
    PROVE  /\ Behind(g, q, key) = Behind(g, p, key) \ {<<n, i>>}
           /\ \A m \in Node \ {key} : Behind(g, q, m) = Behind(g, p, m)
<1> DEFINE K == 1..(Jobs + MaxNexts)
<1>1. \A e \in Node \X K : e[1] \in Node /\ e[2] \in Nat /\ e = <<e[1], e[2]>>
  BY JobFacts
<1>2. \A e \in Node \X K : e[2] > q[e[1]] <=> e[2] > p[e[1]] /\ e # <<n, i>>
  <2> SUFFICES ASSUME NEW e \in Node \X K
               PROVE  e[2] > q[e[1]] <=> e[2] > p[e[1]] /\ e # <<n, i>>
    BY Zenon
  <2>1. e[1] \in Node /\ e[2] \in Nat /\ e = <<e[1], e[2]>>
    BY <1>1, Zenon
  <2>2. CASE e[1] = n
    <3>1. e # <<n, i>> <=> e[2] # i
      BY <2>1, <2>2
    <3>2. q[e[1]] = i /\ p[e[1]] = i - 1 /\ i \in Nat
      BY <2>2, Zenon
    <3> HIDE DEF K
    <3> QED  BY <3>1, <3>2, <2>1
  <2>3. CASE e[1] # n
    <3>1. e # <<n, i>>
      BY <2>1, <2>3
    <3>2. q[e[1]] = p[e[1]]
      BY <2>1, <2>3, Zenon
    <3> QED  BY <3>1, <3>2, Zenon
  <2> QED  BY <2>2, <2>3, Zenon
<1> HIDE DEF K
<1> DEFINE To(m) == {e \in Node \X K : e[2] \in 1..Len(g[e[1]]) /\ g[e[1]][e[2]] = m}
           Left(T, r) == {e \in T : e[2] > r[e[1]]}
<1>3. \A m, r : Behind(g, r, m) = Left(To(m), r)
  BY Zenon DEF Behind, K
<1>4. Behind(g, q, key) = Behind(g, p, key) \ {<<n, i>>}
  <2>1. \A e \in To(key) : e[2] > q[e[1]] <=> e[2] > p[e[1]] /\ e # <<n, i>>
    BY <1>2, Zenon
  <2>2. /\ Behind(g, q, key) = Left(To(key), q)
        /\ Behind(g, p, key) = Left(To(key), p)
    <3> HIDE DEF To, Left
    <3> QED  BY <1>3, Zenon
  <2> HIDE DEF To
  <2> QED  BY <2>1, <2>2, Zenon
<1>5. ASSUME NEW m \in Node \ {key}  PROVE  Behind(g, q, m) = Behind(g, p, m)
  <2>1. \A e \in To(m) : e[2] > q[e[1]] <=> e[2] > p[e[1]]
    <3>1. \A e \in To(m) : e # <<n, i>>
      OBVIOUS
    <3> QED  BY <3>1, <1>2, Zenon
  <2>2. /\ Behind(g, q, m) = Left(To(m), q)
        /\ Behind(g, p, m) = Left(To(m), p)
    <3> HIDE DEF To, Left
    <3> QED  BY <1>3, Zenon
  <2> HIDE DEF To
  <2> QED  BY <2>1, <2>2, Zenon
<1> QED  BY <1>4, <1>5, Zenon
\* On the first pass a decrement takes one edge, and the last one executes.
LEMMA FirstStepInv ==
    ASSUME DInv, NEW n \in Node, ScheduleStep(n), yields = 1
    PROVE  DInv'
<1>0. ShapeInv /\ NodeInv /\ FirstInv /\ NoUseAfterDestroy
  BY Zenon DEF DInv
<1> DEFINE i == pos[n] + 1
           key == nexts[n][i]
<1>1. /\ nodeState[n] = "scheduling" /\ pos[n] < Len(nexts[n])
      /\ waitCount' = [waitCount EXCEPT ![key] = (@ - 1 + Width) % Width]
      /\ IF waitCount'[key] = 0 THEN Execute(key) ELSE UNCHANGED <<runs, handler, nodeState>>
      /\ pos' = [pos EXCEPT ![n] = i]
      /\ fault' = (fault \/ ~alive)
      /\ UNCHANGED <<nexts, yields, alive, check>>
  BY Zenon DEF ScheduleStep
<1>2. /\ Launched /\ handler = "yielded" /\ alive /\ n # Sink
      /\ pos[n] \in Nat /\ i \in 1..Len(nexts[n]) /\ Len(nexts[n]) \in Nat
      /\ key \in Job \cup {Sink} /\ key \in Node /\ <<n, i>> \in Unseen(key)
  BY <1>1, ScheduleFacts, Zenon
<1>3. /\ Behind(nexts, pos', key) = Unseen(key) \ {<<n, i>>}
      /\ \A m \in Node \ {key} : Behind(nexts, pos', m) = Unseen(m)
  <2>1. /\ i \in Nat /\ pos[n] = i - 1 /\ pos'[n] = i
        /\ \A u \in Node \ {n} : pos'[u] = pos[u]
    <3>1. i \in Nat /\ pos[n] = i - 1
      BY <1>2
    <3>2. pos \in [Node -> Nat] /\ pos' = [pos EXCEPT ![n] = i]
      BY <1>0, <1>1, Zenon DEF NodeInv
    <3> HIDE DEF i, key
    <3> QED  BY <3>1, <3>2, Zenon
  <2>2. key = nexts[n][i]
    BY Zenon
  <2> HIDE DEF i, key
  <2>3. /\ Behind(nexts, pos', key) = Behind(nexts, pos, key) \ {<<n, i>>}
        /\ \A m \in Node \ {key} : Behind(nexts, pos', m) = Behind(nexts, pos, m)
    BY <2>1, <2>2, BehindStep
  <2> QED  BY <2>3, Zenon DEF Unseen
<1> HIDE DEF i, key
<1>4. /\ \A m \in Node : waitCount[m] = Cardinality(Unseen(m))
      /\ \A m \in Node : runs[m] = 1 => Unseen(m) = {}
      /\ runs[Sink] = 0
  BY <1>0, <1>2, Zenon DEF FirstInv
<1>5. runs[key] = 0
  BY <1>0, <1>2, <1>4, Zenon DEF NodeInv
<1>6. waitCount \in [Node -> 0..Width] /\ waitCount[key] \in 1..Width
  <2>1. waitCount \in [Node -> 0..Width]
    BY <1>0, Zenon DEF NodeInv
  <2>2. waitCount[key] # 0
    BY <1>2, <1>4, BehindFinite, Zenon DEF Unseen
  <2> QED  BY <2>1, <2>2, <1>2
<1>7. /\ waitCount' \in [Node -> 0..Width] /\ waitCount'[key] = waitCount[key] - 1
      /\ \A m \in Node \ {key} : waitCount'[m] = waitCount[m]
  <2>1. (waitCount[key] - 1 + Width) % Width = waitCount[key] - 1 /\ Width \in Nat
    BY <1>6, Decrement, Zenon
  <2>2. waitCount' = [waitCount EXCEPT ![key] = waitCount[key] - 1]
    BY <2>1, <1>1, Zenon
  <2>3. waitCount[key] - 1 \in 0..Width
    BY <2>1, <1>6
  <2> QED  BY <2>2, <2>3, <1>2, <1>6, Zenon
<1>8. \A m \in Node : waitCount'[m] = Cardinality(Behind(nexts, pos', m))
  <2>1. Cardinality(Behind(nexts, pos', key)) = Cardinality(Unseen(key)) - 1
    <3>1. IsFiniteSet(Unseen(key))
      BY BehindFinite, Zenon DEF Unseen
    <3> QED  BY <3>1, <1>2, <1>3, RemoveOne, Zenon
  <2> QED  BY <2>1, <1>2, <1>3, <1>4, <1>7, Zenon
<1>9. /\ pos' \in [Node -> Nat] /\ pos'[n] = i /\ i <= Len(nexts[n])
      /\ \A u \in Node \ {n} : pos'[u] = pos[u]
  BY <1>0, <1>1, <1>2 DEF NodeInv
<1>10. NoUseAfterDestroy'
  BY <1>0, <1>1, <1>2, Zenon DEF NoUseAfterDestroy
<1>11. alive' \in BOOLEAN /\ alive'
  BY <1>0, <1>1, <1>2, Zenon DEF NodeInv
<1>12. key # n
  BY <1>0, <1>1, <1>2, <1>5, JobFacts, Zenon DEF NodeInv
<1>13. \A m \in Node \ {key} : runs'[m] = runs[m] /\ nodeState'[m] = nodeState[m]
  BY <1>0, <1>1, Zenon DEF Execute, NodeInv
<1>14. CASE waitCount'[key] # 0
  <2>1. UNCHANGED <<runs, handler, nodeState>>
    BY <1>1, <1>14, Zenon
  <2>2. Launched'
    BY <2>1, <1>2, Zenon DEF Launched
  <2>3. NodeInv'
    <3>1. /\ \A u \in Node : pos'[u] <= Len(nexts[u])
          /\ \A u \in Node : nodeState[u] \in {"waiting", "queued"} => pos'[u] = 0
          /\ \A u \in Node : nodeState[u] = "done" => pos'[u] = Len(nexts[u])
      BY <1>0, <1>1, <1>9, Zenon DEF NodeInv
    <3>2. /\ nexts' = nexts /\ yields' = yields /\ handler' # "returned"
      BY <1>1, <1>2, <2>1, Zenon
    <3> QED  BY <3>1, <3>2, <2>1, <2>2, <1>0, <1>2, <1>7, <1>9, <1>11, Zenon DEF NodeInv
  <2>4. FirstInv'
    <3>1. \A m \in Node : runs'[m] = 1 => Behind(nexts, pos', m) = {}
      BY <2>1, <1>3, <1>4, <1>5, Zenon
    <3>2. nexts' = nexts /\ handler' = "yielded" /\ runs'[Sink] = 0
      BY <2>1, <1>1, <1>2, <1>4, Zenon
    <3> QED  BY <3>1, <3>2, <1>8, Zenon DEF FirstInv, Unseen
  <2>5. LaterInv'
    BY <1>1 DEF LaterInv
  <2> QED  BY <2>2, <2>3, <2>4, <2>5, <1>1, <1>2, <1>10, GraphKept, LaunchedInv, Zenon
<1>15. CASE waitCount'[key] = 0
  <2>1. /\ Execute(key) /\ Behind(nexts, pos', key) = {}
    BY <1>1, <1>2, <1>8, <1>15, BehindFinite, Zenon
  <2>2. runs' \in [Node -> {0, 1}] /\ runs'[key] = 1
    BY <2>1, <1>0, <1>2, <1>5 DEF Execute, NodeInv
  <2>3. /\ nodeState' \in [Node -> {"waiting", "queued", "scheduling", "done"}]
        /\ key = Sink => nodeState'[key] = "waiting" /\ handler' = "runnable"
        /\ key # Sink => nodeState'[key] = "queued" /\ handler' = "yielded"
    BY <2>1, <1>0, <1>2, Zenon DEF Execute, NodeInv
  <2>4. Launched' /\ handler' # "returned"
    BY <2>3, <1>2, Zenon DEF Launched
  <2>5. pos[key] = 0 /\ pos'[key] = 0
    <3>1. nodeState[key] = "waiting"
      BY <1>0, <1>2, <1>5, Zenon DEF NodeInv
    <3> QED  BY <3>1, <1>0, <1>2, <1>9, <1>12, Zenon DEF NodeInv
  <2>6. NodeInv'
    <3>1. /\ \A u \in Node : pos'[u] <= Len(nexts[u])
          /\ \A u \in Node : nodeState'[u] \in {"waiting", "queued"} => pos'[u] = 0
          /\ \A u \in Node : nodeState'[u] = "done" => pos'[u] = Len(nexts[u])
      <4> SUFFICES ASSUME NEW u \in Node
                   PROVE  /\ pos'[u] <= Len(nexts[u])
                          /\ nodeState'[u] \in {"waiting", "queued"} => pos'[u] = 0
                          /\ nodeState'[u] = "done" => pos'[u] = Len(nexts[u])
        BY Zenon
      <4>1. CASE u = key
        BY <4>1, <2>3, <2>5, <1>0, <1>2, Zenon DEF NodeInv
      <4>2. CASE u = n
        BY <4>2, <1>1, <1>9, <1>12, <1>13, Zenon
      <4>3. CASE u # key /\ u # n
        BY <4>3, <1>0, <1>9, <1>13 DEF NodeInv
      <4> QED  BY <4>1, <4>2, <4>3, Zenon
    <3>2. \A u \in Job : runs'[u] = 0 <=> nodeState'[u] = "waiting"
      <4> SUFFICES ASSUME NEW u \in Job  PROVE  runs'[u] = 0 <=> nodeState'[u] = "waiting"
        BY Zenon
      <4>1. CASE u = key
        BY <4>1, <2>2, <2>3, JobFacts
      <4>2. CASE u # key
        BY <4>2, <1>0, <1>13, JobFacts, Zenon DEF NodeInv
      <4> QED  BY <4>1, <4>2, Zenon
    <3>3. nodeState'[Sink] = "waiting"
      BY <2>3, <1>0, <1>13, JobFacts, Zenon DEF NodeInv
    <3>4. /\ runs'[Source] = 0 /\ nodeState'[Source] \in {"scheduling", "done"}
      BY <1>0, <1>2, <1>13, JobFacts, Zenon DEF NodeInv
    <3>5. nexts' = nexts /\ yields' = yields
      BY <1>1, Zenon
    <3>6. yields \in Nat /\ yields > 0
      BY <1>0, <1>2, Zenon DEF NodeInv
    <3> QED  BY <3>1, <3>2, <3>3, <3>4, <3>5, <3>6, <2>2, <2>3, <2>4, <1>7, <1>9, <1>11, Zenon
             DEF NodeInv
  <2>7. FirstInv'
    <3>1. \A m \in Node : runs'[m] = 1 => Behind(nexts, pos', m) = {}
      BY <2>1, <1>3, <1>4, <1>13, Zenon
    <3>2. handler' = "yielded" <=> runs'[Sink] = 0
      BY <2>2, <2>3, <1>2, <1>4, <1>13, JobFacts, Zenon
    <3>3. nexts' = nexts
      BY <1>1, Zenon
    <3> QED  BY <3>1, <3>2, <3>3, <1>8, Zenon DEF FirstInv, Unseen
  <2>8. LaterInv'
    BY <1>1 DEF LaterInv
  <2> QED  BY <2>4, <2>6, <2>7, <2>8, <1>1, <1>2, <1>10, GraphKept, LaunchedInv, Zenon
<1> QED  BY <1>14, <1>15, Zenon
\* Later a decrement takes the count of a root further below zero: it wraps, and
\* nothing is executed.
LEMMA LaterStepInv ==
    ASSUME DInv, NEW n \in Node, ScheduleStep(n), yields > 1
    PROVE  DInv'
<1>0. ShapeInv /\ NodeInv /\ LaterInv /\ NoUseAfterDestroy
  BY Zenon DEF DInv
<1> DEFINE i == pos[n] + 1
           key == nexts[n][i]
<1>1. /\ nodeState[n] = "scheduling" /\ pos[n] < Len(nexts[n])
      /\ waitCount' = [waitCount EXCEPT ![key] = (@ - 1 + Width) % Width]
      /\ IF waitCount'[key] = 0 THEN Execute(key) ELSE UNCHANGED <<runs, handler, nodeState>>
      /\ pos' = [pos EXCEPT ![n] = i]
      /\ fault' = (fault \/ ~alive)
      /\ UNCHANGED <<nexts, yields, alive, check>>
  BY Zenon DEF ScheduleStep
<1>2. /\ Launched /\ handler = "yielded" /\ alive /\ n # Sink
      /\ pos[n] \in Nat /\ i \in 1..Len(nexts[n]) /\ Len(nexts[n]) \in Nat
      /\ key \in Node
  BY <1>1, ScheduleFacts, Zenon
<1>3. i \in Nat /\ pos[n] = i - 1
  BY <1>2
<1>4. key = nexts[n][i]
  BY Zenon
<1> HIDE DEF i, key
<1>5. n = Source
  <2>1. \A u \in Job : pos[u] = Len(nexts[u])
    BY <1>0, <1>2, Zenon DEF LaterInv
  <2>2. n \notin Job
    BY <2>1, <1>1, <1>2
  <2> QED  BY <2>2, <1>2, JobFacts, Zenon
<1>6. yields \in Nat /\ Width \in Nat /\ yields <= Width
  <2>1. yields <= MaxYields /\ yields \in Nat
    BY <1>0, <1>2, Zenon DEF LaterInv, NodeInv
  <2>2. MaxYields <= Width /\ MaxYields \in Nat /\ Width \in Nat
    BY DAGAssumption, Zenon
  <2> QED  BY <2>1, <2>2
<1>7. waitCount[key] = IF yields - 2 = 0 THEN 0 ELSE Width - (yields - 2)
  <2>1. Times(i) = yields - 2
    BY <1>3, <1>5, <1>6 DEF Times
  <2> QED  BY <2>1, <1>0, <1>2, <1>4, <1>5, Zenon DEF LaterInv
<1>8. /\ waitCount'[key] = Width - (yields - 1) /\ waitCount' \in [Node -> 0..Width]
      /\ \A m \in Node \ {key} : waitCount'[m] = waitCount[m]
  <2>1. (waitCount[key] - 1 + Width) % Width = Width - (yields - 1)
    <3>1. CASE yields = 2
      <4>1. waitCount[key] = 0
        BY <3>1, <1>7
      <4>2. (waitCount[key] - 1 + Width) % Width = Width - 1
        BY <4>1, Decrement, Zenon
      <4> QED  BY <4>2, <3>1, <1>6
    <3>2. CASE yields # 2
      <4>1. waitCount[key] = Width - (yields - 2) /\ waitCount[key] \in 1..Width
        BY <3>2, <1>6, <1>7
      <4>2. (waitCount[key] - 1 + Width) % Width = waitCount[key] - 1
        BY <4>1, Decrement, Zenon
      <4> QED  BY <4>1, <4>2, <1>6
    <3> QED  BY <3>1, <3>2, Zenon
  <2>2. waitCount' = [waitCount EXCEPT ![key] = Width - (yields - 1)]
    BY <2>1, <1>1, Zenon
  <2>3. Width - (yields - 1) \in 0..Width
    BY <1>6
  <2>4. waitCount \in [Node -> 0..Width]
    BY <1>0, Zenon DEF NodeInv
  <2> QED  BY <2>2, <2>3, <2>4, <1>2, Zenon
<1>9. UNCHANGED <<runs, handler, nodeState>>
  <2>1. waitCount'[key] # 0
    BY <1>6, <1>8
  <2> QED  BY <2>1, <1>1, Zenon
<1>10. /\ pos' \in [Node -> Nat] /\ pos'[n] = i /\ i <= Len(nexts[n])
       /\ \A u \in Node \ {n} : pos'[u] = pos[u]
  BY <1>0, <1>1, <1>2, <1>3 DEF NodeInv
<1>11. Launched'
  BY <1>2, <1>9, Zenon DEF Launched
<1>12. NodeInv'
  <2>1. /\ \A u \in Node : pos'[u] <= Len(nexts[u])
        /\ \A u \in Node : nodeState[u] \in {"waiting", "queued"} => pos'[u] = 0
        /\ \A u \in Node : nodeState[u] = "done" => pos'[u] = Len(nexts[u])
    BY <1>0, <1>1, <1>10, Zenon DEF NodeInv
  <2>2. UNCHANGED <<nexts, yields, handler, runs, nodeState, alive>>
    BY <1>1, <1>9, Zenon
  <2>3. alive' \in BOOLEAN /\ (~alive' => handler' \in {"running", "returned", "lost"})
    BY <2>2, <1>0, Zenon DEF NodeInv
  <2> QED  BY <2>1, <2>2, <2>3, <1>0, <1>2, <1>8, <1>10, <1>11, Zenon DEF NodeInv
<1>13. FirstInv'
  <2>1. yields # 1
    BY <1>0 DEF NodeInv
  <2> QED  BY <1>1, <2>1, Zenon DEF FirstInv
<1>14. LaterInv'
  <2>1. UNCHANGED <<nexts, yields, handler, runs, nodeState>>
    BY <1>1, <1>9, Zenon
  <2>2. /\ yields <= MaxYields /\ runs[Sink] = 1
        /\ \A u \in Job : runs[u] = 1 /\ nodeState[u] \in {"scheduling", "done"}
                                     /\ pos[u] = Len(nexts[u])
    BY <1>0, <1>2, Zenon DEF LaterInv
  <2>3. \A u \in Job : pos'[u] = pos[u]
    BY <1>5, <1>10, JobFacts, Zenon
  <2>4. ASSUME NEW j \in 1..Len(nexts[Source])
        PROVE  waitCount'[nexts[Source][j]] = IF Times(j)' = 0 THEN 0 ELSE Width - Times(j)'
    <3>1. waitCount[nexts[Source][j]] = IF Times(j) = 0 THEN 0 ELSE Width - Times(j)
      BY <1>0, <1>2, Zenon DEF LaterInv
    <3>2. CASE j = i
      <4>1. Times(j)' = yields - 1
        BY <3>2, <2>1, <1>3, <1>5, <1>6, <1>10 DEF Times
      <4> QED  BY <4>1, <3>2, <1>4, <1>5, <1>6, <1>8
    <3>3. CASE j # i
      <4>1. pos'[Source] >= j <=> pos[Source] >= j
        BY <3>3, <1>3, <1>5, <1>10
      <4>2. Times(j)' = Times(j)
        BY <4>1, <2>1, Zenon DEF Times
      <4>3. nexts[Source][j] # key /\ nexts[Source][j] \in Node
        BY <3>3, <1>0, <1>2, <1>4, <1>5, NextFacts, Zenon DEF ShapeInv
      <4> QED  BY <4>2, <4>3, <3>1, <1>8, Zenon
    <3> QED  BY <3>2, <3>3, Zenon
  <2> QED  BY <2>1, <2>2, <2>3, <2>4, <1>2, Zenon DEF LaterInv
<1>15. NoUseAfterDestroy'
  BY <1>0, <1>1, <1>2, Zenon DEF NoUseAfterDestroy
<1> QED  BY <1>1, <1>2, <1>11, <1>12, <1>13, <1>14, <1>15, GraphKept, LaunchedInv, Zenon

LEMMA ScheduleEndInv ==
    ASSUME DInv, NEW n \in Node, ScheduleEnd(n)
    PROVE  DInv'
<1>0. ShapeInv /\ NodeInv /\ FirstInv /\ LaterInv /\ NoUseAfterDestroy
  BY Zenon DEF DInv
<1>1. /\ nodeState[n] = "scheduling" /\ pos[n] = Len(nexts[n])
      /\ nodeState' = [nodeState EXCEPT ![n] = "done"]
      /\ UNCHANGED <<nexts, waitCount, handler, pos, runs, yields, alive, fault, check>>
  BY Zenon DEF ScheduleEnd
<1>2. Launched /\ Launched'
  BY <1>0, <1>1, Zenon DEF NodeInv, Launched
<1>3. /\ nodeState' \in [Node -> {"waiting", "queued", "scheduling", "done"}]
      /\ nodeState'[n] = "done" /\ \A u \in Node \ {n} : nodeState'[u] = nodeState[u]
  BY <1>0, <1>1, Zenon DEF NodeInv
<1>4. /\ \A u \in Node : nodeState'[u] \in {"waiting", "queued"} => pos[u] = 0
      /\ \A u \in Node : nodeState'[u] = "done" => pos[u] = Len(nexts[u])
      /\ \A u \in Node : nodeState'[u] = "waiting" <=> nodeState[u] = "waiting"
      /\ \A u \in Node : nodeState[u] \in {"scheduling", "done"} =>
                            nodeState'[u] \in {"scheduling", "done"}
      /\ nodeState[Source] = "done" => nodeState'[Source] = "done"
  BY <1>0, <1>1, <1>3, JobFacts DEF NodeInv
<1>5. alive' \in BOOLEAN /\ (~alive' => handler' \in {"running", "returned", "lost"})
  BY <1>0, <1>1, Zenon DEF NodeInv
<1>6. NodeInv'
  <2>1. /\ waitCount \in [Node -> 0..Width] /\ pos \in [Node -> Nat]
        /\ runs \in [Node -> {0, 1}] /\ yields \in Nat /\ runs[Source] = 0
        /\ nodeState[Sink] = "waiting" /\ \A u \in Node : pos[u] <= Len(nexts[u])
        /\ \A u \in Job : runs[u] = 0 <=> nodeState[u] = "waiting"
        /\ nodeState[Source] \in {"scheduling", "done"} /\ yields > 0
    BY <1>0, <1>2, Zenon DEF NodeInv
  <2>2. /\ waitCount' = waitCount /\ pos' = pos /\ runs' = runs /\ yields' = yields
        /\ nexts' = nexts
    BY <1>1, Zenon
  <2>3. Sink \in Node /\ Source \in Node /\ Job \subseteq Node
    BY JobFacts, Zenon
  <2>4. nodeState'[Sink] = "waiting" /\ nodeState'[Source] \in {"scheduling", "done"}
    BY <1>4, <2>1, <2>3, Zenon
  <2>5. \A u \in Job : runs'[u] = 0 <=> nodeState'[u] = "waiting"
    BY <1>4, <2>1, <2>2, <2>3, Zenon
  <2>6. \A u \in Node : pos'[u] <= Len(nexts'[u])
    BY <2>1, <2>2, Zenon
  <2>7. /\ \A u \in Node : nodeState'[u] \in {"waiting", "queued"} => pos'[u] = 0
        /\ \A u \in Node : nodeState'[u] = "done" => pos'[u] = Len(nexts'[u])
    BY <1>4, <2>2, Zenon
  <2> QED BY <1>2, <1>3, <1>5, <2>1, <2>2, <2>4, <2>5, <2>6, <2>7, Zenon DEF NodeInv
<1>7. FirstInv'
  BY <1>0, <1>1, <1>2, Zenon DEF FirstInv, Unseen
<1>8. LaterInv'
  <2>1. \A j : Times(j)' = Times(j)
    BY <1>1, Zenon DEF Times
  <2> QED  BY <2>1, <1>0, <1>1, <1>2, <1>4, JobFacts, Zenon DEF LaterInv
<1>9. NoUseAfterDestroy'
  BY <1>0, <1>1, Zenon DEF NoUseAfterDestroy
<1> QED  BY <1>1, <1>2, <1>6, <1>7, <1>8, <1>9, GraphKept, LaunchedInv, Zenon
LEMMA RunJobInv ==
    ASSUME DInv, NEW n \in Node, RunJob(n)
    PROVE  DInv'
<1>0. ShapeInv /\ NodeInv /\ FirstInv /\ LaterInv /\ NoUseAfterDestroy
  BY Zenon DEF DInv
<1>1. /\ nodeState[n] = "queued"
      /\ nodeState' = [nodeState EXCEPT ![n] = "scheduling"]
      /\ pos' = [pos EXCEPT ![n] = 0] /\ fault' = (fault \/ ~alive)
      /\ UNCHANGED <<nexts, waitCount, handler, runs, yields, alive, check>>
  BY Zenon DEF RunJob
<1>2. Launched /\ Launched'
  BY <1>0, <1>1, Zenon DEF NodeInv, Launched
<1>3. n \in Job
  BY <1>0, <1>1, <1>2, JobFacts, Zenon DEF NodeInv
<1>4. handler = "yielded" /\ yields = 1 /\ alive
  <2>1. handler = "yielded"
    BY <1>1, <1>2, <1>3, Finished, Zenon
  <2>2. ~(yields > 1)
    BY <1>0, <1>1, <1>2, <1>3, Zenon DEF LaterInv
  <2>3. yields \in Nat /\ yields > 0 /\ alive
    BY <2>1, <1>0, <1>2, Zenon DEF NodeInv
  <2> QED  BY <2>1, <2>2, <2>3
<1>5. pos' = pos
  <2>1. pos \in [Node -> Nat] /\ pos[n] = 0
    BY <1>0, <1>1, Zenon DEF NodeInv
  <2> QED  BY <2>1, <1>1, Zenon
<1>6. /\ nodeState' \in [Node -> {"waiting", "queued", "scheduling", "done"}]
      /\ nodeState'[n] = "scheduling" /\ \A u \in Node \ {n} : nodeState'[u] = nodeState[u]
  BY <1>0, <1>1, Zenon DEF NodeInv
<1>7. NodeInv'
  <2>1. /\ waitCount \in [Node -> 0..Width] /\ pos \in [Node -> Nat]
        /\ runs \in [Node -> {0, 1}] /\ yields \in Nat /\ runs[Source] = 0
        /\ nodeState[Sink] = "waiting" /\ \A u \in Node : pos[u] <= Len(nexts[u])
        /\ \A u \in Job : runs[u] = 0 <=> nodeState[u] = "waiting"
        /\ nodeState[Source] \in {"scheduling", "done"} /\ yields > 0
    BY <1>0, <1>2, Zenon DEF NodeInv
  <2>2. /\ \A u \in Node : nodeState'[u] \in {"waiting", "queued"} => pos[u] = 0
        /\ \A u \in Node : nodeState'[u] = "done" => pos[u] = Len(nexts[u])
        /\ \A u \in Node : nodeState'[u] = "waiting" <=> nodeState[u] = "waiting"
    BY <1>0, <1>1, <1>6, Zenon DEF NodeInv
  <2>3. alive' \in BOOLEAN /\ (~alive' => handler' \in {"running", "returned", "lost"})
    BY <1>0, <1>1, Zenon DEF NodeInv
  <2>4. nodeState'[Source] = nodeState[Source]
    BY <1>3, <1>6, JobFacts, Zenon
  <2>5. nodeState'[Sink] = "waiting" /\ \A u \in Job : runs[u] = 0 <=> nodeState'[u] = "waiting"
    BY <2>1, <2>2, JobFacts, Zenon
  <2>6. UNCHANGED <<waitCount, pos, runs, yields, nexts>>
    BY <1>1, <1>5, Zenon
  <2> QED  BY <2>1, <2>2, <2>3, <2>4, <2>5, <2>6, <1>2, <1>6, Zenon DEF NodeInv
<1>8. FirstInv'
  BY <1>0, <1>1, <1>2, <1>5, Zenon DEF FirstInv, Unseen
<1>9. LaterInv'
  BY <1>1, <1>4 DEF LaterInv
<1>10. NoUseAfterDestroy'
  BY <1>0, <1>1, <1>4, Zenon DEF NoUseAfterDestroy
<1> QED  BY <1>1, <1>2, <1>7, <1>8, <1>9, <1>10, GraphKept, LaunchedInv, Zenon

\* The handler goes on: nothing that the nodes' threads read changes.
LEMMA HandlerInv ==
    ASSUME DInv, \/ Resume \/ WokenAgain
                 \/ DestroyGraph \/ YieldDestroyed \/ ReturnFromHandler
    PROVE  DInv'
<1>0. ShapeInv /\ NodeInv /\ FirstInv /\ LaterInv /\ NoUseAfterDestroy
  BY Zenon DEF DInv
<1>1. /\ UNCHANGED <<nexts, waitCount, nodeState, pos, runs, yields, check>>
      /\ handler \in {"yielded", "runnable", "running"}
      /\ handler' \in {"runnable", "running", "returned", "lost"}
      /\ handler = "yielded" => yields > 1 /\ nodeState[Source] = "done"
      /\ fault' = fault \/ handler' = "lost"
  BY Zenon DEF Resume, WokenAgain, DestroyGraph, YieldDestroyed, ReturnFromHandler
<1>2. Launched /\ Launched'
  BY <1>1, Zenon DEF Launched
<1>3. alive' \in BOOLEAN /\ (~alive' => handler' \in {"running", "returned", "lost"})
  <2>1. CASE DestroyGraph \/ ReturnFromHandler
    BY <2>1, Zenon DEF DestroyGraph, ReturnFromHandler
  <2>2. CASE Resume \/ WokenAgain \/ YieldDestroyed
    <3>1. alive' = alive /\ (handler \in {"yielded", "runnable"} \/ handler' = "lost")
      BY <2>2, Zenon DEF Resume, WokenAgain, YieldDestroyed
    <3> QED  BY <3>1, <1>0, Zenon DEF NodeInv
  <2> QED  BY <2>1, <2>2, Zenon
<1>4. NodeInv'
  BY <1>0, <1>1, <1>2, <1>3, Zenon DEF NodeInv
<1>5. FirstInv'
  <2>1. yields = 1 => runs[Sink] # 0
    BY <1>0, <1>1, <1>2 DEF FirstInv
  <2>2. yields = 1 => /\ \A m \in Node : waitCount[m] = Cardinality(Unseen(m))
                      /\ \A m \in Node : runs[m] = 1 => Unseen(m) = {}
    BY <1>0, <1>2, Zenon DEF FirstInv
  <2>3. \A m : Unseen(m)' = Unseen(m)
    BY <1>1, Zenon DEF Unseen
  <2>4. handler' # "yielded" /\ UNCHANGED <<yields, runs, waitCount>>
    BY <1>1, Zenon
  <2> QED  BY <2>1, <2>2, <2>3, <2>4, Zenon DEF FirstInv
<1>6. LaterInv'
  <2>1. \A j : Times(j)' = Times(j)
    BY <1>1, Zenon DEF Times
  <2>2. yields > 1 => nodeState[Source] = "done"
    BY <1>0, <1>1, <1>2, Zenon DEF LaterInv
  <2> QED  BY <2>1, <2>2, <1>0, <1>1, <1>2, Zenon DEF LaterInv
<1>7. NoUseAfterDestroy'
  BY <1>0, <1>1, Zenon DEF NoUseAfterDestroy
<1> QED  BY <1>1, <1>2, <1>4, <1>5, <1>6, <1>7, GraphKept, LaunchedInv, Zenon
LEMMA YieldAgainInv ==
    ASSUME DInv, YieldAgain
    PROVE  DInv'
<1>0. ShapeInv /\ NodeInv /\ FirstInv /\ LaterInv /\ NoUseAfterDestroy
  BY Zenon DEF DInv
<1>1. /\ handler = "running" /\ alive /\ nodeState[Source] = "done" /\ yields < MaxYields
      /\ handler' = "yielded" /\ yields' = yields + 1
      /\ nodeState' = [nodeState EXCEPT ![Source] = "scheduling"]
      /\ pos' = [pos EXCEPT ![Source] = 0]
      /\ UNCHANGED <<nexts, waitCount, runs, alive, fault, check>>
  BY Zenon DEF YieldAgain
<1>2. Launched /\ Launched'
  BY <1>1, Zenon DEF Launched
<1>3. /\ \A n \in Node : pos[n] = Len(nexts[n])
      /\ \A n \in Job : runs[n] = 1 /\ nodeState[n] \in {"scheduling", "done"}
      /\ runs[Sink] = 1
  BY <1>1, <1>2, Finished, Zenon
<1>4. yields \in Nat /\ yields > 0 /\ MaxYields \in Nat
  BY <1>0, <1>2, DAGAssumption, Zenon DEF NodeInv
<1>5. /\ pos' \in [Node -> Nat] /\ pos'[Source] = 0
      /\ \A u \in Node \ {Source} : pos'[u] = pos[u]
      /\ nodeState' \in [Node -> {"waiting", "queued", "scheduling", "done"}]
      /\ nodeState'[Source] = "scheduling"
      /\ \A u \in Node \ {Source} : nodeState'[u] = nodeState[u]
  BY <1>0, <1>1, JobFacts, Zenon DEF NodeInv
<1>6. NodeInv'
  <2>1. /\ waitCount \in [Node -> 0..Width] /\ runs \in [Node -> {0, 1}] /\ runs[Source] = 0
        /\ nodeState[Sink] = "waiting" /\ \A u \in Node : pos[u] <= Len(nexts[u])
        /\ \A u \in Job : runs[u] = 0 <=> nodeState[u] = "waiting"
        /\ \A u \in Node : nodeState[u] \in {"waiting", "queued"} => pos[u] = 0
        /\ \A u \in Node : nodeState[u] = "done" => pos[u] = Len(nexts[u])
    BY <1>0, Zenon DEF NodeInv
  <2>2. /\ \A u \in Node : nodeState'[u] \in {"waiting", "queued"} => pos'[u] = 0
        /\ \A u \in Node : nodeState'[u] = "done" => pos'[u] = Len(nexts[u])
        /\ \A u \in Job : runs[u] = 0 <=> nodeState'[u] = "waiting"
        /\ nodeState'[Sink] = "waiting"
    <3>1. \A u \in Node \ {Source} :
             /\ nodeState'[u] \in {"waiting", "queued"} => pos'[u] = 0
             /\ nodeState'[u] = "done" => pos'[u] = Len(nexts[u])
      BY <2>1, <1>5, Zenon
    <3>2. \A u \in Job : u \in Node \ {Source}
      BY JobFacts, Zenon
    <3>3. Sink \in Node \ {Source}
      BY JobFacts, Zenon
    <3> QED  BY <3>1, <3>2, <3>3, <2>1, <1>5, Zenon
  <2>3. \A u \in Node : pos'[u] <= Len(nexts[u])
    <3>1. Len(nexts[Source]) \in Nat /\ Source \in Node
      BY <1>0, NodeFacts, JobFacts, Zenon
    <3>2. \A u \in Node \ {Source} : pos'[u] <= Len(nexts[u])
      BY <2>1, <1>5, Zenon
    <3>3. pos'[Source] <= Len(nexts[Source])
      BY <3>1, <1>5
    <3> QED  BY <3>2, <3>3, Zenon
  <2>4. alive' \in BOOLEAN /\ (~alive' => handler' \in {"running", "returned", "lost"})
    BY <1>0, <1>1, Zenon DEF NodeInv
  <2>5. yields' \in Nat /\ yields' > 0 /\ nexts' = nexts /\ waitCount' = waitCount /\ runs' = runs
    BY <1>1, <1>4
  <2> QED  BY <2>1, <2>2, <2>3, <2>4, <2>5, <1>2, <1>5, Zenon DEF NodeInv
<1>7. FirstInv'
  BY <1>1, <1>4 DEF FirstInv
<1>8. LaterInv'
  <2>1. ASSUME NEW j \in 1..Len(nexts[Source])
        PROVE  waitCount'[nexts[Source][j]] = IF Times(j)' = 0 THEN 0 ELSE Width - Times(j)'
    <3>0. Len(nexts[Source]) \in Nat /\ pos[Source] = Len(nexts[Source])
      BY <1>0, <1>3, NodeFacts, JobFacts, Zenon
    <3>1. Times(j)' = yields - 1
      <4>1. ~(pos'[Source] >= j)
        BY <1>5, <3>0
      <4> QED  BY <4>1, <1>1, <1>4 DEF Times
    <3>2. CASE yields = 1
      <4> DEFINE m == nexts[Source][j]
      <4>1. m \in Node
        BY <1>0, <1>2, NextFacts, JobFacts, Zenon
      <4>2. Unseen(m) = {}
        <5> SUFFICES ASSUME NEW e \in Unseen(m)  PROVE  FALSE
          BY Zenon
        <5>1. e[1] \in Node /\ e[2] \in 1..Len(nexts[e[1]]) /\ e[2] > pos[e[1]]
          BY Zenon DEF Unseen, Behind
        <5>2. Len(nexts[e[1]]) \in Nat
          BY <5>1, <1>0, NodeFacts, Zenon
        <5> QED  BY <5>1, <5>2, <1>3
      <4>3. waitCount[m] = 0
        BY <4>1, <4>2, <3>2, <1>0, <1>2, FS_EmptySet, Zenon DEF FirstInv
      <4> QED  BY <4>3, <3>1, <3>2, <1>1
    <3>3. CASE yields # 1
      <4>1. yields > 1
        BY <3>3, <1>4
      <4>2. Times(j) = yields - 1
        BY <3>0, <1>4 DEF Times
      <4>3. waitCount[nexts[Source][j]] = IF Times(j) = 0 THEN 0 ELSE Width - Times(j)
        BY <4>1, <1>0, <1>2, Zenon DEF LaterInv
      <4> QED  BY <4>2, <4>3, <3>1, <1>1, Zenon
    <3> QED  BY <3>2, <3>3, Zenon
  <2>2. yields' <= MaxYields
    BY <1>1, <1>4
  <2>3. \A n \in Job : runs[n] = 1 /\ nodeState'[n] \in {"scheduling", "done"}
                                   /\ pos'[n] = Len(nexts[n])
    BY <1>3, <1>5, JobFacts, Zenon
  <2>4. nexts' = nexts /\ runs' = runs /\ handler' = "yielded"
    BY <1>1, Zenon
  <2> QED  BY <2>1, <2>2, <2>3, <2>4, <1>3, Zenon DEF LaterInv
<1>9. NoUseAfterDestroy'
  BY <1>0, <1>1, Zenon DEF NoUseAfterDestroy
<1> QED  BY <1>1, <1>2, <1>6, <1>7, <1>8, <1>9, GraphKept, LaunchedInv, Zenon

LEMMA NextInv == DInv /\ [DAGNext]_dagVars => DInv'
<1> SUFFICES ASSUME DInv, [DAGNext]_dagVars  PROVE  DInv'
  BY Zenon
<1>1. CASE RunGraph \/ CheckStep
  BY <1>1, CheckInv, Zenon
<1>2. CASE Go
  BY <1>2, GoInv, Zenon
<1>3. CASE YieldAgain
  BY <1>3, YieldAgainInv, Zenon
<1>4. CASE \/ Resume \/ WokenAgain
           \/ DestroyGraph \/ YieldDestroyed \/ ReturnFromHandler
  BY <1>4, HandlerInv, Zenon
<1>5. ASSUME NEW n \in Node, ScheduleStep(n)  PROVE  DInv'
  <2>1. nodeState[n] = "scheduling"
    BY <1>5, Zenon DEF ScheduleStep
  <2>2. yields \in Nat /\ yields > 0
    BY <2>1, Zenon DEF DInv, NodeInv
  <2>3. yields = 1 \/ yields > 1
    BY <2>2
  <2> QED  BY <2>3, <1>5, FirstStepInv, LaterStepInv, Zenon
<1>6. ASSUME NEW n \in Node, ScheduleEnd(n)  PROVE  DInv'
  BY <1>6, ScheduleEndInv, Zenon
<1>7. ASSUME NEW n \in Node, RunJob(n)  PROVE  DInv'
  BY <1>7, RunJobInv, Zenon
<1>8. CASE UNCHANGED dagVars
  <2>1. UNCHANGED <<nexts, waitCount, handler, nodeState, pos, runs, yields, alive, fault,
                    copy, targets, keys, current, result>>
    BY <1>8, Zenon DEF dagVars, graph, check
  <2>2. ShapeInv'
    BY <2>1, Zenon DEF DInv, ShapeInv, Launched
  <2>3. NodeInv'
    BY <2>1, Zenon DEF DInv, NodeInv, Launched
  <2>4. FirstInv'
    BY <2>1, Zenon DEF DInv, FirstInv, Launched, Unseen
  <2>5. LaterInv'
    BY <2>1, Zenon DEF DInv, LaterInv, Launched, Times
  <2>6. Correct'
    <3>1. \A n, m \in Job : H!Edge(n, m)' <=> H!Edge(n, m)
      BY <2>1, Zenon DEF H!Edge
    <3> QED  BY <3>1, <2>1, CorrectKept, Zenon DEF DInv
  <2>7. handler' \in {"setup", "checking"} => CycleInv'
    BY <2>1, SameCycleInv, Zenon DEF DInv
  <2> QED  BY <2>1, <2>2, <2>3, <2>4, <2>5, <2>6, <2>7, Zenon DEF DInv, NoUseAfterDestroy
<1> QED  BY <1>1, <1>2, <1>3, <1>4, <1>5, <1>6, <1>7, <1>8, Zenon DEF DAGNext, HandlerStep, PoolStep

\* The invariant holds from setup() to the handler's return.
THEOREM Invariance == DAGSpec => []DInv
BY InitInv, NextInv, PTL DEF DAGSpec

-----------------------------------------------------------------------------
\* hasCycle returns true iff there is a cycle, for any number of jobs, any
\* successors, any repetition of them.
THEOREM HasCycleCorrect == DAGSpec => []Correct
<1>1. DInv => Correct
  BY Zenon DEF DInv
<1> QED  BY <1>1, Invariance, PTL

\* A job is executed only after all jobs before it have run, and the handler goes
\* on only after all of its jobs, whatever the order of the decrements.
THEOREM JobsInOrder == DAGSpec => []PrerequisitesRan
<1>1. DInv => PrerequisitesRan
  <2> SUFFICES ASSUME DInv, NEW n \in Job, NEW m \in Node, runs[m] > 0, m \in Successors(n)
               PROVE  nodeState[n] \in {"scheduling", "done"}
    BY Zenon DEF PrerequisitesRan
  <2>0. ShapeInv /\ NodeInv /\ FirstInv /\ LaterInv /\ n \in Node
    BY JobFacts, Zenon DEF DInv
  <2>1. Launched /\ runs[m] = 1 /\ yields \in Nat /\ yields > 0
    BY <2>0 DEF NodeInv
  <2>2. CASE yields = 1
    <3>1. Unseen(m) = {}
      BY <2>0, <2>1, <2>2, Zenon DEF FirstInv
    <3>2. PICK i \in 1..Len(nexts[n]) : nexts[n][i] = m
      BY <2>0, NodeFacts, Zenon DEF Successors
    <3>3. pos[n] \in Nat /\ Len(nexts[n]) \in Nat /\ Len(nexts[n]) <= Jobs + MaxNexts
      BY <2>0, NodeFacts, Zenon DEF NodeInv
    <3>4. i \in 1..(Jobs + MaxNexts)
      BY <3>3, JobFacts
    <3>5. ~(i > pos[n])
      <4>1. i > pos[n] => <<n, i>> \in Unseen(m)
        BY <3>2, <3>4, <2>0, Zenon DEF Unseen, Behind
      <4> QED  BY <4>1, <3>1, Zenon
    <3>6. pos[n] > 0
      BY <3>3, <3>5
    <3> QED  BY <3>6, <2>0 DEF NodeInv
  <2>3. CASE yields # 1
    BY <2>0, <2>1, <2>3 DEF LaterInv
  <2> QED  BY <2>2, <2>3, Zenon
<1> QED  BY <1>1, Invariance, PTL

\* No job is executed twice: the counts that later yields decrement again wrap
\* around, and no handler yields often enough to bring one back to zero.
THEOREM JobsOnce == DAGSpec => []OnceEach
<1>1. DInv => OnceEach
  BY DEF DInv, NodeInv, OnceEach
<1> QED  BY <1>1, Invariance, PTL

\* Whenever the handler destroys the graph, no thread of it reads a node afterwards:
\* all of them have seen their last edge when the sink is executed.  Only a further
\* yield of the handler, by its kept callback, does.
THEOREM NodesOutliveUse == DAGSpec => []NoUseAfterDestroy
<1>1. DInv => NoUseAfterDestroy
  BY Zenon DEF DInv
<1> QED  BY <1>1, Invariance, PTL
=============================================================================
