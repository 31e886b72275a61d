------------------------------ MODULE HasCycle ------------------------------
(***************************************************************************)
(* DAG::hasCycle of raster/parallel/DAG.h, the check of go() before it     *)
(* runs a graph: repeatedly remove the edges of a node that no edge leads  *)
(* to; a cycle is what cannot be removed.  One iteration of its inner loop *)
(* is a step.  DAG composes these steps with the rest of go().             *)
(***************************************************************************)
EXTENDS Integers, Sequences, FiniteSets

CONSTANTS
    Nodes,      \* the number of nodes
    MaxNexts    \* bound: the edges that leave one node

Node == 1..Nodes

VARIABLES
    graph,      \* the argument: nexts of every node
    nexts,      \* the local copy, emptied from the back
    targets,    \* how many edges of the copy lead to a node
    keys,       \* the stack of nodes that no edge leads to
    current,    \* the node of the inner loop, or 0
    result      \* "none" until the function returns

\* The graph has an edge from n to m.
Edge(n, m) == \E i \in DOMAIN graph[n] : graph[n][i] = m

\* The number of edges to n in g.
InEdges(g, n) ==
    Cardinality({e \in Node \X (1..MaxNexts) :
                    e[2] \in DOMAIN g[e[1]] /\ g[e[1]][e[2]] = n})

\* The nodes without hasPrev, in ascending order: the last is the top.
FirstKeys(g) ==
    LET S == {n \in Node : InEdges(g, n) = 0} IN
    CHOOSE s \in [1..Cardinality(S) -> S] : \A i, j \in DOMAIN s : i < j => s[i] < s[j]

\* The locals after the first three loops.
Init ==
    /\ graph \in [Node -> UNION {[1..k -> Node] : k \in 0..MaxNexts}]
    /\ nexts = graph
    /\ targets = [n \in Node |-> InEdges(graph, n)]
    /\ keys = FirstKeys(graph)
    /\ current = 0
    /\ result = "none"

\* The outer loop takes the next key.
TakeKey ==
    /\ result = "none" /\ current = 0 /\ keys # <<>>
    /\ current' = keys[Len(keys)]
    /\ keys' = SubSeq(keys, 1, Len(keys) - 1)
    /\ UNCHANGED <<graph, nexts, targets, result>>

\* The inner loop removes the last edge of the current node.
RemoveEdge ==
    /\ result = "none" /\ current # 0 /\ nexts[current] # <<>>
    /\ LET l == Len(nexts[current])
           next == nexts[current][l]
       IN  /\ nexts' = [nexts EXCEPT ![current] = SubSeq(@, 1, l - 1)]
           /\ targets' = [targets EXCEPT ![next] = @ - 1]
           /\ keys' = IF targets[next] = 1 THEN Append(keys, next) ELSE keys
    /\ UNCHANGED <<graph, current, result>>

\* The inner loop ends.
NextKey ==
    /\ result = "none" /\ current # 0 /\ nexts[current] = <<>>
    /\ current' = 0
    /\ UNCHANGED <<graph, nexts, targets, keys, result>>

\* Fault: only a graph without roots counts as cyclic.
ReturnByRoots ==
    /\ result = "none" /\ current = 0 /\ keys = <<>>
    /\ result' = IF \A n \in Node : InEdges(graph, n) # 0 THEN "cycle" ELSE "acyclic"
    /\ UNCHANGED <<graph, nexts, targets, keys, current>>

\* No key is left: edges that remain are on a cycle, or behind one.
Return ==
    /\ result = "none" /\ current = 0 /\ keys = <<>>
    /\ result' = IF \E n \in Node : nexts[n] # <<>> THEN "cycle" ELSE "acyclic"
    /\ UNCHANGED <<graph, nexts, targets, keys, current>>

Next == TakeKey \/ RemoveEdge \/ NextKey \/ Return

-----------------------------------------------------------------------------
\* hasCycle agrees with the definition: there is a cycle iff one can always go on
\* within some set of nodes.  Self-loops, repeated edges and nodes that are only
\* behind a cycle are included.
Correct ==
    result # "none" =>
        (result = "cycle" <=>
            \E S \in SUBSET Node : S # {} /\ \A n \in S : \E m \in S : Edge(n, m))
=============================================================================
