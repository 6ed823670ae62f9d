--------------------------- MODULE GraphFamilies ----------------------------
(***************************************************************************)
(* Graphs for the model-checking modules, given as sets of arcs            *)
(* <<source, target, weight>>: an arc's index is its rank in canonical     *)
(* order, so the graph is the one GraphBuilder makes of these arcs.        *)
(***************************************************************************)
EXTENDS Graph, Sequences

ArcBefore(a, b) ==
    \/ a[1] < b[1]
    \/ a[1] = b[1] /\ a[2] < b[2]
    \/ a[1] = b[1] /\ a[2] = b[2] /\ a[3] < b[3]

GraphOf(coordinate, arcs) ==
    LET n == Cardinality(DOMAIN coordinate)
        m == Cardinality(arcs)
        rank == [a \in arcs |-> Cardinality({b \in arcs : ArcBefore(b, a)})]
        nth == [k \in 0 .. m - 1 |-> CHOOSE a \in arcs : rank[a] = k]
    IN  NewGraph(n, coordinate, [v \in 0 .. n - 1 |-> v],
                 [u \in 0 .. n |-> Cardinality({a \in arcs : a[1] < u})],
                 m,
                 [k \in 0 .. m - 1 |->
                    [target |-> nth[k][2], weight |-> nth[k][3]]])

\* Every graph on these coordinates with at most m of these arcs.
GraphsUpTo(coordinate, arcs, m) ==
    LET choices[k \in 0 .. m] ==
            IF k = 0 THEN {{}}
            ELSE LET fewer == choices[k - 1]
                 IN  fewer \cup {S \cup {a} : S \in fewer, a \in arcs}
    IN  {GraphOf(coordinate, S) : S \in choices[m]}

-----------------------------------------------------------------------------
(***************************************************************************)
(* The walks of a graph that leave s, by length: one arc more than a route *)
(* without a cycle has, so that going around a cycle is among the rivals.  *)
(***************************************************************************)
Extensions(g, walk) ==
    LET end == walk[Len(walk)] IN
    {Append(walk, [node |-> g.arc[k].target,
                   cost |-> Plus(end.cost, g.arc[k].weight)]) :
        k \in ArcsFrom(g, end.node)}

WalksFrom(g, s) ==
    LET upTo[i \in 0 .. g.node_count] ==
            IF i = 0 THEN {<<[node |-> s, cost |-> 0]>>}
            ELSE LET shorter == upTo[i - 1]
                 IN  shorter \cup
                        UNION {Extensions(g, walk) : walk \in shorter}
    IN  upTo[g.node_count]

WalksBetween(g, s, t) ==
    {walk \in WalksFrom(g, s) : walk[Len(walk)].node = t}
=============================================================================
