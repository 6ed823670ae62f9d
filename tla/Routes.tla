------------------------------- MODULE Routes -------------------------------
(***************************************************************************)
(* Routes through a graph, without any algorithm.  A walk from s to t is   *)
(* the list of the nodes it visits with the cost of getting there, added up*)
(* from the source on, as the search and the tests' path checker add it.   *)
(***************************************************************************)
EXTENDS Graph, Sequences

CONSTANTS Graphs,          \* the graphs a query may meet
          Algorithms,      \* the entry points the caller uses
          Walks(_, _, _)   \* Walks(g, s, t): routes an answer is compared with

AllAlgorithms == {"dijkstra", "astar_zero", "astar_euclidean"}

ASSUME GraphsAssumption == \A g \in Graphs : IsGraph(g)

ASSUME AlgorithmsAssumption == Algorithms \subseteq AllAlgorithms

IsWalk(g, s, t, walk) ==
    /\ walk \in Seq([node : Nodes(g), cost : Cost]) /\ walk # <<>>
    /\ walk[1] = [node |-> s, cost |-> 0]
    /\ walk[Len(walk)].node = t
    /\ \A i \in 1 .. Len(walk) - 1 :
        \E k \in ArcsFrom(g, walk[i].node) :
            /\ walk[i + 1].node = g.arc[k].target
            /\ walk[i + 1].cost = Plus(walk[i].cost, g.arc[k].weight)

CostOf(walk) == walk[Len(walk)].cost

\* No walk from s to t costs less than c.
NoWalkBeats(g, s, t, c) ==
    \A walk \in Walks(g, s, t) : IsWalk(g, s, t, walk) => c <= CostOf(walk)
=============================================================================
