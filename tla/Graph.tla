------------------------------- MODULE Graph -------------------------------
(***************************************************************************)
(* The immutable CSR graph (graph.hpp, graph.cpp) as a record, and the     *)
(* metric report that its constructor computes (metric.cpp).               *)
(*                                                                         *)
(* Nodes and arcs are numbered from 0 as in the code.  The arcs of node u  *)
(* are the indices offset[u] .. offset[u + 1] - 1 of the one arc array; the*)
(* source of an arc is nowhere stored, it is the row its index lies in.    *)
(***************************************************************************)
EXTENDS Weights, FiniteSets

CONSTANTS Coord,         \* finite coordinates
          ExternalId,    \* identifiers as they appear in the input files
          Hypot(_, _),   \* Hypot(p, q): std::hypot(q.x - p.x, q.y - p.y)
          MaxNodes,      \* max_supported_node_count()
          MaxArcs        \* max_arc_count()

ASSUME HypotAssumption ==
    /\ \A p, q \in Coord : Hypot(p, q) \in Cost
    /\ \A p \in Coord : Hypot(p, p) = 0

ASSUME LimitAssumption == MaxNodes \in Nat /\ MaxArcs \in Nat

-----------------------------------------------------------------------------
Nodes(g) == 0 .. g.node_count - 1

Arcs(g) == 0 .. g.arc_count - 1

\* Graph::arcs_from: the slice of the arc array that holds u's outgoing arcs.
ArcsFrom(g, u) == g.offset[u] .. g.offset[u + 1] - 1

\* The row that an arc index lies in.
RowOf(nodeCount, offset, k) ==
    CHOOSE u \in 0 .. nodeCount - 1 : k \in offset[u] .. offset[u + 1] - 1

-----------------------------------------------------------------------------
(***************************************************************************)
(* The metric report, as metric.hpp documents it: which arcs are lighter   *)
(* than the straight line between their ends.  MetricScan models the loop  *)
(* that computes it, together with worst_ratio, which no other code reads. *)
(* Node 0 is NodeId{}, the value first_violation_* has without violations. *)
(***************************************************************************)
Violates(coordinate, source, arc) ==
    ~(arc.weight >= Hypot(coordinate[source], coordinate[arc.target]))

Violations(nodeCount, coordinate, offset, arc) ==
    {k \in DOMAIN arc :
        \E u \in 0 .. nodeCount - 1 :
            k \in offset[u] .. offset[u + 1] - 1 /\ Violates(coordinate, u, arc[k])}

MetricReport(nodeCount, coordinate, offset, arc) ==
    LET bad == Violations(nodeCount, coordinate, offset, arc)
        first == CHOOSE k \in bad : \A l \in bad : k <= l
    IN  [passes |-> bad = {},
         violating_arcs |-> Cardinality(bad),
         first_violation_source |->
             IF bad = {} THEN 0 ELSE RowOf(nodeCount, offset, first),
         first_violation_target |->
             IF bad = {} THEN 0 ELSE arc[first].target]

\* Graph::Graph: takes the arrays over and computes the report.
NewGraph(nodeCount, coordinate, externalId, offset, arcCount, arc) ==
    [node_count  |-> nodeCount,
     arc_count   |-> arcCount,
     coordinate  |-> coordinate,
     external_id |-> externalId,
     offset      |-> offset,
     arc         |-> arc,
     metric      |-> MetricReport(nodeCount, coordinate, offset, arc)]

-----------------------------------------------------------------------------
(***************************************************************************)
(* What every reader of a Graph relies on.                                 *)
(***************************************************************************)
ArcType(nodeCount) == [target : 0 .. nodeCount - 1, weight : Weight]

IsCsr(g) ==
    /\ g.node_count \in 0 .. MaxNodes
    /\ g.arc_count \in 0 .. MaxArcs
    /\ g.coordinate \in [Nodes(g) -> Coord]
    /\ g.external_id \in [Nodes(g) -> ExternalId]
    /\ g.offset \in [0 .. g.node_count -> 0 .. g.arc_count]
    /\ g.offset[0] = 0
    /\ g.offset[g.node_count] = g.arc_count
    /\ \A u, v \in 0 .. g.node_count : u <= v => g.offset[u] <= g.offset[v]
    /\ g.arc \in [Arcs(g) -> ArcType(g.node_count)]

\* Canonical (source, target, weight) order: rows are ordered by the offsets,
\* so what is left is the order inside a row.
IsCanonical(g) ==
    \A u \in Nodes(g) : \A k, l \in ArcsFrom(g, u) :
        k < l => \/ g.arc[k].target < g.arc[l].target
                 \/ /\ g.arc[k].target = g.arc[l].target
                    /\ g.arc[k].weight <= g.arc[l].weight

ReportIsRight(g) ==
    g.metric = MetricReport(g.node_count, g.coordinate, g.offset, g.arc)

IsGraph(g) == IsCsr(g) /\ IsCanonical(g) /\ ReportIsRight(g)
=============================================================================
