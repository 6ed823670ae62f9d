---------------------------- MODULE SearchProofs ----------------------------
(***************************************************************************)
(* Proofs about Search, in the order in which they rest on each other:     *)
(*   - type correctness, for every graph, arithmetic and caller;           *)
(*   - optimality: OrderInv is inductive for every heuristic that can be   *)
(*     trusted; the zero heuristic can in any arithmetic, the straight line*)
(*     when addition is exact and the metric contract holds;               *)
(*   - the queue, the counters and the scan, whatever the heuristic and    *)
(*     however additions round;                                            *)
(*   - the route that a search returns is real;                            *)
(*   - the search implements the promise of its interface (RouteQuery).    *)
(***************************************************************************)
EXTENDS SearchInvariants, FiniteSetTheorems, SequenceTheorems,
        WellFoundedInduction, TLAPS

-----------------------------------------------------------------------------
(***************************************************************************)
(* What the search reads of a graph.                                       *)
(***************************************************************************)
LEMMA GraphFacts ==
    ASSUME NEW g \in Graphs
    PROVE  /\ IsCsr(g)
           /\ g.node_count \in Nat
           /\ g.node_count <= MaxNodes
           /\ MaxNodes \in Nat
           /\ NoParent \notin Nodes(g)
<1>1. IsCsr(g)
  BY GraphsAssumption DEF IsGraph
<1>2. QED
  BY <1>1, LimitAssumption DEF IsCsr, Nodes, NoParent

LEMMA ArcFacts ==
    ASSUME NEW g \in Graphs, NEW u \in Nodes(g), NEW k \in ArcsFrom(g, u)
    PROVE  /\ k \in Arcs(g)
           /\ g.arc[k].target \in Nodes(g)
           /\ g.arc[k].weight \in Weight
           /\ g.arc[k].weight \in Cost
<1>1. IsCsr(g) /\ g.node_count \in Nat
  BY GraphFacts
<1>2. /\ g.arc_count \in Nat
      /\ u \in 0 .. g.node_count /\ u + 1 \in 0 .. g.node_count
  BY <1>1, LimitAssumption DEF IsCsr, Nodes
<1>3. /\ g.offset[u] \in 0 .. g.arc_count
      /\ g.offset[u + 1] \in 0 .. g.arc_count
  BY <1>1, <1>2 DEF IsCsr
<1>4. k \in Arcs(g)
  BY <1>2, <1>3 DEF ArcsFrom, Arcs
<1>5. g.arc[k] \in ArcType(g.node_count)
  BY <1>1, <1>4 DEF IsCsr
<1>6. QED
  BY <1>4, <1>5 DEF ArcType, Nodes, Weight

LEMMA RowFacts ==
    ASSUME NEW g \in Graphs, NEW u \in Nodes(g)
    PROVE  /\ g.offset[u] \in Nat /\ g.offset[u + 1] \in Nat
           /\ g.offset[u] <= g.offset[u + 1]
<1>1. IsCsr(g) /\ g.node_count \in Nat
  BY GraphFacts
<1>2. /\ g.arc_count \in Nat
      /\ u \in 0 .. g.node_count /\ u + 1 \in 0 .. g.node_count
      /\ u <= u + 1
  BY <1>1, LimitAssumption DEF IsCsr, Nodes
<1>3. QED
  BY <1>1, <1>2 DEF IsCsr

LEMMA RowsAreDisjoint ==
    ASSUME NEW g \in Graphs, NEW u \in Nodes(g), NEW v \in Nodes(g),
           NEW k \in ArcsFrom(g, u), k \in ArcsFrom(g, v)
    PROVE  u = v
<1>1. IsCsr(g) /\ g.node_count \in Nat
  BY GraphFacts
<1>2. /\ g.offset[u] \in Nat /\ g.offset[u + 1] \in Nat
      /\ g.offset[v] \in Nat /\ g.offset[v + 1] \in Nat
  BY RowFacts
<1>3. CASE u < v
  <2>1. g.offset[u + 1] <= g.offset[v]
    BY <1>1, <1>3 DEF IsCsr, Nodes
  <2>2. QED
    BY <1>2, <2>1 DEF ArcsFrom
<1>4. CASE v < u
  <2>1. g.offset[v + 1] <= g.offset[u]
    BY <1>1, <1>4 DEF IsCsr, Nodes
  <2>2. QED
    BY <1>2, <2>1 DEF ArcsFrom
<1>5. QED
  BY <1>1, <1>3, <1>4 DEF Nodes

LEMMA CostFacts ==
    /\ 0 \in Cost /\ Infinity \in Cost /\ 0 < Infinity
    /\ ~(Infinity < Infinity)
    /\ \A c \in Cost : c \in Nat /\ 0 <= c /\ c <= Infinity
BY CostAssumption

LEMMA EstimateType ==
    ASSUME TypeInv, Valid(target), NEW v \in Nodes(graph)
    PROVE  Estimate(v) \in Cost
<1>1. IsCsr(graph) /\ target \in Nodes(graph)
  BY GraphFacts DEF TypeInv, TypeOK, Valid, Nodes
<1>2. graph.coordinate[v] \in Coord /\ graph.coordinate[target] \in Coord
  BY <1>1 DEF IsCsr
<1>3. QED
  BY <1>2, HypotAssumption, CostAssumption DEF Estimate

-----------------------------------------------------------------------------
(***************************************************************************)
(* The invariant is inductive.                                             *)
(***************************************************************************)
LEMMA InitTypeInv == Init => TypeInv
<1>1. SUFFICES ASSUME Init PROVE TypeInv
  OBVIOUS
<1>2. graph.node_count \in Nat
  BY <1>1, GraphFacts DEF Init
<1>3. Fresh /\ Reached /\ Unanswered
  BY <1>1 DEF Init, Idle, Fresh, Reached, Unanswered
<1>4. TypeOK
  BY <1>1, <1>2, CostAssumption
  DEF Init, Idle, TypeOK, AllAlgorithms, NoStats, NoResult, Statuses, NoParent
<1>5. QED
  BY <1>1, <1>3, <1>4, FS_EmptySet DEF TypeInv, Init, Idle

\* The calls that touch no table.
LEMMA CallTypeInv ==
    ASSUME TypeInv
    PROVE  /\ \A a \in Algorithms, s, t \in 0 .. graph.node_count :
                Ask(a, s, t) => TypeInv'
           /\ RejectId \/ RefuseHeuristic \/ Exhaust \/ EndScan => TypeInv'
           /\ Return => TypeInv'
<1> USE DEF TypeInv
<1>1. graph.node_count \in Nat
  BY GraphFacts
<1>2. ASSUME NEW a \in Algorithms, NEW s \in 0 .. graph.node_count,
             NEW t \in 0 .. graph.node_count, Ask(a, s, t)
      PROVE  TypeInv'
  <2>1. TypeOK'
    BY <1>2, AlgorithmsAssumption DEF Ask, tables, TypeOK, Valid
  <2>2. Fresh' /\ Reached' /\ Unanswered'
    BY <1>2 DEF Ask, tables, Fresh, Reached, Unanswered
  <2>3. QED
    BY <1>2, <2>1, <2>2 DEF Ask, tables
<1>3. ASSUME RejectId \/ RefuseHeuristic \/ Exhaust \/ EndScan
      PROVE  TypeInv'
  <2>1. TypeOK'
    BY <1>3 DEF RejectId, RefuseHeuristic, Throw, Exhaust, EndScan, tables,
                query, TypeOK, Valid, Statuses
  <2>2. Fresh' /\ Reached' /\ Unanswered'
    BY <1>3 DEF RejectId, RefuseHeuristic, Throw, Exhaust, EndScan, tables,
                query, Fresh, Reached, Unanswered, HasParent
  <2>3. QED
    BY <1>3, <2>1, <2>2
    DEF RejectId, RefuseHeuristic, Throw, Exhaust, EndScan, tables
<1>4. ASSUME Return
      PROVE  TypeInv'
  <2>1. TypeOK'
    BY <1>1, <1>4, CostAssumption
    DEF Return, TypeOK, AllAlgorithms, NoStats, NoResult, Statuses, NoParent, Nodes
  <2>2. Fresh' /\ Reached' /\ Unanswered'
    BY <1>4 DEF Return, Fresh, Reached, Unanswered, Nodes
  <2>3. QED
    BY <1>4, <2>1, <2>2, FS_EmptySet DEF Return
<1>5. QED
  BY <1>2, <1>3, <1>4

\* The initialisation of the core.
LEMMA BeginTypeInv == TypeInv /\ Begin => TypeInv'
<1>1. SUFFICES ASSUME TypeInv, Begin PROVE TypeInv'
  OBVIOUS
<1>2. /\ graph \in Graphs /\ TypeOK /\ Fresh /\ Unanswered
      /\ pc = "check" /\ pc' = "loop"
      /\ source \in Nodes(graph) /\ 0 \in Cost /\ Infinity \in Cost
      /\ 0 < Infinity /\ ~(Infinity < Infinity)
  <2>1. graph.node_count \in Nat
    BY <1>1, GraphFacts DEF TypeInv
  <2>2. source \in 0 .. graph.node_count /\ source < graph.node_count
    BY <1>1 DEF TypeInv, TypeOK, Begin, Valid
  <2>3. source \in Nodes(graph)
    BY <2>1, <2>2 DEF Nodes
  <2>4. QED
    BY <1>1, <2>3, CostFacts DEF TypeInv, Begin
<1>3. Estimate(source) \in Cost
  BY <1>1, <1>2, EstimateType DEF Begin
<1>4. TypeOK'
  BY <1>1, <1>2, <1>3 DEF Begin, Entry, Count, query, TypeOK, Valid
<1>5. Reached'
  BY <1>1, <1>2 DEF Begin, Entry, query, Fresh, TypeOK, Reached, HasParent
<1>6. QED
  BY <1>1, <1>2, <1>4, <1>5, FS_Singleton DEF TypeInv, Begin, Fresh, Unanswered, query

\* The queue gives up an entry.
LEMMA PopTypeInv ==
    ASSUME TypeInv, NEW e \in queue, PopStale(e) \/ ReachTarget(e) \/ Expand(e)
    PROVE  TypeInv'
<1>1. /\ graph \in Graphs /\ TypeOK /\ Reached /\ Unanswered
      /\ pc = "loop" /\ e \in queue /\ queue' \subseteq queue
      /\ e.node \in Nodes(graph) /\ distance[e.node] < Infinity
      /\ graph' = graph /\ query' = query
      /\ distance' = distance /\ parent' = parent
      /\ result = NoResult /\ IsFiniteSet(queue')
  BY FS_Subset DEF TypeInv, PopStale, ReachTarget, Expand, Settle, Pop, TypeOK, Reached,
         Unanswered
<1>2. CASE PopStale(e)
  <2>1. TypeOK'
    BY <1>1, <1>2 DEF PopStale, Pop, Count, query, TypeOK, Valid
  <2>2. Fresh' /\ Reached' /\ Unanswered'
    BY <1>1, <1>2 DEF PopStale, Pop, query, Fresh, Reached, HasParent,
                      Unanswered
  <2>3. QED
    BY <1>1, <2>1, <2>2 DEF TypeInv
<1>3. CASE ReachTarget(e)
  <2>1. TypeOK'
    BY <1>1, <1>3 DEF ReachTarget, Settle, Pop, Count, query, TypeOK, Valid, Statuses,
                      NoResult
  <2>2. Fresh' /\ Reached' /\ Unanswered'
    BY <1>1, <1>3 DEF ReachTarget, Settle, Pop, query, Fresh, Reached,
                      HasParent, Unanswered
  <2>3. QED
    BY <1>1, <2>1, <2>2 DEF TypeInv
<1>4. CASE Expand(e)
  <2>1. /\ graph.offset[e.node] \in Nat /\ graph.offset[e.node + 1] \in Nat
        /\ graph.offset[e.node] <= graph.offset[e.node + 1]
        /\ e.node \in 0 .. graph.node_count
    BY <1>1, RowFacts, GraphFacts DEF Nodes
  <2>2. TypeOK'
    BY <1>1, <1>4, <2>1 DEF Expand, Settle, Pop, Count, query, TypeOK, Valid
  <2>3. Fresh' /\ Reached' /\ Unanswered'
    BY <1>1, <1>4 DEF Expand, Settle, Pop, query, Fresh, Reached, HasParent,
                      Unanswered
  <2>4. QED
    BY <1>1, <2>2, <2>3 DEF TypeInv
<1>5. QED
  BY <1>2, <1>3, <1>4

\* One arc of the scan.
LEMMA ScanTypeInv == TypeInv /\ (PassArc \/ Relax) => TypeInv'
<1>1. SUFFICES ASSUME TypeInv, PassArc \/ Relax PROVE TypeInv'
  OBVIOUS
<1>2. /\ graph \in Graphs /\ IsFiniteSet(queue)
      /\ TypeOK /\ Reached /\ Unanswered
      /\ pc = "scan" /\ cursor \in ArcsFrom(graph, current)
      /\ current \in settled /\ current \in Nodes(graph)
      /\ distance[current] \in Cost /\ distance[current] < Infinity
      /\ graph' = graph /\ pc' = pc /\ query' = query /\ settled' = settled
      /\ current' = current /\ at' = at /\ result' = result
      /\ cursor' = cursor + 1
  BY <1>1 DEF TypeInv, PassArc, Relax, Scan, TypeOK, Reached
<1>3. /\ next \in Nodes(graph) /\ arc.weight \in Cost
      /\ candidate \in Cost
      /\ graph.offset[current] \in Nat /\ graph.offset[current + 1] \in Nat
  BY <1>2, ArcFacts, RowFacts, PlusAssumption DEF next, arc, candidate
<1>4. /\ cursor \in Nat
      /\ cursor + 1 \in graph.offset[current] .. graph.offset[current + 1]
  BY <1>2, <1>3 DEF ArcsFrom
<1>5. CASE PassArc
  <2>1. TypeOK'
    BY <1>2, <1>4, <1>5 DEF PassArc, Count, query, TypeOK, Valid
  <2>2. Fresh' /\ Reached' /\ Unanswered'
    BY <1>2, <1>5 DEF PassArc, query, Fresh, Reached, HasParent, Unanswered
  <2>3. QED
    BY <1>2, <1>5, <2>1, <2>2 DEF TypeInv, PassArc
<1>6. CASE Relax
  <2> DEFINE e == Entry(Plus(candidate, Estimate(next)), next,
                        stats.pq_pushes + 1)
  <2>1. /\ next \notin settled /\ candidate < distance[next]
        /\ distance' = [distance EXCEPT ![next] = candidate]
        /\ parent' = [parent EXCEPT ![next] = current]
        /\ queue' = queue \cup {e}
        /\ CountRelaxation
    BY <1>6 DEF Relax, Improves
  <2>2. Estimate(next) \in Cost
    BY <1>1, <1>2, <1>3, EstimateType DEF TypeOK
  <2>3. e \in [priority : Cost, node : Nodes(graph), push : Nat] /\ e.node = next
    <3>1. stats.pq_pushes + 1 \in Nat
      BY <1>2 DEF TypeOK, Counters
    <3>2. Plus(candidate, Estimate(next)) \in Cost
      BY <1>3, <2>2, PlusAssumption
    <3>3. QED
      BY <1>3, <3>1, <3>2 DEF Entry
  <2>4. IsFiniteSet(queue') /\ Cardinality(queue) \in Nat
    BY <1>2, <2>1, FS_AddElement, FS_CardinalityType
  <2>5. stats' \in [Counters -> Nat]
    <3>1. stats \in [Counters -> Nat]
      BY <1>2 DEF TypeOK
    <3>2. QED
      BY <2>1, <2>4, <3>1 DEF CountRelaxation, Count, Counters, Larger
  <2>6. TypeOK'
    <3>1. distance' \in [Nodes(graph) -> Cost]
      BY <1>2, <1>3, <2>1 DEF TypeOK
    <3>2. parent' \in [Nodes(graph) -> Nodes(graph) \cup {NoParent}]
      BY <1>2, <1>3, <2>1 DEF TypeOK
    <3>3. queue' \subseteq [priority : Cost, node : Nodes(graph), push : Nat]
      BY <1>2, <2>1, <2>3 DEF TypeOK
    <3>4. QED
      BY <1>2, <1>4, <2>5, <3>1, <3>2, <3>3 DEF query, TypeOK, Valid
  <2>7. \A v \in Nodes(graph) :
            distance'[v] = IF v = next THEN candidate ELSE distance[v]
    BY <1>2, <1>3, <2>1 DEF TypeOK
  <2>8. candidate < Infinity
    BY <1>2, <1>3, <2>1, CostFacts DEF TypeOK
  <2>9. next # source
    BY <1>2, <1>3, <2>1, CostFacts DEF TypeOK, Reached
  <2>10. source \in Nodes(graph)
    BY <1>2, GraphFacts DEF TypeOK, Valid, Nodes
  <2>11. \A v \in Nodes(graph) : distance'[v] < Infinity /\ v # source =>
            HasParent(v)'
    <3>1. SUFFICES ASSUME NEW v \in Nodes(graph),
                          distance'[v] < Infinity, v # source
                   PROVE  HasParent(v)'
      OBVIOUS
    <3>2. CASE v = next
      BY <1>2, <1>3, <2>1, <2>7, <2>8, <3>2 DEF HasParent, TypeOK
    <3>3. CASE v # next
      BY <1>2, <1>3, <2>1, <2>7, <2>8, <3>1, <3>3
      DEF HasParent, TypeOK, Reached
    <3>4. QED
      BY <3>2, <3>3
  <2>12. \A f \in queue' : distance'[f.node] < Infinity
    <3>1. SUFFICES ASSUME NEW f \in queue' PROVE distance'[f.node] < Infinity
      OBVIOUS
    <3>2. CASE f = e
      BY <1>3, <2>3, <2>7, <2>8, <3>2
    <3>3. CASE f \in queue
      BY <1>2, <2>7, <2>8, <3>3 DEF TypeOK, Reached
    <3>4. QED
      BY <2>1, <3>2, <3>3
  <2>13. \A v \in settled : distance'[v] < Infinity
    BY <1>2, <2>7, <2>8 DEF TypeOK, Reached
  <2>14. Reached'
    BY <1>2, <2>7, <2>9, <2>10, <2>11, <2>12, <2>13
    DEF query, Reached
  <2>15. Fresh' /\ Unanswered'
    BY <1>2 DEF Fresh, Unanswered
  <2>16. QED
    BY <1>2, <2>4, <2>6, <2>14, <2>15 DEF TypeInv
<1>7. QED
  BY <1>1, <1>5, <1>6

\* One node of the walk back.
LEMMA WalkTypeInv == TypeInv /\ WalkBack => TypeInv'
<1>1. SUFFICES ASSUME TypeInv, WalkBack PROVE TypeInv'
  OBVIOUS
<1>2. /\ graph \in Graphs /\ IsFiniteSet(queue) /\ TypeOK /\ Reached
      /\ pc = "walk" /\ at \in Nodes(graph) /\ distance[at] < Infinity
  BY <1>1 DEF TypeInv, WalkBack, TypeOK, Reached
<1>3. <<at>> \o result.path \in Seq(Nodes(graph))
  BY <1>2, ConcatProperties DEF TypeOK
<1>4. result' \in [status : Statuses, cost : Cost, path : Seq(Nodes(graph))]
  BY <1>1, <1>2, <1>3 DEF WalkBack, TypeOK
<1>5. CASE at = source
  <2>1. TypeOK' /\ Fresh' /\ Reached' /\ Unanswered'
    BY <1>1, <1>2, <1>4, <1>5
    DEF WalkBack, query, tables, TypeOK, Valid, Fresh, Reached, Unanswered
  <2>2. QED
    BY <1>1, <1>2, <2>1 DEF WalkBack, tables, TypeInv
<1>6. CASE at # source
  <2>1. HasParent(at) /\ parent[at] \in 0 .. graph.node_count
    BY <1>2, <1>6, GraphFacts DEF Reached, HasParent, Nodes
  <2>2. TypeOK' /\ Fresh' /\ Reached' /\ Unanswered'
    BY <1>1, <1>2, <1>4, <1>6, <2>1
    DEF WalkBack, query, tables, TypeOK, Valid, Fresh, Reached, HasParent,
        Unanswered
  <2>3. QED
    BY <1>1, <1>2, <2>2 DEF WalkBack, tables, TypeInv
<1>7. QED
  BY <1>5, <1>6

LEMMA NextTypeInv == TypeInv /\ [Next]_vars => TypeInv'
<1>1. SUFFICES ASSUME TypeInv, [Next]_vars PROVE TypeInv'
  OBVIOUS
<1>2. CASE \E a \in Algorithms, s, t \in 0 .. graph.node_count : Ask(a, s, t)
  BY <1>1, <1>2, CallTypeInv
<1>3. CASE RejectId \/ RefuseHeuristic \/ Exhaust \/ EndScan \/ Return
  BY <1>1, <1>3, CallTypeInv
<1>4. CASE Begin
  BY <1>1, <1>4, BeginTypeInv
<1>5. CASE \E e \in queue : PopStale(e) \/ ReachTarget(e) \/ Expand(e)
  BY <1>1, <1>5, PopTypeInv
<1>6. CASE PassArc \/ Relax
  BY <1>1, <1>6, ScanTypeInv
<1>7. CASE WalkBack
  BY <1>1, <1>7, WalkTypeInv
<1>8. CASE UNCHANGED vars
  BY <1>1, <1>8
  DEF vars, TypeInv, TypeOK, Valid, Fresh, Reached, HasParent, Unanswered
<1>9. QED
  BY <1>1, <1>2, <1>3, <1>4, <1>5, <1>6, <1>7, <1>8 DEF Next, Step

\* The tables, the queue and the walk back stay what they are.
THEOREM TypeInvariant == Spec => []TypeInv
<1>1. QED
  BY InitTypeInv, NextTypeInv, PTL DEF Spec

(***************************************************************************)
(* The tables, the queue and the result of every search are well-formed,   *)
(* and the walk back never leaves the nodes of the graph.                  *)
(***************************************************************************)
THEOREM TypeCorrect == Spec => []TypeOK
<1>1. TypeInv => TypeOK
  BY DEF TypeInv
<1>2. QED
  BY TypeInvariant, <1>1, PTL

-----------------------------------------------------------------------------
(***************************************************************************)
(* Only a query that passed the checks is searched for.                    *)
(***************************************************************************)
LEMMA NextAccepted == TypeInv /\ Accepted /\ [Next]_vars => Accepted'
<1>1. SUFFICES ASSUME TypeInv, Accepted, [Next]_vars PROVE Accepted'
  OBVIOUS
<1>2. CASE \E a \in Algorithms, s, t \in 0 .. graph.node_count : Ask(a, s, t)
  BY <1>1, <1>2 DEF Ask, TypeInv, Unanswered, NoResult, Accepted
<1>3. CASE RejectId \/ RefuseHeuristic
  BY <1>1, <1>3 DEF RejectId, RefuseHeuristic, Throw, TypeInv, Unanswered,
                    NoResult, Accepted
<1>4. CASE Return
  BY <1>4 DEF Return, NoResult, Accepted
<1>5. CASE Begin
  BY <1>1, <1>5 DEF Begin, query, Accepted, Valid, Refused
<1>6. CASE \E e \in queue : PopStale(e) \/ ReachTarget(e) \/ Expand(e)
  BY <1>1, <1>6 DEF PopStale, ReachTarget, Expand, Settle, Pop, query,
                    Accepted, Valid, Refused
<1>7. CASE Exhaust \/ EndScan \/ PassArc \/ Relax
  BY <1>1, <1>7 DEF Exhaust, EndScan, PassArc, Relax, Scan, query,
                    Accepted, Valid, Refused
<1>8. CASE WalkBack
  BY <1>1, <1>8 DEF WalkBack, query, Accepted, Valid, Refused
<1>9. CASE UNCHANGED vars
  BY <1>1, <1>9 DEF vars, Accepted, Valid, Refused
<1>10. QED
  BY <1>1, <1>2, <1>3, <1>4, <1>5, <1>6, <1>7, <1>8, <1>9 DEF Next, Step

\* What the checks before a search let through stays in force during it.
THEOREM AcceptedInvariant == Spec => [](TypeInv /\ Accepted)
<1>1. Init => Accepted
  BY DEF Init, Idle, NoResult, Accepted
<1>2. TypeInv /\ Accepted /\ [Next]_vars => (TypeInv /\ Accepted)'
  BY NextTypeInv, NextAccepted
<1>3. QED
  BY InitTypeInv, <1>1, <1>2, PTL DEF Spec

-----------------------------------------------------------------------------
(***************************************************************************)
(* The query is one that the caller can ask, and a call that is over has   *)
(* an answer.                                                              *)
(***************************************************************************)
LEMMA NextServed == TypeInv /\ Served /\ [Next]_vars => Served'
<1>1. SUFFICES ASSUME TypeInv, Served, [Next]_vars PROVE Served'
  OBVIOUS
<1>2. CASE \E a \in Algorithms, s, t \in 0 .. graph.node_count : Ask(a, s, t)
  BY <1>2 DEF Ask, Served
<1>3. CASE RejectId \/ RefuseHeuristic
  <2>1. result'.status \in {"out_of_range", "contract_error"}
    BY <1>1, <1>3 DEF RejectId, RefuseHeuristic, Throw, TypeInv, TypeOK
  <2>2. QED
    BY <1>1, <1>3, <2>1
    DEF RejectId, RefuseHeuristic, Throw, query, Served
<1>4. CASE Return
  BY <1>4 DEF Return, Served
<1>5. CASE Begin
  BY <1>1, <1>5 DEF Begin, query, Served
<1>6. CASE \E e \in queue : PopStale(e) \/ ReachTarget(e) \/ Expand(e)
  BY <1>1, <1>6 DEF PopStale, ReachTarget, Expand, Settle, Pop, query, Served
<1>7. CASE EndScan \/ PassArc \/ Relax
  BY <1>1, <1>7 DEF EndScan, PassArc, Relax, Scan, query, Served
<1>8. CASE Exhaust
  <2>1. result'.status = "unreachable"
    BY <1>1, <1>8 DEF Exhaust, TypeInv, TypeOK
  <2>2. QED
    BY <1>1, <1>8, <2>1 DEF Exhaust, query, Served
<1>9. CASE WalkBack
  <2>1. result'.status = result.status
    BY <1>1, <1>9 DEF WalkBack, TypeInv, TypeOK
  <2>2. QED
    BY <1>1, <1>9, <2>1 DEF WalkBack, query, Served
<1>10. CASE UNCHANGED vars
  BY <1>1, <1>10 DEF vars, Served
<1>11. QED
  BY <1>1, <1>2, <1>3, <1>4, <1>5, <1>6, <1>7, <1>8, <1>9, <1>10 DEF Next, Step

\* The query served is one a caller can ask, and a call that is over has its answer.
THEOREM ServedInvariant == Spec => [](TypeInv /\ Served)
<1>1. Init => Served
  BY DEF Init, Idle, Served
<1>2. TypeInv /\ Served /\ [Next]_vars => (TypeInv /\ Served)'
  BY NextTypeInv, NextServed
<1>3. QED
  BY InitTypeInv, <1>1, <1>2, PTL DEF Spec

-----------------------------------------------------------------------------
(***************************************************************************)
(* Every non-empty set of naturals has a least element.                    *)
(***************************************************************************)
LEMMA LeastNatural ==
    ASSUME NEW T \in SUBSET Nat, T # {}
    PROVE  \E m \in T : \A k \in T : m <= k
<1> DEFINE Below == {0 .. k : k \in T}
           R == StrictSubsetOrdering(Nat)
<1>1. IsWellFoundedOn(R, FiniteSubsetsOf(Nat))
  BY FS_StrictSubsetOrderingWellFounded
<1>2. \A k \in T : 0 .. k \in FiniteSubsetsOf(Nat)
  BY FS_Interval DEF FiniteSubsetsOf
<1>3. Below \subseteq FiniteSubsetsOf(Nat) /\ Below # {}
  BY <1>2
<1>4. PICK X \in Below : \A Y \in Below : <<Y, X>> \notin R
  <2> HIDE DEF Below, R
  <2> QED
    BY <1>1, <1>3, WFMin
<1>5. PICK m \in T : X = 0 .. m
  OBVIOUS
<1>6. ASSUME NEW k \in T, k < m PROVE FALSE
  <2>1. 0 .. k \subseteq 0 .. m /\ 0 .. k # 0 .. m
    BY <1>6
  <2>2. <<0 .. k, 0 .. m>> \in R
    BY <2>1 DEF StrictSubsetOrdering
  <2>3. QED
    BY <1>4, <1>5, <2>2
<1>7. QED
  BY <1>6

-----------------------------------------------------------------------------
(***************************************************************************)
(* Facts about priorities.                                                 *)
(***************************************************************************)
LEMMA PriorityType ==
    ASSUME TypeInv, Valid(target), NEW v \in Nodes(graph)
    PROVE  /\ Estimate(v) \in Cost /\ distance[v] \in Cost
           /\ Priority(v) \in Cost
BY EstimateType, PlusAssumption DEF TypeInv, TypeOK, Priority

LEMMA EstimateAtTarget ==
    ASSUME TypeInv, Valid(target)
    PROVE  target \in Nodes(graph) /\ Estimate(target) = 0
<1>1. target \in Nodes(graph) /\ IsCsr(graph)
  BY GraphFacts DEF TypeInv, TypeOK, Valid, Nodes
<1>2. graph.coordinate[target] \in Coord
  BY <1>1 DEF IsCsr
<1>3. QED
  BY <1>1, <1>2, HypotAssumption DEF Estimate

LEMMA TopIsLeast ==
    ASSUME TypeInv, NEW e \in Tops
    PROVE  /\ e \in queue /\ e.node \in Nodes(graph) /\ e.priority \in Cost
           /\ \A f \in queue : e.priority <= f.priority
<1>1. \A f \in queue : f.priority \in Cost /\ f.node \in Nodes(graph)
  BY DEF TypeInv, TypeOK
<1>2. QED
  BY <1>1, CostFacts DEF Tops, ComesBefore

(***************************************************************************)
(* The costs of routes: the source's is 0, and an arc makes one of another.*)
(***************************************************************************)
LEMMA SourceCosts ==
    ASSUME TypeInv, Valid(source)
    PROVE  0 \in RouteCosts(source)
<1> DEFINE walk == <<[node |-> source, cost |-> 0]>>
<1>1. source \in Nodes(graph) /\ 0 \in Cost
  BY GraphFacts, CostFacts DEF TypeInv, TypeOK, Valid, Nodes
<1>2. /\ walk \in Seq([node : Nodes(graph), cost : Cost]) /\ walk # <<>>
      /\ Len(walk) = 1 /\ walk[1] = [node |-> source, cost |-> 0]
  BY <1>1
<1> HIDE DEF walk
<1>3. IsWalk(graph, source, source, walk) /\ CostOf(walk) = 0
  BY <1>2 DEF IsWalk, CostOf
<1>4. QED
  BY <1>1, <1>2, <1>3 DEF RouteCosts

LEMMA ArcCosts ==
    ASSUME TypeInv, NEW u \in Nodes(graph), NEW c \in RouteCosts(u),
           NEW k \in ArcsFrom(graph, u)
    PROVE  Plus(c, graph.arc[k].weight) \in RouteCosts(graph.arc[k].target)
<1> DEFINE v == graph.arc[k].target
           w == graph.arc[k].weight
           Stop == [node : Nodes(graph), cost : Cost]
           stop == [node |-> v, cost |-> Plus(c, w)]
<1>1. c \in Cost /\ \E walk \in Seq(Stop) :
            IsWalk(graph, source, u, walk) /\ c = CostOf(walk)
  BY DEF RouteCosts
<1>2. v \in Nodes(graph) /\ w \in Cost /\ Plus(c, w) \in Cost
  BY <1>1, ArcFacts, PlusAssumption DEF TypeInv
<1>3. stop \in Stop
  BY <1>2
<1>4. PICK walk \in Seq(Stop) : IsWalk(graph, source, u, walk) /\ c = CostOf(walk)
  BY <1>1
<1> DEFINE longer == Append(walk, stop)
<1>5. /\ stop.node = v /\ stop.cost = Plus(c, w)
      /\ k \in ArcsFrom(graph, u) /\ v = graph.arc[k].target
      /\ w = graph.arc[k].weight
  OBVIOUS
<1> HIDE DEF v, w, Stop, stop
<1>6. /\ longer \in Seq(Stop) /\ Len(walk) \in Nat
      /\ Len(longer) = Len(walk) + 1
      /\ longer[Len(walk) + 1] = stop
      /\ \A i \in 1 .. Len(walk) : longer[i] = walk[i]
  BY <1>3, AppendProperties, LenProperties
<1> HIDE DEF longer
<1>7. /\ walk # <<>> /\ walk[1] = [node |-> source, cost |-> 0]
      /\ walk[Len(walk)].node = u /\ walk[Len(walk)].cost = c
      /\ \A i \in 1 .. Len(walk) - 1 :
            \E l \in ArcsFrom(graph, walk[i].node) :
                /\ walk[i + 1].node = graph.arc[l].target
                /\ walk[i + 1].cost = Plus(walk[i].cost, graph.arc[l].weight)
  BY <1>4 DEF IsWalk, CostOf
<1>8. 1 <= Len(walk)
  BY <1>4, <1>6, <1>7, EmptySeq
<1>9. ASSUME NEW i \in 1 .. Len(longer) - 1
      PROVE  \E l \in ArcsFrom(graph, longer[i].node) :
                /\ longer[i + 1].node = graph.arc[l].target
                /\ longer[i + 1].cost = Plus(longer[i].cost, graph.arc[l].weight)
  <2>1. i \in 1 .. Len(walk) /\ longer[i] = walk[i]
    BY <1>6
  <2>2. CASE i = Len(walk)
    <3>1. longer[i] = walk[Len(walk)] /\ longer[i + 1] = stop
      BY <1>6, <2>1, <2>2
    <3>2. QED
      BY <1>5, <1>7, <3>1
  <2>3. CASE i # Len(walk)
    <3>1. i \in 1 .. Len(walk) - 1 /\ i + 1 \in 1 .. Len(walk)
      BY <1>6, <2>1, <2>3
    <3>2. longer[i + 1] = walk[i + 1]
      BY <1>6, <3>1
    <3>3. QED
      BY <1>7, <2>1, <3>1, <3>2
  <2>4. QED
    BY <2>2, <2>3
<1>10. /\ longer # <<>> /\ longer[1] = [node |-> source, cost |-> 0]
       /\ longer[Len(longer)].node = v /\ longer[Len(longer)].cost = Plus(c, w)
  <2>1. longer # <<>>
    BY <1>6, EmptySeq
  <2>2. longer[1] = walk[1]
    BY <1>6, <1>8
  <2>3. longer[Len(longer)] = stop
    BY <1>6
  <2>4. QED
    BY <1>5, <1>7, <2>1, <2>2, <2>3
<1>11. IsWalk(graph, source, v, longer) /\ CostOf(longer) = Plus(c, w)
  BY <1>6, <1>9, <1>10 DEF IsWalk, CostOf, Stop
<1>12. QED
  BY <1>2, <1>6, <1>11 DEF RouteCosts, Stop, v, w

\* The arc under the cursor, or any other arc of u, cannot take a node with a
\* later priority below one with an earlier priority.
LEMMA ArcKeepsOrder ==
    ASSUME TypeInv, Trusted, NEW u \in Nodes(graph),
           distance[u] \in RouteCosts(u),
           NEW k \in ArcsFrom(graph, u)
    PROVE  LET v == graph.arc[k].target
               c == Plus(distance[u], graph.arc[k].weight)
           IN  /\ v \in Nodes(graph) /\ c \in Cost
               /\ Plus(c, Estimate(v)) \in Cost
               /\ Priority(u) <= Plus(c, Estimate(v))
<1>1. /\ graph.arc[k].target \in Nodes(graph)
      /\ graph.arc[k].weight \in Cost
  BY ArcFacts DEF TypeInv
<1>2. distance[u] \in Cost /\ Estimate(graph.arc[k].target) \in Cost
  BY <1>1, PriorityType DEF Trusted
<1>3. QED
  BY <1>1, <1>2, PlusAssumption DEF Trusted, Consistent, Priority

-----------------------------------------------------------------------------
(***************************************************************************)
(* The heart of the argument.  While the loop runs, a route has its first  *)
(* nodes settled at no more than what the route pays for them; from the    *)
(* first other node on, it costs at least the least priority in the queue. *)
(***************************************************************************)
Covered(bound, v, c) ==
    \/ v \in settled /\ distance[v] <= c
    \/ bound <= Plus(c, Estimate(v))

LEMMA SourceIsCovered ==
    ASSUME TypeInv, OrderInv, Trusted, pc = "loop",
           NEW D \in Cost, \A e \in queue : D <= e.priority
    PROVE  Covered(D, source, 0)
<1>1. /\ source \in Nodes(graph) /\ distance[source] = 0 /\ 0 < Infinity
  BY GraphFacts, CostFacts DEF TypeInv, Reached, TypeOK, Trusted, Valid, Nodes
<1>2. CASE source \in settled
  BY <1>1, <1>2 DEF Covered
<1>3. CASE source \notin settled
  <2>1. PICK e \in queue : e.priority = Priority(source)
    BY <1>1, <1>3 DEF OrderInv, EveryFrontierNodeIsQueued
  <2>2. QED
    BY <1>1, <2>1 DEF Priority, Covered
<1>4. QED
  BY <1>2, <1>3

LEMMA ArcsCover ==
    ASSUME TypeInv, OrderInv, Trusted, pc = "loop",
           NEW D \in Cost, \A e \in queue : D <= e.priority,
           NEW u \in Nodes(graph), NEW c \in RouteCosts(u), Covered(D, u, c),
           NEW k \in ArcsFrom(graph, u)
    PROVE  Covered(D, graph.arc[k].target, Plus(c, graph.arc[k].weight))
<1> DEFINE v == graph.arc[k].target
           w == graph.arc[k].weight
<1>1. v \in Nodes(graph) /\ w \in Cost /\ c \in Cost
  BY ArcFacts DEF TypeInv, RouteCosts
<1>2. /\ Estimate(u) \in Cost /\ distance[u] \in Cost /\ Priority(u) \in Cost
      /\ Estimate(v) \in Cost /\ distance[v] \in Cost /\ Priority(v) \in Cost
  BY <1>1, PriorityType DEF Trusted
<1>3. /\ Plus(c, w) \in Cost /\ Plus(distance[u], w) \in Cost
      /\ Plus(c, Estimate(u)) \in Cost
      /\ Plus(Plus(c, w), Estimate(v)) \in Cost
      /\ Plus(c, Estimate(u)) <= Plus(Plus(c, w), Estimate(v))
  BY <1>1, <1>2, PlusAssumption DEF Trusted, Consistent
<1> HIDE DEF v, w
<1>4. CASE D <= Plus(c, Estimate(u))
  BY <1>2, <1>3, <1>4, CostFacts DEF Covered, v, w
<1>5. CASE u \in settled /\ distance[u] <= c /\ Priority(u) = Infinity
  <2>1. Priority(u) <= Plus(c, Estimate(u))
    BY <1>1, <1>2, <1>5, PlusAssumption DEF Priority
  <2>2. D <= Plus(c, Estimate(u))
    BY <1>2, <1>3, <1>5, <2>1, CostFacts
  <2>3. QED
    BY <1>4, <2>2
<1>6. CASE u \in settled /\ distance[u] <= c /\ Priority(u) < Infinity
  <2>1. distance[v] <= Plus(distance[u], w)
    BY <1>6 DEF OrderInv, Relaxed, Scanned, v, w
  <2>2. Plus(distance[u], w) <= Plus(c, w)
    BY <1>1, <1>2, <1>6, PlusAssumption
  <2>3. distance[v] <= Plus(c, w)
    BY <1>2, <1>3, <2>1, <2>2, CostFacts
  <2>4. Priority(v) <= Plus(Plus(c, w), Estimate(v))
    BY <1>2, <1>3, <2>3, PlusAssumption DEF Priority
  <2>5. CASE v \in settled
    BY <2>3, <2>5 DEF Covered, v, w
  <2>6. CASE v \notin settled /\ distance[v] < Infinity
    <3>1. PICK e \in queue : e.priority = Priority(v)
      BY <1>1, <2>6 DEF OrderInv, EveryFrontierNodeIsQueued, v
    <3>2. D <= Plus(Plus(c, w), Estimate(v))
      BY <1>2, <1>3, <2>4, <3>1, CostFacts
    <3>3. QED
      BY <3>2 DEF Covered, v, w
  <2>7. CASE distance[v] = Infinity
    <3>1. Infinity <= Priority(v)
      BY <1>2, <2>7, PlusAssumption DEF Priority
    <3>2. D <= Plus(Plus(c, w), Estimate(v))
      BY <1>2, <1>3, <2>4, <3>1, CostFacts
    <3>3. QED
      BY <3>2 DEF Covered, v, w
  <2>8. QED
    BY <1>2, <2>5, <2>6, <2>7, CostFacts
<1>7. QED
  BY <1>2, <1>4, <1>5, <1>6, CostFacts DEF Covered

LEMMA WalkBound ==
    ASSUME TypeInv, OrderInv, Trusted, pc = "loop",
           NEW D \in Cost, \A e \in queue : D <= e.priority
    PROVE  NoWalkBeats(graph, source, target, D)
<1> SUFFICES ASSUME NEW walk \in Walks(graph, source, target),
                    IsWalk(graph, source, target, walk)
             PROVE  D <= CostOf(walk)
  BY DEF NoWalkBeats
<1> DEFINE n == Len(walk)
           Open == {i \in 1 .. n :
                        ~ /\ walk[i].cost \in RouteCosts(walk[i].node)
                          /\ Covered(D, walk[i].node, walk[i].cost)}
<1>1. /\ n \in Nat /\ 1 <= n
      /\ \A i \in 1 .. n : walk[i].node \in Nodes(graph) /\ walk[i].cost \in Cost
      /\ walk[1].node = source /\ walk[1].cost = 0
      /\ walk[n].node = target
      /\ \A i \in 1 .. n - 1 : \E k \in ArcsFrom(graph, walk[i].node) :
            /\ walk[i + 1].node = graph.arc[k].target
            /\ walk[i + 1].cost = Plus(walk[i].cost, graph.arc[k].weight)
  <2>1. /\ walk \in Seq([node : Nodes(graph), cost : Cost]) /\ walk # <<>>
        /\ walk[1] = [node |-> source, cost |-> 0]
    BY DEF IsWalk
  <2>2. n \in Nat /\ 1 <= n
    BY <2>1, LenProperties, EmptySeq
  <2>3. \A i \in 1 .. n : walk[i] \in [node : Nodes(graph), cost : Cost]
    BY <2>1, ElementOfSeq
  <2>4. QED
    BY <2>1, <2>2, <2>3 DEF IsWalk
<1> HIDE DEF n
<1>2. Open = {}
  <2>1. SUFFICES ASSUME Open # {} PROVE FALSE
    OBVIOUS
  <2>2. Open \in SUBSET Nat
    BY <1>1
  <2>3. PICK m \in Open : \A i \in Open : m <= i
    BY <2>1, <2>2, LeastNatural
  <2>4. m # 1
    BY <1>1, <2>3, SourceIsCovered, SourceCosts DEF Trusted
  <2>5. m - 1 \in 1 .. n - 1 /\ m - 1 \notin Open /\ (m - 1) + 1 = m
    BY <1>1, <2>3, <2>4
  <2>6. PICK k \in ArcsFrom(graph, walk[m - 1].node) :
            /\ walk[m].node = graph.arc[k].target
            /\ walk[m].cost = Plus(walk[m - 1].cost, graph.arc[k].weight)
    BY <1>1, <2>5
  <2>7. /\ walk[m - 1].node \in Nodes(graph)
        /\ walk[m - 1].cost \in RouteCosts(walk[m - 1].node)
        /\ Covered(D, walk[m - 1].node, walk[m - 1].cost)
    BY <1>1, <2>5
  <2>8. /\ Covered(D, walk[m].node, walk[m].cost)
        /\ walk[m].cost \in RouteCosts(walk[m].node)
    BY <2>6, <2>7, ArcsCover, ArcCosts
  <2>9. QED
    BY <2>3, <2>8
<1>3. Covered(D, target, walk[n].cost)
  BY <1>1, <1>2
<1>4. target \notin settled /\ Estimate(target) = 0
  BY EstimateAtTarget DEF OrderInv, TargetIsOpen, Trusted
<1>5. QED
  BY <1>1, <1>3, <1>4, PlusAssumption DEF Covered, CostOf, n

-----------------------------------------------------------------------------
(***************************************************************************)
(* The invariant is inductive.  A step within a query changes none of what *)
(* the heuristic depends on.                                               *)
(***************************************************************************)
LEMMA SameQuery ==
    ASSUME graph' = graph, query' = query
    PROVE  /\ Trusted' = Trusted
           /\ \A v : Estimate(v)' = Estimate(v)
           /\ target' = target /\ source' = source
BY DEF query, Trusted, Consistent, Cancels, RouteCosts, Estimate, Valid

\* Leaving check, and every other step that moves no entry and no node.
LEMMA CallOrderInv ==
    ASSUME TypeInv, OrderInv, TypeInv'
    PROVE  /\ \A a \in Algorithms, s, t \in 0 .. graph.node_count :
                Ask(a, s, t) => OrderInv'
           /\ Return => OrderInv'
           /\ RejectId \/ RefuseHeuristic => OrderInv'
           /\ WalkBack => OrderInv'
<1>1. pc' \in {"idle", "check"} => OrderInv'
  BY DEF TypeInv, Fresh, Unanswered, NoResult, OrderInv, AnswerStands,
         EveryFrontierNodeIsQueued, EntriesAreLate, SettledInOrder,
         CurrentIsLast, Relaxed, TargetIsOpen
<1>2. ASSUME NEW a \in Algorithms, NEW s \in 0 .. graph.node_count,
             NEW t \in 0 .. graph.node_count, Ask(a, s, t)
      PROVE  OrderInv'
  BY <1>1, <1>2 DEF Ask
<1>3. ASSUME Return PROVE OrderInv'
  BY <1>1, <1>3 DEF Return
<1>4. ASSUME RejectId \/ RefuseHeuristic PROVE OrderInv'
  <2>1. /\ pc = "check" /\ pc' = "done"
        /\ settled' = {} /\ queue' = {}
        /\ result' = [NoResult EXCEPT !.status = "out_of_range"]
            \/ result' = [NoResult EXCEPT !.status = "contract_error"]
    BY <1>4 DEF RejectId, RefuseHeuristic, Throw, tables, TypeInv, Fresh,
                Unanswered
  <2>2. result'.status \notin {"found", "unreachable"}
    BY <2>1 DEF NoResult
  <2>3. QED
    BY <2>1, <2>2 DEF OrderInv, AnswerStands, EveryFrontierNodeIsQueued,
        EntriesAreLate, SettledInOrder, CurrentIsLast, Relaxed, TargetIsOpen
<1>5. ASSUME WalkBack PROVE OrderInv'
  <2>1. /\ pc = "walk" /\ pc' \in {"walk", "done"}
        /\ graph' = graph /\ query' = query /\ distance' = distance
        /\ settled' = settled /\ queue' = queue
    BY <1>5 DEF WalkBack, tables
  <2>2. result'.status = result.status /\ result'.cost = result.cost
    BY <1>5 DEF WalkBack, TypeInv, TypeOK
  <2>3. /\ Trusted' = Trusted /\ target' = target /\ source' = source
        /\ \A v : Priority(v)' = Priority(v)
    BY <2>1, SameQuery DEF Priority
  <2>4. AnswerStands' = AnswerStands
    BY <2>1, <2>2, <2>3 DEF AnswerStands, NoWalkBeats
  <2>5. SettledInOrder' = SettledInOrder /\ EntriesAreLate' = EntriesAreLate
    BY <2>1, <2>3 DEF SettledInOrder, EntriesAreLate
  <2>6. QED
    BY <2>1, <2>3, <2>4, <2>5
    DEF OrderInv, EveryFrontierNodeIsQueued, CurrentIsLast, Relaxed, TargetIsOpen
<1>6. QED
  BY <1>2, <1>3, <1>4, <1>5

LEMMA BeginOrderInv == TypeInv /\ Begin => OrderInv'
<1>1. SUFFICES ASSUME TypeInv, Begin PROVE OrderInv'
  OBVIOUS
<1>2. /\ Valid(source) /\ Valid(target) /\ pc = "check" /\ pc' = "loop"
      /\ graph' = graph /\ query' = query /\ settled' = settled
      /\ result' = result /\ settled = {} /\ result = NoResult
      /\ distance = [v \in Nodes(graph) |-> Infinity]
      /\ distance' = [distance EXCEPT ![source] = 0]
      /\ queue' = {Entry(Estimate(source), source, 1)}
  BY <1>1 DEF TypeInv, Begin, Fresh, Unanswered
<1>3. source \in Nodes(graph)
  BY <1>1, <1>2, GraphFacts DEF TypeInv, TypeOK, Valid, Nodes
<1>4. \A v \in Nodes(graph) : distance'[v] = IF v = source THEN 0 ELSE Infinity
  BY <1>2, <1>3
<1>5. Plus(0, Estimate(source)) = Estimate(source)
  BY <1>1, <1>2, <1>3, PriorityType, CostFacts, PlusAssumption
<1>6. Priority(source)' = Estimate(source) /\ Estimate(source) \in Cost
  BY <1>1, <1>2, <1>3, <1>4, <1>5, SameQuery, PriorityType DEF Priority
<1>7. EveryFrontierNodeIsQueued' /\ EntriesAreLate'
  BY <1>2, <1>4, <1>6, SameQuery, CostFacts
  DEF EveryFrontierNodeIsQueued, EntriesAreLate, Entry
<1>8. QED
  BY <1>2, <1>7, SameQuery DEF OrderInv, NoResult, AnswerStands, SettledInOrder,
        CurrentIsLast, Relaxed, TargetIsOpen

LEMMA LeaveOrderInv ==
    ASSUME TypeInv, OrderInv, Exhaust \/ EndScan
    PROVE  OrderInv'
<1>1. /\ graph' = graph /\ query' = query /\ distance' = distance
      /\ settled' = settled /\ queue' = queue /\ current' = current
      /\ cursor' = cursor
  BY DEF Exhaust, EndScan, tables
<1>2. /\ Trusted' = Trusted /\ target' = target /\ source' = source
      /\ \A v : Priority(v)' = Priority(v)
  BY <1>1, SameQuery DEF Priority
<1>3. SUFFICES ASSUME Trusted
               PROVE  /\ EveryFrontierNodeIsQueued' /\ EntriesAreLate'
                      /\ SettledInOrder' /\ CurrentIsLast' /\ Relaxed'
                      /\ TargetIsOpen' /\ AnswerStands'
  BY <1>2 DEF OrderInv
<1>4. EntriesAreLate' /\ SettledInOrder'
  BY <1>1, <1>2, <1>3 DEF OrderInv, EntriesAreLate, SettledInOrder
<1>5. CASE Exhaust
  <2>1. /\ pc = "loop" /\ pc' = "done" /\ queue = {}
        /\ result'.status = "unreachable" /\ result'.cost = Infinity
    BY <1>5 DEF Exhaust, TypeInv, Unanswered, NoResult
  <2>2. NoWalkBeats(graph, source, target, Infinity)
    BY <1>3, <2>1, WalkBound, CostFacts
  <2>3. AnswerStands'
    BY <1>1, <1>2, <2>1, <2>2 DEF AnswerStands, NoWalkBeats
  <2>4. QED
    BY <1>4, <2>1, <2>3 DEF EveryFrontierNodeIsQueued, CurrentIsLast, Relaxed,
                            TargetIsOpen
<1>6. CASE EndScan
  <2>1. /\ pc = "scan" /\ pc' = "loop" /\ result' = result
        /\ cursor \notin ArcsFrom(graph, current)
    BY <1>6 DEF EndScan
  <2>2. \A k \in ArcsFrom(graph, current) : k < cursor
    <3>1. /\ current \in Nodes(graph) /\ graph \in Graphs
          /\ cursor \in graph.offset[current] .. graph.offset[current + 1]
      BY <2>1 DEF TypeInv, TypeOK
    <3>2. graph.offset[current] \in Nat /\ graph.offset[current + 1] \in Nat
      BY <3>1, RowFacts
    <3>3. QED
      BY <2>1, <3>1, <3>2 DEF ArcsFrom
  <2>3. Relaxed'
    BY <1>1, <1>2, <1>3, <2>1, <2>2 DEF OrderInv, Relaxed, Scanned
  <2>4. QED
    BY <1>1, <1>2, <1>3, <1>4, <2>1, <2>3
    DEF OrderInv, EveryFrontierNodeIsQueued, CurrentIsLast, TargetIsOpen,
        AnswerStands, NoWalkBeats
<1>7. QED
  BY <1>5, <1>6

\* Pops.
LEMMA PopOrderInv ==
    ASSUME TypeInv, OrderInv, NEW e \in queue,
           PopStale(e) \/ ReachTarget(e) \/ Expand(e)
    PROVE  OrderInv'
<1>1. /\ pc = "loop" /\ e \in Tops /\ queue' = queue \ {e}
      /\ graph' = graph /\ query' = query /\ distance' = distance
      /\ result = NoResult /\ e.node \in Nodes(graph)
  BY DEF PopStale, ReachTarget, Expand, Settle, Pop, TypeInv, Unanswered, TypeOK
<1>2. /\ Trusted' = Trusted /\ target' = target /\ source' = source
      /\ \A v : Priority(v)' = Priority(v)
  BY <1>1, SameQuery DEF Priority
<1>3. SUFFICES ASSUME Trusted
               PROVE  /\ EveryFrontierNodeIsQueued' /\ EntriesAreLate'
                      /\ SettledInOrder' /\ CurrentIsLast' /\ Relaxed'
                      /\ TargetIsOpen' /\ AnswerStands'
  BY <1>2 DEF OrderInv
<1>4. /\ EveryFrontierNodeIsQueued /\ EntriesAreLate /\ SettledInOrder
      /\ Relaxed /\ TargetIsOpen
  BY <1>3 DEF OrderInv
<1>5. EntriesAreLate'
  BY <1>1, <1>2, <1>4 DEF EntriesAreLate
<1>6. CASE PopStale(e)
  <2>1. /\ pc' = pc /\ settled' = settled /\ e.node \in settled
        /\ result' = result
    BY <1>6 DEF PopStale
  <2>2. EveryFrontierNodeIsQueued'
    BY <1>1, <1>2, <1>4, <2>1 DEF EveryFrontierNodeIsQueued
  <2>3. SettledInOrder' /\ CurrentIsLast' /\ Relaxed' /\ TargetIsOpen'
    BY <1>1, <1>2, <1>4, <2>1
    DEF SettledInOrder, CurrentIsLast, Relaxed, Scanned, TargetIsOpen
  <2>4. AnswerStands'
    BY <1>1, <2>1 DEF AnswerStands, NoResult
  <2>5. QED
    BY <1>5, <2>2, <2>3, <2>4
<1>7. CASE ReachTarget(e) \/ Expand(e)
  <2>1. settled' = settled \cup {e.node} /\ e.node \notin settled
    BY <1>7 DEF ReachTarget, Expand, Settle
  <2>2. /\ e.priority \in Cost /\ Priority(e.node) \in Cost
        /\ \A f \in queue : e.priority <= f.priority /\ f.priority \in Cost
    BY <1>1, <1>3, TopIsLeast, PriorityType DEF Trusted, TypeInv, TypeOK
  <2>3. Priority(e.node) = e.priority
    <3>1. distance[e.node] < Infinity
      BY <1>1 DEF TypeInv, Reached
    <3>2. PICK f \in queue : f.priority = Priority(e.node)
      BY <1>1, <1>4, <2>1, <3>1 DEF EveryFrontierNodeIsQueued
    <3>3. Priority(e.node) <= e.priority
      BY <1>4 DEF EntriesAreLate
    <3>4. QED
      BY <2>2, <3>2, <3>3, CostFacts
  <2>4. SettledInOrder'
    BY <1>1, <1>2, <1>4, <2>1, <2>2, <2>3 DEF SettledInOrder
  <2>5. CASE ReachTarget(e)
    <3>1. /\ pc' = "walk" /\ result'.status = "found"
          /\ result'.cost = distance[target] /\ e.node = target
      BY <2>5 DEF ReachTarget
    <3>2. NoWalkBeats(graph, source, target, e.priority)
      BY <1>1, <1>3, <2>2, WalkBound
    <3>3. distance[target] = e.priority
      <4>1. Estimate(target) = 0 /\ distance[target] \in Cost
        BY <1>1, <1>3, <3>1, EstimateAtTarget, PriorityType DEF Trusted
      <4>2. QED
        BY <2>3, <3>1, <4>1, PlusAssumption DEF Priority
    <3>4. AnswerStands'
      BY <1>1, <1>2, <3>1, <3>2, <3>3 DEF AnswerStands, NoWalkBeats
    <3>5. QED
      BY <1>5, <2>4, <3>1, <3>4
      DEF EveryFrontierNodeIsQueued, CurrentIsLast, Relaxed, TargetIsOpen
  <2>6. CASE Expand(e)
    <3>1. /\ pc' = "scan" /\ current' = e.node /\ e.node # target
          /\ cursor' = graph.offset[e.node] /\ result' = result
      BY <2>6 DEF Expand
    <3>2. EveryFrontierNodeIsQueued'
      BY <1>1, <1>2, <1>4, <2>1 DEF EveryFrontierNodeIsQueued
    <3>3. CurrentIsLast'
      <4>1. \A v \in settled : Priority(v) <= Priority(e.node)
        BY <1>4, <2>3 DEF SettledInOrder
      <4>2. Priority(e.node) <= Priority(e.node)
        BY <2>2, CostFacts
      <4>3. QED
        BY <1>2, <2>1, <3>1, <4>1, <4>2 DEF CurrentIsLast
    <3>4. \A k \in ArcsFrom(graph, e.node) : ~(k < cursor')
      <4>1. graph.offset[e.node] \in Nat /\ graph.offset[e.node + 1] \in Nat
        BY <1>1, RowFacts DEF TypeInv
      <4>2. QED
        BY <3>1, <4>1 DEF ArcsFrom
    <3>5. Relaxed'
      BY <1>1, <1>2, <1>4, <2>1, <3>1, <3>4 DEF Relaxed, Scanned
    <3>6. TargetIsOpen' /\ AnswerStands'
      BY <1>1, <1>2, <1>4, <2>1, <3>1
      DEF TargetIsOpen, AnswerStands, NoResult
    <3>7. QED
      BY <1>5, <2>4, <3>2, <3>3, <3>5, <3>6
  <2>7. QED
    BY <1>7, <2>5, <2>6
<1>8. QED
  BY <1>6, <1>7

-----------------------------------------------------------------------------
(***************************************************************************)
(* The scan.                                                               *)
(***************************************************************************)
\* A settled neighbour has nothing to gain from the arc under the cursor.
LEMMA SettledIsFinal ==
    ASSUME TypeInv, DistancesAreCosts, Trusted, CurrentIsLast, pc = "scan",
           Priority(current) < Infinity,
           cursor \in ArcsFrom(graph, current), next \in settled
    PROVE  distance[next] <= candidate
<1>1. /\ current \in Nodes(graph) /\ distance[current] \in RouteCosts(current)
      /\ distance[next] < Infinity
  BY DEF TypeInv, TypeOK, Reached, DistancesAreCosts
<1>2. /\ next \in Nodes(graph) /\ candidate \in Cost
      /\ Plus(candidate, Estimate(next)) \in Cost
      /\ Priority(current) <= Plus(candidate, Estimate(next))
  BY <1>1, ArcKeepsOrder DEF next, arc, candidate
<1>3. Priority(next) <= Priority(current)
  BY DEF CurrentIsLast
<1>4. /\ distance[next] \in Cost /\ Priority(next) \in Cost
      /\ Priority(current) \in Cost
  BY <1>1, <1>2, PriorityType DEF Trusted
<1>5. /\ Priority(next) <= Plus(candidate, Estimate(next))
      /\ Priority(next) < Infinity
  BY <1>2, <1>3, <1>4, CostFacts
<1>6. distance[next] \in RouteCosts(next) /\ candidate \in RouteCosts(next)
  BY <1>1, <1>2, ArcCosts DEF DistancesAreCosts, next, arc, candidate
<1>7. QED
  BY <1>2, <1>5, <1>6 DEF Trusted, Cancels, Priority

LEMMA ScanOrderInv ==
    ASSUME TypeInv, DistancesAreCosts, OrderInv, PassArc \/ Relax
    PROVE  OrderInv'
<1>1. /\ pc = "scan" /\ pc' = "scan" /\ cursor \in ArcsFrom(graph, current)
      /\ graph' = graph /\ query' = query /\ settled' = settled
      /\ current' = current /\ cursor' = cursor + 1
      /\ result' = result /\ result = NoResult
      /\ graph \in Graphs /\ current \in Nodes(graph) /\ current \in settled
      /\ distance[current] \in RouteCosts(current)
  BY DEF PassArc, Relax, Scan, TypeInv, Unanswered, TypeOK, Reached,
         DistancesAreCosts
<1>2. /\ Trusted' = Trusted /\ target' = target /\ source' = source
      /\ \A v : Estimate(v)' = Estimate(v)
  BY <1>1, SameQuery
<1>3. SUFFICES ASSUME Trusted
               PROVE  /\ EveryFrontierNodeIsQueued' /\ EntriesAreLate'
                      /\ SettledInOrder' /\ CurrentIsLast' /\ Relaxed'
                      /\ TargetIsOpen' /\ AnswerStands'
  BY <1>2 DEF OrderInv
<1>4. /\ EveryFrontierNodeIsQueued /\ EntriesAreLate /\ SettledInOrder
      /\ CurrentIsLast /\ Relaxed /\ TargetIsOpen
  BY <1>3 DEF OrderInv
<1>5. TargetIsOpen' /\ AnswerStands'
  BY <1>1, <1>2, <1>4 DEF TargetIsOpen, AnswerStands, NoResult
<1>6. \A k \in ArcsFrom(graph, current) : k < cursor + 1 => k < cursor \/ k = cursor
  <2>1. graph.offset[current] \in Nat /\ graph.offset[current + 1] \in Nat
    BY <1>1, RowFacts
  <2>2. QED
    BY <1>1, <2>1 DEF ArcsFrom
<1>7. /\ next \in Nodes(graph) /\ arc.weight \in Cost /\ candidate \in Cost
      /\ Plus(candidate, Estimate(next)) \in Cost
      /\ Priority(current) <= Plus(candidate, Estimate(next))
      /\ Estimate(next) \in Cost
  BY <1>1, <1>3, ArcKeepsOrder, ArcFacts, PriorityType
  DEF next, arc, candidate, Trusted
<1>8. \A v \in Nodes(graph) : distance[v] \in Cost /\ Priority(v) \in Cost
  BY <1>3, PriorityType DEF Trusted
<1>9. CASE PassArc
  <2>1. /\ distance' = distance /\ queue' = queue
        /\ next \in settled \/ ~(candidate < distance[next])
    BY <1>9 DEF PassArc, Improves
  <2>2. \A v : Priority(v)' = Priority(v)
    BY <1>2, <2>1 DEF Priority
  <2>3. Priority(current) < Infinity => distance[next] <= candidate
    BY <1>1, <1>3, <1>4, <1>7, <1>8, <2>1, SettledIsFinal, CostFacts
  <2>4. Relaxed'
    <3>1. SUFFICES ASSUME NEW u \in settled, Priority(u) < Infinity,
                          NEW k \in ArcsFrom(graph, u), Scanned(u, k)'
                   PROVE  distance[graph.arc[k].target]
                            <= Plus(distance[u], graph.arc[k].weight)
      BY <1>1, <2>1, <2>2 DEF Relaxed
    <3>2. CASE u = current /\ k = cursor
      BY <2>3, <3>1, <3>2 DEF next, arc, candidate
    <3>3. CASE ~(u = current /\ k = cursor)
      <4>1. Scanned(u, k)
        BY <1>1, <1>6, <3>1, <3>3 DEF Scanned
      <4>2. QED
        BY <1>1, <1>4, <3>1, <4>1 DEF Relaxed
    <3>4. QED
      BY <3>2, <3>3
  <2>5. QED
    BY <1>1, <1>4, <1>5, <2>1, <2>2, <2>4
    DEF EveryFrontierNodeIsQueued, EntriesAreLate, SettledInOrder, CurrentIsLast
<1>10. CASE Relax
  <2> DEFINE e == Entry(Plus(candidate, Estimate(next)), next,
                        stats.pq_pushes + 1)
  <2>1. /\ next \notin settled /\ candidate < distance[next]
        /\ distance' = [distance EXCEPT ![next] = candidate]
        /\ queue' = queue \cup {e}
    BY <1>10 DEF Relax, Improves
  <2>2. e.node = next /\ e.priority = Plus(candidate, Estimate(next))
    BY DEF Entry
  <2> HIDE DEF e
  <2>3. \A v \in Nodes(graph) :
            distance'[v] = IF v = next THEN candidate ELSE distance[v]
    BY <2>1 DEF TypeInv, TypeOK
  <2>4. \A v \in Nodes(graph) \ {next} : Priority(v)' = Priority(v)
    BY <1>2, <2>3 DEF Priority
  <2>n. PICK n \in Nodes(graph) : n = next
    BY <1>7
  <2>5. Priority(n)' = e.priority /\ e.priority <= Priority(n)
    <3>1. Priority(n)' = e.priority
      BY <1>2, <1>7, <2>2, <2>3, <2>n DEF Priority
    <3>2. candidate <= distance[n]
      BY <1>7, <1>8, <2>1, <2>n, CostFacts
    <3>3. Plus(candidate, Estimate(n)) <= Plus(distance[n], Estimate(n))
      <4>1. Estimate(n) \in Cost /\ distance[n] \in Cost
        BY <1>7, <1>8, <2>n
      <4>2. QED
        BY <1>7, <3>2, <4>1, PlusAssumption
    <3>4. QED
      BY <2>2, <2>n, <3>1, <3>3 DEF Priority
  <2>6. \A v \in settled : v \in Nodes(graph) \ {next}
    BY <2>1 DEF TypeInv, TypeOK
  <2>7. \A f \in queue : f.node \in Nodes(graph) /\ f.priority \in Cost
    BY DEF TypeInv, TypeOK
  <2>8. e.priority \in Cost /\ e.priority <= e.priority
    BY <1>7, <2>2, CostFacts
  <2>9. EntriesAreLate'
    <3>1. SUFFICES ASSUME NEW f \in queue' PROVE Priority(f.node)' <= f.priority
      BY DEF EntriesAreLate
    <3>2. CASE f = e
      BY <2>2, <2>5, <2>8, <2>n, <3>2
    <3>3. CASE f \in queue /\ f.node = next
      <4>1. Priority(next) <= f.priority
        BY <1>4, <3>3 DEF EntriesAreLate
      <4>2. QED
        BY <1>7, <1>8, <2>5, <2>7, <2>8, <2>n, <3>3, <4>1, CostFacts
    <3>4. CASE f \in queue /\ f.node # next
      BY <1>4, <2>4, <2>7, <3>4 DEF EntriesAreLate
    <3>5. QED
      BY <2>1, <3>2, <3>3, <3>4
  <2>10. EveryFrontierNodeIsQueued'
    <3>1. SUFFICES ASSUME NEW v \in Nodes(graph), v \notin settled,
                          distance'[v] < Infinity
                   PROVE  /\ \E f \in queue' : /\ f.node = v
                                                /\ f.priority = Priority(v)'
                          /\ \A f \in queue' : f.node = v =>
                                Priority(v)' <= f.priority
      BY <1>1 DEF EveryFrontierNodeIsQueued
    <3>2. \A f \in queue' : f.node = v => Priority(v)' <= f.priority
      BY <2>9 DEF EntriesAreLate
    <3>3. CASE v = next
      BY <2>1, <2>2, <2>5, <2>n, <3>2, <3>3
    <3>4. CASE v # next
      <4>1. \E f \in queue : f.node = v /\ f.priority = Priority(v)
        BY <1>1, <1>4, <2>3, <3>1, <3>4 DEF EveryFrontierNodeIsQueued
      <4>2. QED
        BY <2>1, <2>4, <3>2, <3>4, <4>1
    <3>5. QED
      BY <3>3, <3>4
  <2>11. SettledInOrder'
    <3>1. SUFFICES ASSUME NEW v \in settled, NEW f \in queue'
                   PROVE  Priority(v) <= f.priority
      BY <1>1, <2>4, <2>6 DEF SettledInOrder
    <3>2. CASE f = e
      <4>1. Priority(v) <= Priority(current)
        BY <1>1, <1>4 DEF CurrentIsLast
      <4>2. QED
        BY <1>1, <1>7, <1>8, <2>2, <2>6, <3>2, <4>1, CostFacts
    <3>3. CASE f \in queue
      BY <1>4, <3>3 DEF SettledInOrder
    <3>4. QED
      BY <2>1, <3>2, <3>3
  <2>12. CurrentIsLast'
    BY <1>1, <1>4, <2>4, <2>6 DEF CurrentIsLast
  <2>13. Relaxed'
    <3>1. \A u \in settled : distance'[u] = distance[u]
                             /\ Priority(u)' = Priority(u)
      BY <2>3, <2>4, <2>6
    <3>2. SUFFICES ASSUME NEW u \in settled, Priority(u) < Infinity,
                          NEW k \in ArcsFrom(graph, u), Scanned(u, k)'
                   PROVE  distance'[graph.arc[k].target]
                            <= Plus(distance[u], graph.arc[k].weight)
      BY <1>1, <3>1 DEF Relaxed
    <3>3. /\ graph.arc[k].target \in Nodes(graph) /\ distance[u] \in Cost
          /\ Plus(distance[u], graph.arc[k].weight) \in Cost
      BY <1>1, <1>8, <2>6, ArcFacts, PlusAssumption
    <3>4. CASE u = current /\ k = cursor
      BY <1>7, <2>3, <3>4, CostFacts DEF next, arc, candidate
    <3>5. CASE ~(u = current /\ k = cursor)
      <4>1. Scanned(u, k)
        BY <1>1, <1>6, <3>2, <3>5 DEF Scanned
      <4>2. distance[graph.arc[k].target]
                <= Plus(distance[u], graph.arc[k].weight)
        BY <1>1, <1>4, <3>2, <4>1 DEF Relaxed
      <4>3. distance'[graph.arc[k].target] <= distance[graph.arc[k].target]
        BY <1>7, <1>8, <2>1, <2>3, <3>3, CostFacts
      <4>4. distance'[graph.arc[k].target] \in Cost
        BY <1>7, <1>8, <2>3, <3>3
      <4>5. QED
        BY <1>8, <3>3, <4>2, <4>3, <4>4, CostFacts
    <3>6. QED
      BY <3>4, <3>5
  <2>14. QED
    BY <1>5, <2>9, <2>10, <2>11, <2>12, <2>13
<1>11. QED
  BY <1>9, <1>10

\* What a relaxation writes is the cost of the route it has found.
LEMMA NextCosts ==
    TypeInv /\ DistancesAreCosts /\ [Next]_vars => DistancesAreCosts'
<1>1. SUFFICES ASSUME TypeInv, DistancesAreCosts, [Next]_vars
               PROVE  DistancesAreCosts'
  OBVIOUS
<1>2. ASSUME UNCHANGED <<graph, query, distance>>,
             pc' \in {"loop", "scan", "walk"} => pc \in {"loop", "scan", "walk"}
      PROVE  DistancesAreCosts'
  BY <1>1, <1>2 DEF DistancesAreCosts, RouteCosts, query
<1>3. CASE \E a \in Algorithms, s, t \in 0 .. graph.node_count : Ask(a, s, t)
  BY <1>3 DEF Ask, DistancesAreCosts
<1>4. CASE RejectId \/ RefuseHeuristic \/ Return
  BY <1>4 DEF RejectId, RefuseHeuristic, Throw, Return, DistancesAreCosts
<1>5. CASE Begin
  <2>1. /\ pc = "check" /\ graph' = graph /\ query' = query
        /\ distance' = [distance EXCEPT ![source] = 0]
        /\ Valid(source)
    BY <1>5 DEF Begin
  <2>2. \A v \in Nodes(graph) : distance'[v] < Infinity => v = source
    BY <1>1, <2>1, CostFacts DEF TypeInv, TypeOK, Fresh
  <2>3. distance'[source] = 0 /\ 0 \in RouteCosts(source)
    <3>1. source \in Nodes(graph) /\ DOMAIN distance = Nodes(graph)
      BY <1>1, <2>1, GraphFacts DEF TypeInv, TypeOK, Valid, Nodes
    <3>2. QED
      BY <1>1, <2>1, <3>1, SourceCosts
  <2>4. QED
    BY <2>1, <2>2, <2>3 DEF DistancesAreCosts, RouteCosts, query
<1>6. CASE \E e \in queue : PopStale(e) \/ ReachTarget(e) \/ Expand(e)
  BY <1>2, <1>6 DEF PopStale, ReachTarget, Expand, Settle, Pop, query
<1>7. CASE Exhaust \/ EndScan \/ PassArc \/ WalkBack
  BY <1>2, <1>7 DEF Exhaust, EndScan, PassArc, Scan, WalkBack, tables, query
<1>8. CASE Relax
  <2>1. /\ pc = "scan" /\ graph' = graph /\ query' = query
        /\ distance' = [distance EXCEPT ![next] = candidate]
        /\ cursor \in ArcsFrom(graph, current)
        /\ current \in Nodes(graph) /\ distance[current] < Infinity
    BY <1>1, <1>8 DEF Relax, Scan, TypeInv, TypeOK, Reached
  <2>2. candidate \in RouteCosts(next)
    BY <1>1, <2>1, ArcCosts DEF DistancesAreCosts, next, arc, candidate
  <2>3. \A v \in Nodes(graph) :
            distance'[v] = IF v = next THEN candidate ELSE distance[v]
    BY <1>1, <2>1 DEF TypeInv, TypeOK
  <2>4. \A v \in Nodes(graph) : distance'[v] < Infinity => distance'[v] \in RouteCosts(v)
    BY <1>1, <2>1, <2>2, <2>3 DEF DistancesAreCosts
  <2>5. QED
    BY <2>1, <2>4 DEF DistancesAreCosts, RouteCosts, query
<1>9. CASE UNCHANGED vars
  BY <1>2, <1>9 DEF vars, query
<1>10. QED
  BY <1>1, <1>3, <1>4, <1>5, <1>6, <1>7, <1>8, <1>9 DEF Next, Step

LEMMA InitOrderInv == Init => OrderInv
BY CostFacts DEF Init, Idle, NoResult, OrderInv, AnswerStands,
    EveryFrontierNodeIsQueued, EntriesAreLate, SettledInOrder, CurrentIsLast,
    Relaxed, TargetIsOpen

LEMMA NextOrderInv ==
    TypeInv /\ DistancesAreCosts /\ OrderInv /\ [Next]_vars => OrderInv'
<1>1. SUFFICES ASSUME TypeInv, DistancesAreCosts, OrderInv, [Next]_vars
               PROVE  OrderInv'
  OBVIOUS
<1>2. TypeInv'
  BY <1>1, NextTypeInv
<1>3. CASE \E a \in Algorithms, s, t \in 0 .. graph.node_count : Ask(a, s, t)
  BY <1>1, <1>2, <1>3, CallOrderInv
<1>4. CASE RejectId \/ RefuseHeuristic \/ WalkBack \/ Return
  BY <1>1, <1>2, <1>4, CallOrderInv
<1>5. CASE Begin
  BY <1>1, <1>5, BeginOrderInv
<1>6. CASE \E e \in queue : PopStale(e) \/ ReachTarget(e) \/ Expand(e)
  BY <1>1, <1>6, PopOrderInv
<1>7. CASE Exhaust \/ EndScan
  BY <1>1, <1>7, LeaveOrderInv
<1>8. CASE PassArc \/ Relax
  BY <1>1, <1>8, ScanOrderInv
<1>9. CASE UNCHANGED vars
  <2>1. UNCHANGED <<graph, pc, query, distance, settled, queue, current, cursor,
                    result>>
    BY <1>9 DEF vars, query
  <2>2. /\ Trusted' = Trusted /\ target' = target /\ source' = source
        /\ \A v : Priority(v)' = Priority(v)
    BY <2>1, SameQuery DEF Priority
  <2>3. AnswerStands' = AnswerStands /\ Relaxed' = Relaxed
    BY <2>1, <2>2 DEF AnswerStands, NoWalkBeats, Relaxed, Scanned
  <2>4. QED
    BY <1>1, <2>1, <2>2, <2>3
    DEF OrderInv, EveryFrontierNodeIsQueued, EntriesAreLate, SettledInOrder,
        CurrentIsLast, TargetIsOpen
<1>10. QED
  BY <1>1, <1>3, <1>4, <1>5, <1>6, <1>7, <1>8, <1>9 DEF Next, Step

\* Settling in order, by a heuristic that can be trusted, is kept.
THEOREM OrderInvariant ==
    Spec => [](TypeInv /\ DistancesAreCosts /\ OrderInv)
<1> DEFINE Inv == TypeInv /\ DistancesAreCosts /\ OrderInv
<1>1. Init => Inv
  BY InitTypeInv, InitOrderInv DEF Init, Idle, DistancesAreCosts
<1>2. Inv /\ [Next]_vars => Inv'
  BY NextTypeInv, NextCosts, NextOrderInv
<1>3. QED
  BY <1>1, <1>2, PTL DEF Spec

-----------------------------------------------------------------------------
(***************************************************************************)
(* The zero heuristic can be trusted, however additions round.             *)
(***************************************************************************)
LEMMA ZeroIsTrusted ==
    ASSUME TypeInv, algorithm # "astar_euclidean", Valid(source), Valid(target)
    PROVE  Trusted
<1>1. \A v : Estimate(v) = 0
  BY DEF Estimate
<1>2. Consistent
  <2>1. SUFFICES ASSUME NEW u \in Nodes(graph), NEW d \in Cost,
                        NEW k \in ArcsFrom(graph, u)
                 PROVE  Plus(d, 0) <= Plus(Plus(d, graph.arc[k].weight), 0)
    BY <1>1 DEF Consistent, RouteCosts
  <2>2. graph.arc[k].weight \in Cost
    BY ArcFacts DEF TypeInv
  <2>3. QED
    BY <2>2, PlusAssumption
<1>3. Cancels
  BY <1>1, PlusAssumption DEF Cancels, RouteCosts
<1>4. QED
  BY <1>2, <1>3 DEF Trusted

LEMMA AnswerIsCheapest ==
    ASSUME TypeInv, OrderInv, Accepted,
           Valid(source) /\ Valid(target) /\ ~Refused => Trusted
    PROVE  NoCheaperWalk
BY DEF OrderInv, AnswerStands, NoCheaperWalk, Accepted

(***************************************************************************)
(* Dijkstra and zero-heuristic A* answer with a cheapest route, or with    *)
(* "unreachable" only where every route overflows: on every graph, for     *)
(* every query, and in every arithmetic that satisfies PlusAssumption.     *)
(***************************************************************************)
THEOREM ZeroHeuristicIsOptimal == Spec => []ZeroHeuristicIsCheapest
<1>1. TypeInv /\ OrderInv /\ Accepted => ZeroHeuristicIsCheapest
  BY ZeroIsTrusted, AnswerIsCheapest DEF ZeroHeuristicIsCheapest
<1>2. QED
  BY OrderInvariant, AcceptedInvariant, <1>1, PTL

LEMMA SettledIsSkipped ==
    ASSUME TypeInv, DistancesAreCosts, OrderInv, Accepted,
           Valid(source) /\ Valid(target) /\ ~Refused => Trusted
    PROVE  SkipLosesNothing
<1>1. SUFFICES ASSUME pc = "scan", cursor \in ArcsFrom(graph, current),
                      next \in settled, Priority(current) < Infinity
               PROVE  ~(candidate < distance[next])
  BY DEF SkipLosesNothing, Improves
<1>2. Trusted /\ current \in Nodes(graph) /\ distance[current] \in Cost
  BY <1>1 DEF Accepted, TypeInv, TypeOK
<1>3. distance[next] <= candidate
  BY <1>1, <1>2, SettledIsFinal DEF OrderInv
<1>4. /\ next \in Nodes(graph) /\ distance[next] \in Cost
      /\ candidate \in Cost
  BY <1>1, <1>2, ArcFacts, PlusAssumption
  DEF TypeInv, TypeOK, next, arc, candidate
<1>5. QED
  BY <1>3, <1>4, CostFacts

(***************************************************************************)
(* For the same two, the scan loses nothing by not looking at a settled    *)
(* neighbour, however additions round; no node is expanded with a priority *)
(* that overflowed, so there is no exception to it.                        *)
(***************************************************************************)
THEOREM ZeroHeuristicSkipIsSound ==
    Spec => [](algorithm # "astar_euclidean" =>
                    /\ SkipLosesNothing
                    /\ pc = "scan" => Priority(current) < Infinity)
<1>1. ASSUME TypeInv, DistancesAreCosts, OrderInv, Accepted,
             algorithm # "astar_euclidean"
      PROVE  SkipLosesNothing
  BY <1>1, ZeroIsTrusted, SettledIsSkipped
<1>2. ASSUME TypeInv, algorithm # "astar_euclidean", pc = "scan"
      PROVE  Priority(current) < Infinity
  <2>1. distance[current] < Infinity /\ distance[current] \in Cost
    BY <1>2 DEF TypeInv, TypeOK, Reached
  <2>2. QED
    BY <1>2, <2>1, PlusAssumption DEF Priority, Estimate
<1>3. TypeInv /\ DistancesAreCosts /\ OrderInv /\ Accepted =>
        (algorithm # "astar_euclidean" =>
            /\ SkipLosesNothing
            /\ pc = "scan" => Priority(current) < Infinity)
  BY <1>1, <1>2
<1>4. QED
  BY OrderInvariant, AcceptedInvariant, <1>3, PTL

-----------------------------------------------------------------------------
(***************************************************************************)
(* The straight line can be trusted when additions do not round and the    *)
(* distance is a distance, on every graph that the metric report passes.   *)
(***************************************************************************)
TriangleInequality ==
    \A p, q, r \in Coord : Hypot(p, r) <= Hypot(p, q) + Hypot(q, r)

\* The report passes only when every arc is at least as long as it looks.
LEMMA MetricPasses ==
    ASSUME NEW g \in Graphs, g.metric.passes,
           NEW u \in Nodes(g), NEW k \in ArcsFrom(g, u)
    PROVE  Hypot(g.coordinate[u], g.coordinate[g.arc[k].target])
                <= g.arc[k].weight
<1>1. IsCsr(g) /\ ReportIsRight(g) /\ g.node_count \in Nat
  BY GraphFacts, GraphsAssumption DEF IsGraph
<1>2. Violations(g.node_count, g.coordinate, g.offset, g.arc) = {}
  <2> DEFINE report == MetricReport(g.node_count, g.coordinate, g.offset, g.arc)
             bad == Violations(g.node_count, g.coordinate, g.offset, g.arc)
  <2>1. report.passes <=> bad = {}
    BY Zenon DEF MetricReport
  <2>2. g.metric = report
    BY <1>1 DEF ReportIsRight
  <2>3. report.passes
    BY <2>2
  <2>4. QED
    BY <2>1, <2>3
<1>3. k \in DOMAIN g.arc
  BY <1>1, ArcFacts DEF IsCsr
<1>4. u \in 0 .. g.node_count - 1 /\ k \in g.offset[u] .. g.offset[u + 1] - 1
  BY DEF Nodes, ArcsFrom
<1>5. ~Violates(g.coordinate, u, g.arc[k])
  BY <1>2, <1>3, <1>4 DEF Violations
<1>6. /\ g.coordinate[u] \in Coord /\ g.coordinate[g.arc[k].target] \in Coord
      /\ g.arc[k].weight \in Cost
  BY <1>1, ArcFacts DEF IsCsr
<1>7. QED
  BY <1>5, <1>6, HypotAssumption, CostFacts DEF Violates

LEMMA EuclideanIsTrusted ==
    ASSUME ExactArithmetic, TriangleInequality, TypeInv,
           algorithm = "astar_euclidean",
           Valid(source), Valid(target), ~Refused
    PROVE  Trusted
<1>1. /\ graph \in Graphs /\ graph.metric.passes
      /\ \A v \in Nodes(graph) : graph.coordinate[v] \in Coord
      /\ target \in Nodes(graph)
  BY GraphFacts, EstimateAtTarget DEF TypeInv, Refused, IsCsr
<1>2. \A v \in Nodes(graph) : Estimate(v) \in Cost
  BY EstimateType
<1>3. Consistent
  <2>1. SUFFICES ASSUME NEW u \in Nodes(graph), NEW d \in Cost,
                        NEW k \in ArcsFrom(graph, u)
                 PROVE  Plus(d, Estimate(u))
                            <= Plus(Plus(d, graph.arc[k].weight),
                                    Estimate(graph.arc[k].target))
    BY DEF Consistent, RouteCosts
  <2> DEFINE v == graph.arc[k].target
             w == graph.arc[k].weight
  <2>2. v \in Nodes(graph) /\ w \in Cost
    BY <1>1, ArcFacts
  <2>3. Estimate(u) <= w + Estimate(v)
    <3>1. Hypot(graph.coordinate[u], graph.coordinate[v]) <= w
      BY <1>1, MetricPasses
    <3>2. Estimate(u) <= Hypot(graph.coordinate[u], graph.coordinate[v])
                            + Estimate(v)
      BY <1>1, <2>2 DEF TriangleInequality, Estimate
    <3>3. Hypot(graph.coordinate[u], graph.coordinate[v]) \in Cost
      BY <1>1, <2>2, HypotAssumption
    <3>4. QED
      BY <1>2, <2>2, <3>1, <3>2, <3>3, CostFacts
  <2> HIDE DEF v, w
  <2>4. /\ Estimate(u) \in Cost /\ Estimate(v) \in Cost
        /\ Plus(d, w) \in Cost
    BY <1>2, <2>2, PlusAssumption
  <2>5. Plus(d, Estimate(u)) <= Plus(Plus(d, w), Estimate(v))
    <3>1. Plus(d, Estimate(u)) = IF d + Estimate(u) < Infinity
                                 THEN d + Estimate(u) ELSE Infinity
      BY <2>4 DEF ExactArithmetic
    <3>2. Plus(d, w) = IF d + w < Infinity THEN d + w ELSE Infinity
      BY <2>2 DEF ExactArithmetic
    <3>3. Plus(Plus(d, w), Estimate(v)) =
                IF Plus(d, w) + Estimate(v) < Infinity
                THEN Plus(d, w) + Estimate(v) ELSE Infinity
      BY <2>4 DEF ExactArithmetic
    <3>4. /\ d \in Nat /\ w \in Nat /\ Infinity \in Nat
          /\ Estimate(u) \in Nat /\ Estimate(v) \in Nat
      BY <2>2, <2>4, CostFacts
    <3>5. QED
      BY <2>3, <3>1, <3>2, <3>3, <3>4
  <2>6. QED
    BY <2>5 DEF v, w
<1>4. Cancels
  <2>1. SUFFICES ASSUME NEW v \in Nodes(graph), NEW a \in Cost, NEW b \in Cost,
                        Plus(a, Estimate(v)) < Infinity,
                        Plus(a, Estimate(v)) <= Plus(b, Estimate(v))
                 PROVE  a <= b
    BY DEF Cancels, RouteCosts
  <2>2. QED
    <3>1. Plus(a, Estimate(v)) = IF a + Estimate(v) < Infinity
                                 THEN a + Estimate(v) ELSE Infinity
      BY <1>2 DEF ExactArithmetic
    <3>2. Plus(b, Estimate(v)) = IF b + Estimate(v) < Infinity
                                 THEN b + Estimate(v) ELSE Infinity
      BY <1>2 DEF ExactArithmetic
    <3>3. /\ a \in Nat /\ b \in Nat /\ Infinity \in Nat
          /\ Estimate(v) \in Nat
      BY <1>2, CostFacts
    <3>4. QED
      BY <2>1, <3>1, <3>2, <3>3
<1>5. QED
  BY <1>3, <1>4 DEF Trusted

(***************************************************************************)
(* In any arithmetic, and whatever it does to the triangle inequality,     *)
(* Euclidean A* answers a query with a cheapest route when the rounded sums*)
(* of the costs of that query's routes and the estimates come out in the   *)
(* right order.  The metric report does not see to that: it compares arcs, *)
(* one by one, and SearchRoundedEuclidean shows a graph that it passes.    *)
(***************************************************************************)
THEOREM EuclideanIsOptimal == Spec => [](Trusted => EuclideanIsCheapest)
<1>1. TypeInv /\ OrderInv /\ Accepted => (Trusted => EuclideanIsCheapest)
  BY AnswerIsCheapest DEF EuclideanIsCheapest
<1>2. QED
  BY OrderInvariant, AcceptedInvariant, <1>1, PTL

(***************************************************************************)
(* For such a query, of any of the three, the scan loses nothing by not    *)
(* looking at a settled neighbour, but for a node whose priority overflowed*)
(* although its distance did not: MCSearch's Remote graphs have such.      *)
(***************************************************************************)
THEOREM SkipIsSound == Spec => [](Trusted => SkipLosesNothing)
<1>1. TypeInv /\ DistancesAreCosts /\ OrderInv /\ Accepted
        => (Trusted => SkipLosesNothing)
  BY SettledIsSkipped
<1>2. QED
  BY OrderInvariant, AcceptedInvariant, <1>1, PTL

-----------------------------------------------------------------------------
(***************************************************************************)
(* Entries.  An improvement of a node is pushed with a priority that is no *)
(* more than what the node had, and less when nothing is added to it.      *)
(***************************************************************************)
LEMMA RelaxFacts ==
    ASSUME TypeInv, Relax, NEW n, n = next,
           NEW e, e = Entry(Plus(candidate, Estimate(next)), next,
                            stats.pq_pushes + 1)
    PROVE  /\ pc = "scan" /\ graph' = graph /\ pc' = pc /\ query' = query
           /\ settled' = settled
           /\ n \in Nodes(graph) /\ n \notin settled
           /\ queue' = queue \cup {e} /\ e.node = n
           /\ e.push = stats.pq_pushes + 1
           /\ \A v \in Nodes(graph) :
                distance'[v] = IF v = n THEN candidate ELSE distance[v]
           /\ \A v \in Nodes(graph) : v # n => Priority(v)' = Priority(v)
           /\ Priority(n)' = e.priority
           /\ e.priority \in Cost /\ Priority(n) \in Cost
           /\ e.priority <= Priority(n)
           /\ algorithm # "astar_euclidean" => e.priority < distance[n]
                                               /\ Priority(n) = distance[n]
<1>1. /\ pc = "scan" /\ graph' = graph /\ pc' = pc /\ query' = query
      /\ settled' = settled /\ cursor \in ArcsFrom(graph, current)
      /\ candidate < distance[n] /\ n \notin settled
      /\ distance' = [distance EXCEPT ![n] = candidate]
      /\ queue' = queue \cup {e}
  BY DEF Relax, Scan, Improves
<1>2. /\ graph \in Graphs /\ current \in Nodes(graph) /\ Valid(target)
      /\ distance \in [Nodes(graph) -> Cost]
  BY <1>1 DEF TypeInv, TypeOK
<1>3. n \in Nodes(graph) /\ candidate \in Cost
  BY <1>1, <1>2, ArcFacts, PlusAssumption DEF next, arc, candidate
<1>4. /\ e.node = n /\ e.push = stats.pq_pushes + 1
      /\ e.priority = Plus(candidate, Estimate(n))
  BY DEF Entry
<1>5. \A v \in Nodes(graph) :
            distance'[v] = IF v = n THEN candidate ELSE distance[v]
  BY <1>1, <1>2
<1>6. \A v : Estimate(v)' = Estimate(v)
  BY <1>1, SameQuery
<1>7. Estimate(n) \in Cost /\ distance[n] \in Cost /\ Priority(n) \in Cost
  BY <1>2, <1>3, PriorityType
<1>8. /\ Priority(n)' = e.priority
      /\ \A v \in Nodes(graph) : v # n => Priority(v)' = Priority(v)
  BY <1>3, <1>4, <1>5, <1>6 DEF Priority
<1>9. candidate <= distance[n]
  BY <1>1, <1>3, <1>7, CostFacts
<1>10. e.priority \in Cost /\ e.priority <= Priority(n)
  <2> HIDE DEF candidate
  <2>1. Plus(candidate, Estimate(n)) \in Cost
    BY <1>3, <1>7, PlusAssumption
  <2>2. Plus(candidate, Estimate(n)) <= Plus(distance[n], Estimate(n))
    BY <1>3, <1>7, <1>9, PlusAssumption
  <2>3. QED
    BY <1>4, <2>1, <2>2 DEF Priority
<1>11. ASSUME algorithm # "astar_euclidean"
       PROVE  e.priority < distance[n] /\ Priority(n) = distance[n]
  <2>1. Estimate(n) = 0
    BY <1>11 DEF Estimate
  <2>2. Plus(candidate, 0) = candidate /\ Plus(distance[n], 0) = distance[n]
    BY <1>3, <1>7, PlusAssumption
  <2>3. QED
    BY <1>1, <1>4, <2>1, <2>2 DEF Priority
<1>12. QED
  BY <1>1, <1>3, <1>4, <1>5, <1>7, <1>8, <1>10, <1>11

LEMMA BeginFacts ==
    ASSUME TypeInv, Begin
    PROVE  /\ pc = "check" /\ pc' = "loop" /\ settled' = {}
           /\ graph' = graph /\ query' = query /\ source \in Nodes(graph)
           /\ \A v \in Nodes(graph) :
                distance'[v] = IF v = source THEN 0 ELSE Infinity
           /\ queue' = {Entry(Estimate(source), source, 1)}
           /\ \A v \in Nodes(graph) : v = source =>
                Priority(v)' = Estimate(source)
           /\ Estimate(source) \in Cost
<1>1. /\ Valid(source) /\ Valid(target) /\ pc = "check" /\ pc' = "loop"
      /\ graph' = graph /\ query' = query /\ settled' = settled
      /\ settled = {} /\ distance = [v \in Nodes(graph) |-> Infinity]
      /\ distance' = [distance EXCEPT ![source] = 0]
      /\ queue' = {Entry(Estimate(source), source, 1)}
  BY DEF TypeInv, Begin, Fresh
<1>2. source \in Nodes(graph)
  BY <1>1, GraphFacts DEF TypeInv, TypeOK, Valid, Nodes
<1>3. \A v \in Nodes(graph) : distance'[v] = IF v = source THEN 0 ELSE Infinity
  BY <1>1, <1>2
<1>4. Estimate(source) \in Cost
  BY <1>1, <1>2, PriorityType
<1>5. Plus(0, Estimate(source)) = Estimate(source)
  BY <1>4, CostFacts, PlusAssumption
<1>6. ASSUME NEW v \in Nodes(graph), v = source
      PROVE  Priority(v)' = Estimate(source)
  BY <1>1, <1>3, <1>5, <1>6, SameQuery DEF Priority
<1>7. QED
  BY <1>1, <1>2, <1>3, <1>4, <1>6

-----------------------------------------------------------------------------
(***************************************************************************)
(* Lazy deletion.  A pop takes no entry of a node that is still open, and  *)
(* an improvement pushes the entry that the node needs next.               *)
(***************************************************************************)
LEMMA NextFrontier ==
    TypeInv /\ EveryFrontierNodeIsQueued /\ [Next]_vars
        => EveryFrontierNodeIsQueued'
<1>1. SUFFICES ASSUME TypeInv, EveryFrontierNodeIsQueued, [Next]_vars,
                      pc' \in {"loop", "scan"}
               PROVE  EveryFrontierNodeIsQueued'
  BY DEF EveryFrontierNodeIsQueued
<1>2. CASE Begin
  <2>1. /\ pc' = "loop" /\ settled' = {} /\ graph' = graph
        /\ \A v \in Nodes(graph) :
                distance'[v] = IF v = source THEN 0 ELSE Infinity
        /\ queue' = {Entry(Estimate(source), source, 1)}
        /\ \A v \in Nodes(graph) : v = source =>
                Priority(v)' = Estimate(source)
        /\ Estimate(source) \in Cost
    BY <1>1, <1>2, BeginFacts
  <2>2. QED
    BY <2>1, CostFacts DEF EveryFrontierNodeIsQueued, Entry
<1>3. ASSUME NEW e \in queue, PopStale(e) \/ Expand(e)
      PROVE  EveryFrontierNodeIsQueued'
  <2>1. /\ pc = "loop" /\ queue' = queue \ {e} /\ graph' = graph
        /\ query' = query /\ distance' = distance
        /\ settled' = settled \cup {e.node}
    BY <1>3 DEF PopStale, Expand, Settle, Pop
  <2>2. \A v : Priority(v)' = Priority(v)
    BY <2>1, SameQuery DEF Priority
  <2>3. QED
    BY <1>1, <2>1, <2>2 DEF EveryFrontierNodeIsQueued
<1>4. CASE EndScan \/ PassArc \/ UNCHANGED vars
  <2>1. /\ graph' = graph /\ query' = query /\ distance' = distance
        /\ settled' = settled /\ queue' = queue /\ pc \in {"loop", "scan"}
    BY <1>1, <1>4 DEF EndScan, PassArc, Scan, tables, vars, query
  <2>2. \A v : Priority(v)' = Priority(v)
    BY <2>1, SameQuery DEF Priority
  <2>3. QED
    BY <1>1, <2>1, <2>2 DEF EveryFrontierNodeIsQueued
<1>5. CASE Relax
  <2>1. PICK n, e : n = next /\ e = Entry(Plus(candidate, Estimate(next)), next,
                                         stats.pq_pushes + 1)
    OBVIOUS
  <2>2. /\ pc = "scan" /\ graph' = graph /\ pc' = pc
        /\ settled' = settled
        /\ n \in Nodes(graph) /\ n \notin settled
        /\ queue' = queue \cup {e} /\ e.node = n
        /\ \A v \in Nodes(graph) :
                distance'[v] = IF v = n THEN candidate ELSE distance[v]
        /\ \A v \in Nodes(graph) : v # n => Priority(v)' = Priority(v)
        /\ Priority(n)' = e.priority
        /\ e.priority \in Cost /\ Priority(n) \in Cost
        /\ e.priority <= Priority(n)
    BY <1>1, <1>5, <2>1, RelaxFacts
  <2>3. SUFFICES ASSUME NEW v \in Nodes(graph), v \notin settled,
                        distance'[v] < Infinity
                 PROVE  /\ \E f \in queue' : /\ f.node = v
                                              /\ f.priority = Priority(v)'
                        /\ \A f \in queue' : f.node = v =>
                                Priority(v)' <= f.priority
    BY <2>2 DEF EveryFrontierNodeIsQueued
  <2>4. CASE v # n
    BY <1>1, <2>2, <2>3, <2>4 DEF EveryFrontierNodeIsQueued
  <2>5. CASE v = n
    <3>1. ASSUME NEW f \in queue, f.node = n PROVE e.priority <= f.priority
      <4>1. distance[n] < Infinity /\ f.priority \in Cost
        BY <1>1, <2>2, <3>1 DEF TypeInv, TypeOK, Reached
      <4>2. Priority(n) <= f.priority
        BY <1>1, <2>2, <3>1, <4>1 DEF EveryFrontierNodeIsQueued
      <4>3. QED
        BY <2>2, <4>1, <4>2, CostFacts
    <3>2. e.priority <= e.priority
      BY <2>2, CostFacts
    <3>3. QED
      BY <2>2, <2>5, <3>1, <3>2
  <2>6. QED
    BY <2>4, <2>5
<1>6. QED
  BY <1>1, <1>2, <1>3, <1>4, <1>5
  DEF Next, Step, Ask, RejectId, RefuseHeuristic, Throw, ReachTarget, Exhaust,
      WalkBack, Return

(***************************************************************************)
(* A node that was reached and not settled has an entry with its latest    *)
(* priority and none that is better, for every heuristic and arithmetic:   *)
(* what lazy deletion leaves in the queue hides nothing that is needed.    *)
(***************************************************************************)
THEOREM FrontierIsQueued == Spec => []EveryFrontierNodeIsQueued
<1>1. Init => EveryFrontierNodeIsQueued
  BY DEF Init, Idle, EveryFrontierNodeIsQueued
<1>2. QED
  BY TypeInvariant, <1>1, NextFrontier, PTL DEF Spec

-----------------------------------------------------------------------------
(***************************************************************************)
(* Without a straight line a push is less than everything queued for its   *)
(* node, so no two entries are equal.                                      *)
(***************************************************************************)
LEMMA NextDistinct ==
    TypeInv /\ EveryFrontierNodeIsQueued /\ EntriesAreDistinct /\ [Next]_vars
        => EntriesAreDistinct'
<1>1. SUFFICES ASSUME TypeInv, EveryFrontierNodeIsQueued, EntriesAreDistinct,
                      [Next]_vars
               PROVE  EntriesAreDistinct'
  OBVIOUS
<1>2. CASE Begin
  BY <1>1, <1>2, BeginFacts DEF EntriesAreDistinct
<1>3. CASE queue' \subseteq queue /\ algorithm' = algorithm
  BY <1>1, <1>3 DEF EntriesAreDistinct
<1>4. CASE queue' = {}
  BY <1>4 DEF EntriesAreDistinct
<1>5. CASE Relax
  <2>1. PICK n, e : n = next /\ e = Entry(Plus(candidate, Estimate(next)), next,
                                         stats.pq_pushes + 1)
    OBVIOUS
  <2>2. /\ pc = "scan" /\ query' = query
        /\ n \in Nodes(graph) /\ n \notin settled
        /\ queue' = queue \cup {e} /\ e.node = n
        /\ e.priority \in Cost
        /\ algorithm # "astar_euclidean" => e.priority < distance[n]
                                            /\ Priority(n) = distance[n]
    BY <1>1, <1>5, <2>1, RelaxFacts
  <2>3. algorithm' = algorithm
    BY <2>2 DEF query
  <2>4. ASSUME NEW f \in queue, f.node = n, algorithm # "astar_euclidean"
        PROVE  f.priority # e.priority
    <3>1. /\ distance[n] < Infinity /\ f.priority \in Cost
          /\ distance[n] \in Cost
      BY <1>1, <2>2, <2>4 DEF TypeInv, TypeOK, Reached
    <3>2. Priority(n) <= f.priority
      BY <1>1, <2>2, <2>4, <3>1 DEF EveryFrontierNodeIsQueued
    <3>3. QED
      BY <2>2, <2>4, <3>1, <3>2, CostFacts
  <2>5. QED
    BY <1>1, <2>2, <2>3, <2>4 DEF EntriesAreDistinct
<1>6. CASE \E a \in Algorithms, s, t \in 0 .. graph.node_count : Ask(a, s, t)
  BY <1>1, <1>4, <1>6 DEF Ask, tables, TypeInv, Fresh
<1>7. CASE \E e \in queue : PopStale(e) \/ ReachTarget(e) \/ Expand(e)
  BY <1>3, <1>7 DEF PopStale, ReachTarget, Expand, Settle, Pop, query
<1>8. CASE \/ RejectId \/ RefuseHeuristic \/ Exhaust \/ PassArc \/ EndScan
           \/ WalkBack \/ UNCHANGED vars
  BY <1>3, <1>8 DEF RejectId, RefuseHeuristic, Throw, Exhaust, PassArc, Scan,
                    EndScan, WalkBack, tables, query, vars
<1>9. CASE Return
  BY <1>4, <1>9 DEF Return
<1>10. QED
  BY <1>1, <1>2, <1>5, <1>6, <1>7, <1>8, <1>9 DEF Next, Step

(***************************************************************************)
(* search.cpp says of the queue that its (priority, node) pairs are        *)
(* distinct.  They are for dijkstra and astar_zero, in any arithmetic, so  *)
(* that their pop order leaves nothing to chance.                          *)
(***************************************************************************)
THEOREM ZeroHeuristicIsDeterministic == Spec => []EntriesAreDistinct
<1>1. Init => EntriesAreDistinct
  BY DEF Init, Idle, EntriesAreDistinct
<1>2. QED
  BY TypeInvariant, FrontierIsQueued, <1>1, NextDistinct, PTL DEF Spec

-----------------------------------------------------------------------------
(***************************************************************************)
(* Order of settling.  A query that was refused settled nothing; every     *)
(* other one is served with a heuristic that can be trusted.               *)
(***************************************************************************)
LEMMA NextRefusedIsClean ==
    TypeInv /\ RefusedIsClean /\ [Next]_vars => RefusedIsClean'
<1>1. SUFFICES ASSUME TypeInv, RefusedIsClean, [Next]_vars,
                      result'.status \in {"out_of_range", "contract_error"}
               PROVE  settled' = {} /\ queue' = {}
  BY DEF RefusedIsClean
<1>2. pc \in {"idle", "check", "loop", "scan"} =>
            result.status = "none"
  BY <1>1 DEF TypeInv, Unanswered, NoResult
<1>3. CASE RejectId \/ RefuseHeuristic
  BY <1>1, <1>3 DEF RejectId, RefuseHeuristic, Throw, tables, TypeInv, Fresh
<1>4. CASE \/ \E a \in Algorithms, s, t \in 0 .. graph.node_count : Ask(a, s, t)
           \/ Begin \/ PassArc \/ Relax \/ EndScan
  BY <1>1, <1>2, <1>4 DEF Ask, Begin, PassArc, Relax, Scan, EndScan
<1>5. CASE \E e \in queue : PopStale(e) \/ ReachTarget(e) \/ Expand(e)
  BY <1>1, <1>2, <1>5 DEF PopStale, ReachTarget, Expand, Settle, Pop
<1>6. CASE Exhaust
  BY <1>1, <1>2, <1>6 DEF Exhaust, TypeInv, TypeOK
<1>7. CASE WalkBack
  BY <1>1, <1>7 DEF WalkBack, tables, TypeInv, TypeOK, RefusedIsClean
<1>8. CASE Return
  BY <1>8 DEF Return
<1>9. CASE UNCHANGED vars
  BY <1>1, <1>9 DEF vars, RefusedIsClean
<1>10. QED
  BY <1>1, <1>3, <1>4, <1>5, <1>6, <1>7, <1>8, <1>9 DEF Next, Step

LEMMA TrustedIsInOrder ==
    ASSUME TypeInv, OrderInv, Accepted, Served, RefusedIsClean,
           Valid(source) /\ Valid(target) /\ ~Refused => Trusted
    PROVE  SettledInOrder
<1>1. CASE settled = {} \/ queue = {}
  BY <1>1 DEF SettledInOrder
<1>2. CASE settled # {} /\ queue # {}
  <2>1. pc \notin {"idle", "check"}
    BY <1>2 DEF TypeInv, Fresh
  <2>2. result.status \notin {"out_of_range", "contract_error"}
    BY <1>2 DEF RefusedIsClean
  <2>3. pc \in {"loop", "scan", "walk"} \/ result.status \in {"found", "unreachable"}
    BY <2>1, <2>2 DEF TypeInv, TypeOK, Statuses, Served
  <2>4. QED
    BY <2>3 DEF Accepted, OrderInv
<1>3. QED
  BY <1>1, <1>2

LEMMA RefusedInvariant == Spec => []RefusedIsClean
<1>1. Init => RefusedIsClean
  BY DEF Init, Idle, RefusedIsClean
<1>2. QED
  BY TypeInvariant, <1>1, NextRefusedIsClean, PTL DEF Spec

(***************************************************************************)
(* Dijkstra and zero-heuristic A* settle nodes in order of their distance, *)
(* in any arithmetic.                                                      *)
(***************************************************************************)
THEOREM ZeroHeuristicSettlesInOrder ==
    Spec => [](algorithm # "astar_euclidean" => SettledInOrder)
<1>1. TypeInv /\ OrderInv /\ Accepted /\ Served /\ RefusedIsClean
        => (algorithm # "astar_euclidean" => SettledInOrder)
  BY ZeroIsTrusted, TrustedIsInOrder
<1>2. QED
  BY OrderInvariant, AcceptedInvariant, ServedInvariant, RefusedInvariant,
     <1>1, PTL

(***************************************************************************)
(* All three settle nodes in order of priority, in any arithmetic, for a   *)
(* query whose sums come out in the right order: nothing still queued comes*)
(* before a node already settled.                                          *)
(***************************************************************************)
THEOREM NodesSettleInOrder == Spec => [](Trusted => SettledInOrder)
<1>1. TypeInv /\ OrderInv /\ Accepted /\ Served /\ RefusedIsClean
        => (Trusted => SettledInOrder)
  BY TrustedIsInOrder
<1>2. QED
  BY OrderInvariant, AcceptedInvariant, ServedInvariant, RefusedInvariant,
     <1>1, PTL

-----------------------------------------------------------------------------
(***************************************************************************)
(* The counters.  One relation at a time: what the queue has given up and  *)
(* taken in, and which arcs have been examined.                            *)
(***************************************************************************)
LEMMA CountFacts ==
    ASSUME NEW counted
    PROVE  \A c \in Counters :
            Count(counted)[c] = IF c \in counted THEN stats[c] + 1 ELSE stats[c]
BY DEF Count

LEMMA SettledSize ==
    ASSUME NEW g \in Graphs, NEW S \in SUBSET Nodes(g), NEW v \in Nodes(g),
           v \notin S
    PROVE  /\ Cardinality(S) \in Nat
           /\ Cardinality(S \cup {v}) = Cardinality(S) + 1
<1>1. g.node_count - 1 \in Int
  BY GraphFacts
<1>2. IsFiniteSet(Nodes(g))
  BY <1>1, FS_Interval DEF Nodes
<1>3. IsFiniteSet(S)
  BY <1>2, FS_Subset
<1>4. QED
  BY <1>3, FS_CardinalityType, FS_AddElement

LEMMA ExaminedSize ==
    ASSUME NEW g \in Graphs, NEW E \in SUBSET Arcs(g)
    PROVE  /\ IsFiniteSet(E) /\ Cardinality(E) \in Nat
           /\ Cardinality(E) <= g.arc_count
<1>1. g.arc_count \in Nat
  BY GraphFacts, LimitAssumption DEF IsCsr
<1>2. /\ IsFiniteSet(Arcs(g))
      /\ Cardinality(Arcs(g)) = g.arc_count
  <2> DEFINE m == g.arc_count
  <2> HIDE DEF m
  <2>1. m \in Nat /\ 0 \in Int /\ m - 1 \in Int /\ Arcs(g) = 0 .. m - 1
    BY <1>1 DEF m, Arcs
  <2>2. /\ IsFiniteSet(0 .. m - 1)
        /\ Cardinality(0 .. m - 1)
                = IF 0 > m - 1 THEN 0 ELSE (m - 1) - 0 + 1
    BY <2>1, FS_Interval
  <2>3. QED
    BY <2>1, <2>2 DEF m
<1>3. IsFiniteSet(E) /\ Cardinality(E) <= Cardinality(Arcs(g))
  BY <1>2, FS_Subset
<1>4. Cardinality(E) \in Nat
  BY <1>3, FS_CardinalityType
<1>5. QED
  BY <1>2, <1>3, <1>4

\* The arcs that count as examined, after each kind of step.
LEMMA ExaminedStays ==
    ASSUME TypeInv, graph' = graph, query' = query,
           pc \in {"loop", "scan", "walk"},
           \/ settled' = settled /\ pc' = pc /\ pc # "scan"
           \/ settled' = settled /\ EndScan
           \/ \E e \in queue : ReachTarget(e) \/ Expand(e)
    PROVE  Examined' = Examined
<1>1. target' = target
  BY DEF query
<1>2. CASE settled' = settled /\ pc' = pc /\ pc # "scan"
  BY <1>1, <1>2 DEF Examined, Scanned
<1>3. CASE settled' = settled /\ EndScan
  <2>1. /\ pc = "scan" /\ pc' = "loop" /\ current \in Nodes(graph)
        /\ cursor \notin ArcsFrom(graph, current)
        /\ cursor \in graph.offset[current] .. graph.offset[current + 1]
        /\ graph \in Graphs
    BY <1>3 DEF EndScan, TypeInv, TypeOK
  <2>2. \A k \in ArcsFrom(graph, current) : k < cursor
    BY <2>1, RowFacts DEF ArcsFrom
  <2>3. QED
    BY <1>1, <1>3, <2>1, <2>2 DEF Examined, Scanned
<1>4. CASE \E e \in queue : ReachTarget(e)
  BY <1>1, <1>4 DEF ReachTarget, Settle, Pop, Examined, Scanned
<1>5. CASE \E e \in queue : Expand(e)
  <2>1. PICK e \in queue : Expand(e)
    BY <1>5
  <2>2. /\ pc = "loop" /\ pc' = "scan" /\ settled' = settled \cup {e.node}
        /\ e.node \notin settled /\ current' = e.node
        /\ cursor' = graph.offset[e.node] /\ e.node \in Nodes(graph)
        /\ graph \in Graphs
    BY <2>1 DEF Expand, Settle, Pop, TypeInv, TypeOK
  <2>3. \A k \in ArcsFrom(graph, e.node) : ~(k < cursor')
    BY <2>2, RowFacts DEF ArcsFrom
  <2>4. QED
    BY <1>1, <2>2, <2>3 DEF Examined, Scanned
<1>6. QED
  BY <1>2, <1>3, <1>4, <1>5

LEMMA ExaminedGrows ==
    ASSUME TypeInv, ArcsAreCounted, PassArc \/ Relax
    PROVE  /\ Examined' = Examined \cup {cursor}
           /\ cursor \notin Examined /\ cursor \in Arcs(graph)
<1>1. /\ pc = "scan" /\ pc' = pc /\ graph' = graph /\ query' = query
      /\ settled' = settled /\ current' = current /\ cursor' = cursor + 1
      /\ cursor \in ArcsFrom(graph, current) /\ current # target
      /\ graph \in Graphs /\ settled \subseteq Nodes(graph)
      /\ current \in settled /\ target' = target /\ cursor \in Nat
  BY DEF PassArc, Relax, Scan, TypeInv, TypeOK, ArcsAreCounted, query
<1>2. cursor \in Arcs(graph)
  BY <1>1, ArcFacts
<1>3. \A u \in settled : cursor \in ArcsFrom(graph, u) => u = current
  BY <1>1, RowsAreDisjoint
<1>4. cursor \notin Examined
  BY <1>1, <1>3 DEF Examined, Scanned
<1>5. \A k \in Arcs(graph) : k < cursor + 1 <=> k < cursor \/ k = cursor
  <2>1. graph.arc_count \in Nat
    BY <1>1, GraphFacts, LimitAssumption DEF IsCsr
  <2>2. QED
    BY <1>1, <2>1 DEF Arcs
<1>6. Examined' = Examined \cup {cursor}
  <2>1. ASSUME NEW k \in Arcs(graph), NEW u \in settled \ {target},
               k \in ArcsFrom(graph, u)
        PROVE  Scanned(u, k)' <=> Scanned(u, k) \/ k = cursor
    BY <1>1, <1>3, <1>5, <2>1 DEF Scanned
  <2>2. QED
    BY <1>1, <1>2, <2>1 DEF Examined
<1>7. QED
  BY <1>2, <1>4, <1>6

\* What the counters say between them, as numbers.
LEMMA CounterFacts ==
    ASSUME TypeInv
    PROVE  /\ stats.pq_pushes \in Nat /\ stats.pq_pops \in Nat
           /\ stats.stale_pops \in Nat /\ stats.nodes_expanded \in Nat
           /\ stats.arcs_examined \in Nat /\ stats.relaxations \in Nat
           /\ stats.max_queue_size \in Nat /\ Cardinality(queue) \in Nat
BY FS_CardinalityType DEF TypeInv, TypeOK, Counters

\* Calls that count nothing.
LEMMA CallCountInv ==
    ASSUME TypeInv, CountInv,
           \/ \E a \in Algorithms, s, t \in 0 .. graph.node_count : Ask(a, s, t)
           \/ RejectId \/ RefuseHeuristic \/ Exhaust \/ EndScan
           \/ WalkBack \/ Return \/ UNCHANGED vars
    PROVE  CountInv'
<1>1. CASE \E a \in Algorithms, s, t \in 0 .. graph.node_count : Ask(a, s, t)
  BY <1>1 DEF Ask, tables, CountInv, CountersAgree, Uncounted,
              PushesAreNumbered, ArcsAreCounted, Running
<1>2. CASE RejectId \/ RefuseHeuristic \/ Exhaust
  BY <1>2 DEF RejectId, RefuseHeuristic, Throw, Exhaust, tables, CountInv,
              CountersAgree, Uncounted, PushesAreNumbered, ArcsAreCounted,
              Running
<1>3. CASE Return
  BY <1>3 DEF Return, CountInv, CountersAgree, Uncounted, PushesAreNumbered,
              ArcsAreCounted, Running
<1>4. CASE EndScan
  <2>1. Examined' = Examined
    BY <1>4, ExaminedStays DEF EndScan, tables
  <2>2. QED
    BY <1>4, <2>1 DEF EndScan, tables, CountInv, CountersAgree, Uncounted,
                      PushesAreNumbered, ArcsAreCounted, Running
<1>5. CASE WalkBack \/ UNCHANGED vars
  <2>1. /\ graph' = graph /\ query' = query /\ settled' = settled
        /\ queue' = queue /\ stats' = stats /\ current' = current
        /\ cursor' = cursor
        /\ (pc' = pc) \/ (pc = "walk" /\ pc' = "done")
    <3>1. CASE WalkBack
      BY <3>1 DEF WalkBack, tables
    <3>2. CASE UNCHANGED vars
      BY <3>2 DEF vars, query
    <3>3. QED
      BY <1>5, <3>1, <3>2
  <2>2. Running' => Running /\ Examined' = Examined
    BY <2>1 DEF Running, Examined, Scanned, query
  <2>3. QED
    BY <2>1, <2>2 DEF CountInv, CountersAgree, Uncounted, PushesAreNumbered,
                      ArcsAreCounted, Running, query
<1>6. QED
  BY <1>1, <1>2, <1>3, <1>4, <1>5

LEMMA BeginCountInv ==
    ASSUME TypeInv, CountInv, Begin
    PROVE  CountInv'
<1> DEFINE e == Entry(Estimate(source), source, 1)
<1>1. /\ pc = "check" /\ pc' = "loop" /\ settled' = {} /\ queue' = {e}
      /\ graph' = graph
  BY BeginFacts
<1>2. e.push = 1
  BY DEF Entry
<1> HIDE DEF e
<1>3. \A c \in Counters : stats'[c] =
            IF c \in {"pq_pushes", "max_queue_size"} THEN 1 ELSE 0
  BY <1>1 DEF Begin, CountInv, Uncounted, Count, NoStats
<1>4. /\ stats'.pq_pushes = 1 /\ stats'.max_queue_size = 1
      /\ stats'.relaxations = 0 /\ stats'.pq_pops = 0
      /\ stats'.nodes_expanded = 0 /\ stats'.stale_pops = 0
      /\ stats'.arcs_examined = 0
  BY <1>3 DEF Counters
<1>5. Cardinality(queue') = 1 /\ Cardinality(settled') = 0
  BY <1>1, FS_Singleton, FS_EmptySet
<1>6. 0 <= graph.arc_count
  BY GraphFacts, LimitAssumption DEF TypeInv, IsCsr
<1>7. CountersAgree'
  BY <1>1, <1>4, <1>5, <1>6 DEF CountersAgree
<1>8. Examined' = {}
  BY <1>1 DEF Examined
<1>9. QED
  BY <1>1, <1>2, <1>4, <1>7, <1>8, FS_EmptySet
  DEF CountInv, Uncounted, PushesAreNumbered, ArcsAreCounted

LEMMA PopCountInv ==
    ASSUME TypeInv, CountInv, NEW e \in queue,
           PopStale(e) \/ ReachTarget(e) \/ Expand(e)
    PROVE  CountInv'
<1>1. /\ pc = "loop" /\ pc' \in {"loop", "scan", "walk"}
      /\ queue' = queue \ {e} /\ graph' = graph /\ query' = query
      /\ graph \in Graphs /\ e.node \in Nodes(graph)
      /\ settled \in SUBSET Nodes(graph)
      /\ pc' = "scan" => current' # target'
  BY DEF PopStale, ReachTarget, Expand, Settle, Pop, TypeInv, TypeOK, query
<1>2. Cardinality(queue') = Cardinality(queue) - 1
  BY <1>1, FS_RemoveElement DEF TypeInv
<1>3. Examined' = Examined
  BY <1>1, ExaminedStays DEF PopStale
<1>4. /\ stats.pq_pushes = stats.relaxations + 1
      /\ stats.pq_pushes = stats.pq_pops + Cardinality(queue)
      /\ stats.pq_pops = stats.nodes_expanded + stats.stale_pops
      /\ stats.nodes_expanded = Cardinality(settled)
      /\ stats.relaxations <= stats.arcs_examined
      /\ stats.arcs_examined <= graph.arc_count
      /\ stats.max_queue_size >= Cardinality(queue)
      /\ stats.max_queue_size <= stats.pq_pushes
      /\ stats.arcs_examined = Cardinality(Examined)
  BY <1>1 DEF CountInv, CountersAgree, ArcsAreCounted, Running
<1>5. /\ stats'.pq_pushes = stats.pq_pushes
      /\ stats'.pq_pops = stats.pq_pops + 1
      /\ stats'.relaxations = stats.relaxations
      /\ stats'.arcs_examined = stats.arcs_examined
      /\ stats'.max_queue_size = stats.max_queue_size
      /\ \/ /\ settled' = settled
            /\ stats'.stale_pops = stats.stale_pops + 1
            /\ stats'.nodes_expanded = stats.nodes_expanded
         \/ /\ settled' = settled \cup {e.node} /\ e.node \notin settled
            /\ stats'.stale_pops = stats.stale_pops
            /\ stats'.nodes_expanded = stats.nodes_expanded + 1
  <2>1. CASE PopStale(e)
    BY <2>1, CountFacts DEF PopStale, Counters
  <2>2. CASE ReachTarget(e) \/ Expand(e)
    BY <2>2, CountFacts DEF ReachTarget, Expand, Settle, Counters
  <2>3. QED
    BY <2>1, <2>2
<1>6. stats'.nodes_expanded = Cardinality(settled')
  BY <1>1, <1>4, <1>5, SettledSize
<1>7. CountersAgree'
  BY <1>1, <1>2, <1>4, <1>5, <1>6, CounterFacts DEF CountersAgree
<1>8. PushesAreNumbered'
  BY <1>1, <1>5 DEF CountInv, PushesAreNumbered
<1>9. QED
  BY <1>1, <1>3, <1>4, <1>5, <1>7, <1>8 DEF CountInv, Uncounted, ArcsAreCounted

LEMMA ScanCountInv ==
    ASSUME TypeInv, CountInv, PassArc \/ Relax
    PROVE  CountInv'
<1>1. /\ pc = "scan" /\ pc' = "scan" /\ graph' = graph /\ query' = query
      /\ graph \in Graphs /\ settled' = settled /\ current' = current
      /\ target' = target
  BY DEF PassArc, Relax, Scan, TypeInv, query
<1>2. /\ Examined' = Examined \cup {cursor} /\ cursor \notin Examined
      /\ cursor \in Arcs(graph)
  BY ExaminedGrows DEF CountInv
<1>3. /\ Cardinality(Examined') = Cardinality(Examined) + 1
      /\ Cardinality(Examined') <= graph.arc_count
  <2>1. Examined \in SUBSET Arcs(graph) /\ Examined' \in SUBSET Arcs(graph)
    BY <1>2 DEF Examined
  <2>2. IsFiniteSet(Examined) /\ Cardinality(Examined') <= graph.arc_count
    BY <1>1, <2>1, ExaminedSize
  <2>3. QED
    BY <1>2, <2>2, FS_AddElement
<1>4. /\ stats.pq_pushes = stats.relaxations + 1
      /\ stats.pq_pushes = stats.pq_pops + Cardinality(queue)
      /\ stats.pq_pops = stats.nodes_expanded + stats.stale_pops
      /\ stats.nodes_expanded = Cardinality(settled)
      /\ stats.relaxations <= stats.arcs_examined
      /\ stats.max_queue_size >= Cardinality(queue)
      /\ stats.max_queue_size <= stats.pq_pushes
      /\ stats.arcs_examined = Cardinality(Examined)
      /\ current # target
  BY <1>1 DEF CountInv, CountersAgree, ArcsAreCounted, Running
<1>5. CASE PassArc
  <2>1. /\ \A c \in Counters \ {"arcs_examined"} : stats'[c] = stats[c]
        /\ stats'.arcs_examined = stats.arcs_examined + 1
        /\ queue' = queue
    BY <1>5, CountFacts DEF PassArc, Counters
  <2>2. /\ stats'.pq_pushes = stats.pq_pushes
        /\ stats'.pq_pops = stats.pq_pops
        /\ stats'.relaxations = stats.relaxations
        /\ stats'.max_queue_size = stats.max_queue_size
        /\ stats'.stale_pops = stats.stale_pops
        /\ stats'.nodes_expanded = stats.nodes_expanded
    BY <2>1 DEF Counters
  <2>3. CountersAgree'
    BY <1>1, <1>3, <1>4, <2>1, <2>2, CounterFacts DEF CountersAgree
  <2>4. PushesAreNumbered'
    BY <2>1, <2>2 DEF CountInv, PushesAreNumbered
  <2>5. QED
    BY <1>1, <1>3, <1>4, <2>1, <2>3, <2>4 DEF CountInv, Uncounted, ArcsAreCounted
<1>6. CASE Relax
  <2>1. PICK n, e : n = next /\ e = Entry(Plus(candidate, Estimate(next)), next,
                                         stats.pq_pushes + 1)
    OBVIOUS
  <2>2. queue' = queue \cup {e} /\ e.push = stats.pq_pushes + 1
    BY <1>6, <2>1, RelaxFacts
  <2>3. e \notin queue /\ stats.pq_pushes \in Nat
    BY <2>2, CounterFacts DEF CountInv, PushesAreNumbered, TypeInv, TypeOK
  <2>4. Cardinality(queue') = Cardinality(queue) + 1
    BY <2>2, <2>3, FS_AddElement DEF TypeInv
  <2>5. /\ stats'.pq_pushes = stats.pq_pushes + 1
        /\ stats'.pq_pops = stats.pq_pops
        /\ stats'.relaxations = stats.relaxations + 1
        /\ stats'.arcs_examined = stats.arcs_examined + 1
        /\ stats'.stale_pops = stats.stale_pops
        /\ stats'.nodes_expanded = stats.nodes_expanded
        /\ stats'.max_queue_size
                = Larger(stats.max_queue_size, Cardinality(queue) + 1)
    BY <1>6 DEF Relax, CountRelaxation, Count, Counters
  <2>6. CountersAgree'
    BY <1>1, <1>3, <1>4, <2>4, <2>5, CounterFacts DEF CountersAgree, Larger
  <2>7. PushesAreNumbered'
    <3>1. \A f \in queue : f.push \in Nat /\ f.push <= stats.pq_pushes
      BY DEF CountInv, PushesAreNumbered, TypeInv, TypeOK
    <3>2. QED
      BY <2>2, <2>3, <2>5, <3>1 DEF PushesAreNumbered
  <2>8. QED
    BY <1>1, <1>3, <1>4, <2>5, <2>6, <2>7 DEF CountInv, Uncounted, ArcsAreCounted
<1>7. QED
  BY <1>5, <1>6

(***************************************************************************)
(* What stats reports is what happened, at every step of every search: no  *)
(* push, pop or arc is counted twice or not at all.                        *)
(***************************************************************************)
THEOREM CountersAlwaysAgree == Spec => []CountersAgree
<1>1. Init => CountInv
  BY DEF Init, Idle, CountInv, CountersAgree, Uncounted, PushesAreNumbered,
         ArcsAreCounted, Running
<1>2. TypeInv /\ CountInv /\ [Next]_vars => CountInv'
  BY CallCountInv, BeginCountInv, PopCountInv, ScanCountInv DEF Next, Step
<1>3. CountInv => CountersAgree
  BY DEF CountInv
<1>4. QED
  BY TypeInvariant, <1>1, <1>2, <1>3, PTL DEF Spec

-----------------------------------------------------------------------------
(***************************************************************************)
(* One scan.  Where the current node is already the parent of a node, an   *)
(* earlier arc of the row, no heavier than this one, made it so.           *)
(***************************************************************************)
LEMMA NextScanInv == TypeInv /\ ScanInv /\ [Next]_vars => ScanInv'
<1>1. SUFFICES ASSUME TypeInv, ScanInv, [Next]_vars PROVE ScanInv'
  OBVIOUS
<1>2. ASSUME parent' = parent, graph' = graph, settled \subseteq settled',
             pc' # "scan"
      PROVE  ScanInv'
  BY <1>1, <1>2 DEF ScanInv, ParentsAreSettled, RowMadeIt
<1>3. CASE \/ \E a \in Algorithms, s, t \in 0 .. graph.node_count : Ask(a, s, t)
           \/ RejectId \/ RefuseHeuristic \/ Begin \/ Exhaust \/ EndScan
           \/ WalkBack
  BY <1>2, <1>3 DEF Ask, RejectId, RefuseHeuristic, Throw, Begin, Exhaust,
                    EndScan, WalkBack, tables
<1>4. CASE \E e \in queue : PopStale(e) \/ ReachTarget(e)
  BY <1>2, <1>4 DEF PopStale, ReachTarget, Settle, Pop
<1>5. CASE Return
  BY <1>5 DEF Return, ScanInv, ParentsAreSettled, RowMadeIt
<1>6. CASE \E e \in queue : Expand(e)
  <2>1. PICK e \in queue : Expand(e)
    BY <1>6
  <2>2. /\ parent' = parent /\ graph' = graph /\ current' = e.node
        /\ settled' = settled \cup {e.node} /\ e.node \notin settled
        /\ e.node \in Nodes(graph) /\ graph \in Graphs
    BY <1>1, <2>1 DEF Expand, Settle, Pop, TypeInv, TypeOK
  <2>3. \A v \in Nodes(graph) : parent[v] # e.node
    BY <1>1, <2>2, GraphFacts DEF ScanInv, ParentsAreSettled
  <2>4. QED
    BY <1>1, <2>2, <2>3 DEF ScanInv, ParentsAreSettled, RowMadeIt
<1>7. CASE PassArc
  <2>1. /\ parent' = parent /\ graph' = graph /\ settled' = settled
        /\ distance' = distance /\ current' = current /\ pc' = pc
        /\ cursor' = cursor + 1 /\ cursor \in Nat /\ pc = "scan"
        /\ current \in Nodes(graph) /\ graph \in Graphs
    BY <1>1, <1>7 DEF PassArc, Scan, TypeInv, TypeOK
  <2>2. \A k \in ArcsFrom(graph, current) : k < cursor => k < cursor + 1
    BY <2>1, RowFacts DEF ArcsFrom
  <2>3. QED
    BY <1>1, <2>1, <2>2 DEF ScanInv, ParentsAreSettled, RowMadeIt
<1>8. CASE Relax
  <2>1. PICK n : n = next
    OBVIOUS
  <2>2. /\ graph' = graph /\ settled' = settled /\ current' = current
        /\ cursor' = cursor + 1 /\ cursor \in Nat /\ pc = "scan" /\ pc' = pc
        /\ current \in Nodes(graph) /\ current \in settled
        /\ graph \in Graphs /\ cursor \in ArcsFrom(graph, current)
        /\ n \notin settled /\ candidate < distance[n]
        /\ distance' = [distance EXCEPT ![n] = candidate]
        /\ parent' = [parent EXCEPT ![n] = current]
        /\ distance \in [Nodes(graph) -> Cost] /\ DOMAIN parent = Nodes(graph)
    BY <1>1, <1>8, <2>1 DEF Relax, Scan, Improves, TypeInv, TypeOK
  <2>3. n \in Nodes(graph) /\ candidate \in Cost
    BY <2>1, <2>2, ArcFacts, PlusAssumption DEF next, arc, candidate
  <2>4. ParentsAreSettled'
    BY <1>1, <2>2, <2>3 DEF ScanInv, ParentsAreSettled
  <2>5. SUFFICES ASSUME NEW v \in Nodes(graph), parent'[v] = current
                 PROVE  \E k \in ArcsFrom(graph, current) :
                            /\ k < cursor + 1
                            /\ graph.arc[k].target = v
                            /\ distance'[v] <= Plus(distance[current],
                                                    graph.arc[k].weight)
    BY <2>2, <2>4 DEF ScanInv, RowMadeIt
  <2>6. CASE v = n
    <3>1. cursor < cursor + 1 /\ candidate <= candidate
      BY <2>2, <2>3, CostFacts
    <3>2. QED
      BY <2>1, <2>2, <2>3, <2>6, <3>1 DEF next, arc, candidate
  <2>7. CASE v # n
    <3>1. PICK k \in ArcsFrom(graph, current) :
                /\ k < cursor
                /\ graph.arc[k].target = v
                /\ distance[v] <= Plus(distance[current], graph.arc[k].weight)
      BY <1>1, <2>2, <2>5, <2>7 DEF ScanInv, RowMadeIt
    <3>2. k < cursor + 1
      BY <2>2, <3>1, RowFacts DEF ArcsFrom
    <3>3. QED
      BY <2>2, <2>7, <3>1, <3>2
  <2>8. QED
    BY <2>6, <2>7
<1>9. CASE UNCHANGED vars
  BY <1>1, <1>9 DEF vars, ScanInv, ParentsAreSettled, RowMadeIt
<1>10. QED
  BY <1>1, <1>3, <1>4, <1>5, <1>6, <1>7, <1>8, <1>9 DEF Next, Step

(***************************************************************************)
(* One expansion improves a neighbour at most once: the parallel arcs of a *)
(* row are stored cheapest first, so a scan pushes no entry that its own   *)
(* later arcs make stale.                                                  *)
(***************************************************************************)
THEOREM ScansImproveOnce == Spec => OneImprovementPerScan
<1>1. Init => ScanInv
  BY DEF Init, Idle, ScanInv, ParentsAreSettled, RowMadeIt
<1>2. ASSUME TypeInv, ScanInv, Relax, parent[next] = current
      PROVE  FALSE
  <2>1. /\ pc = "scan" /\ cursor \in ArcsFrom(graph, current)
        /\ graph \in Graphs /\ current \in Nodes(graph)
        /\ candidate < distance[next]
        /\ distance \in [Nodes(graph) -> Cost]
    BY <1>2 DEF Relax, Scan, Improves, TypeInv, TypeOK
  <2>2. next \in Nodes(graph) /\ candidate \in Cost /\ arc.weight \in Cost
    BY <2>1, ArcFacts, PlusAssumption DEF next, arc, candidate
  <2>3. PICK k \in ArcsFrom(graph, current) :
            /\ k < cursor
            /\ graph.arc[k].target = next
            /\ distance[next] <= Plus(distance[current], graph.arc[k].weight)
    BY <1>2, <2>1, <2>2 DEF ScanInv, RowMadeIt
  <2>4. graph.arc[k].weight <= arc.weight /\ graph.arc[k].weight \in Cost
    <3>1. next \in Nat
      BY <2>1, <2>2, GraphFacts DEF Nodes
    <3>2. IsCanonical(graph)
      BY <2>1, GraphsAssumption DEF IsGraph
    <3>3. graph.arc[k].weight \in Cost
      BY <2>1, ArcFacts
    <3>4. QED
      BY <2>1, <2>3, <3>1, <3>2, <3>3 DEF IsCanonical, next, arc
  <2>5. Plus(distance[current], graph.arc[k].weight) <= candidate
    <3>1. distance[current] \in Cost
      BY <2>1
    <3>2. Plus(graph.arc[k].weight, distance[current])
                <= Plus(arc.weight, distance[current])
      BY <2>2, <2>4, <3>1, PlusAssumption
    <3>3. QED
      BY <2>2, <2>4, <3>1, <3>2, PlusAssumption DEF candidate
  <2>6. Plus(distance[current], graph.arc[k].weight) \in Cost
        /\ distance[next] \in Cost
    BY <2>1, <2>2, <2>4, PlusAssumption
  <2>7. QED
    BY <2>1, <2>2, <2>3, <2>5, <2>6, CostFacts
<1>3. TypeInv /\ ScanInv /\ [Next]_vars
        => [Relax => parent[next] # current]_vars
  BY <1>2
<1>4. QED
  BY TypeInvariant, <1>1, NextScanInv, <1>3, PTL
  DEF Spec, OneImprovementPerScan

-----------------------------------------------------------------------------
(***************************************************************************)
(* PathInv is inductive.  Steps that leave the tables, or have no answer.  *)
(***************************************************************************)
LEMMA TablesKeepParents ==
    ASSUME ParentsAccount, ParentsAreAcyclic,
           pc \in {"loop", "scan", "walk"} \/ Found,
           graph' = graph, query' = query, distance' = distance,
           parent' = parent, settled \subseteq settled'
    PROVE  ParentsAccount' /\ ParentsAreAcyclic'
BY DEF ParentsAccount, ParentsAreAcyclic, Grows, ComesFrom, query

LEMMA CallPathInv ==
    ASSUME TypeInv, PathInv
    PROVE  /\ \A a \in Algorithms, s, t \in 0 .. graph.node_count :
                Ask(a, s, t) => PathInv'
           /\ Return => PathInv'
           /\ RejectId \/ RefuseHeuristic \/ Exhaust => PathInv'
<1>1. ASSUME pc' \notin {"loop", "scan", "walk"}, result'.status # "found"
      PROVE  PathInv'
  BY <1>1 DEF PathInv, ParentsAccount, ParentsAreAcyclic, PathIsCollected, Found
<1>2. QED
  BY <1>1 DEF Ask, Return, RejectId, RefuseHeuristic, Exhaust, Throw, TypeInv,
              Unanswered, NoResult

LEMMA BeginPathInv == TypeInv /\ Begin => PathInv'
<1>1. SUFFICES ASSUME TypeInv, Begin PROVE PathInv'
  OBVIOUS
<1>2. /\ distance = [v \in Nodes(graph) |-> Infinity]
      /\ distance' = [distance EXCEPT ![source] = 0]
      /\ graph' = graph /\ query' = query /\ pc' = "loop"
      /\ result' = NoResult
  BY <1>1 DEF TypeInv, Begin, Fresh, Unanswered
<1>3. \A v \in Nodes(graph)' : distance'[v] < Infinity => v = source'
  BY <1>2, CostFacts DEF query
<1>4. ParentsAccount'
  BY <1>3 DEF ParentsAccount
<1>5. ParentsAreAcyclic'
  <2>1. [v \in Nodes(graph)' |-> 0] \in [Nodes(graph)' -> Nat]
    OBVIOUS
  <2>2. QED
    BY <1>3, <2>1 DEF ParentsAreAcyclic, Grows
<1>6. QED
  BY <1>2, <1>4, <1>5 DEF PathInv, PathIsCollected, Found, NoResult

LEMMA PopPathInv ==
    ASSUME TypeInv, PathInv,
           NEW e \in queue, PopStale(e) \/ ReachTarget(e) \/ Expand(e)
    PROVE  PathInv'
<1>1. /\ pc = "loop" /\ graph' = graph /\ query' = query
      /\ distance' = distance /\ parent' = parent /\ settled \subseteq settled'
      /\ result = NoResult /\ e \in queue
  BY DEF PopStale, ReachTarget, Expand, Settle, Pop, TypeInv, Unanswered
<1>2. ParentsAccount' /\ ParentsAreAcyclic'
  BY <1>1, TablesKeepParents DEF PathInv
<1>3. CASE PopStale(e) \/ Expand(e)
  BY <1>1, <1>2, <1>3
  DEF PopStale, Expand, PathInv, PathIsCollected, Found, NoResult
<1>4. CASE ReachTarget(e)
  <2>1. /\ pc' = "walk" /\ at' = target /\ target' = target /\ source' = source
        /\ result' = [status |-> "found", cost |-> distance[target], path |-> <<>>]
        /\ distance[target] < Infinity /\ distance[source] = 0
    BY <1>1, <1>4 DEF ReachTarget, query, TypeInv, Reached
  <2>2. QED
    BY <1>1, <1>2, <2>1 DEF PathInv, PathIsCollected
<1>5. QED
  BY <1>3, <1>4

LEMMA PassPathInv ==
    ASSUME TypeInv, PathInv, PassArc \/ EndScan
    PROVE  PathInv'
<1>1. /\ pc = "scan" /\ pc' \in {"scan", "loop"} /\ graph' = graph
      /\ query' = query /\ distance' = distance /\ parent' = parent
      /\ settled' = settled /\ result' = result /\ result = NoResult
  BY DEF PassArc, Scan, EndScan, tables, TypeInv, Unanswered
<1>2. ParentsAccount' /\ ParentsAreAcyclic'
  BY <1>1, TablesKeepParents DEF PathInv
<1>3. QED
  BY <1>1, <1>2 DEF PathInv, PathIsCollected, Found, NoResult

-----------------------------------------------------------------------------
\* A relaxation makes a settled node the parent of an open one.
LEMMA RelaxPathInv == TypeInv /\ PathInv /\ Relax => PathInv'
<1>1. SUFFICES ASSUME TypeInv, PathInv, Relax PROVE PathInv'
  OBVIOUS
<1>2. /\ pc = "scan" /\ pc' = "scan" /\ graph' = graph /\ query' = query
      /\ settled' = settled /\ result' = result /\ result = NoResult
      /\ graph \in Graphs /\ current \in settled /\ current \in Nodes(graph)
      /\ cursor \in ArcsFrom(graph, current)
      /\ next \notin settled /\ candidate < distance[next]
      /\ distance' = [distance EXCEPT ![next] = candidate]
      /\ parent' = [parent EXCEPT ![next] = current]
      /\ distance \in [Nodes(graph) -> Cost]
      /\ parent \in [Nodes(graph) -> Nodes(graph) \cup {NoParent}]
      /\ settled \subseteq Nodes(graph)
      /\ source' = source
  BY <1>1 DEF Relax, Improves, Scan, TypeInv, TypeOK, Unanswered, query
<1>3. PICK n \in Nodes(graph) : n = next
  BY <1>2, ArcFacts DEF next, arc
<1>4. /\ \A v \in Nodes(graph) :
            /\ distance'[v] = IF v = n THEN candidate ELSE distance[v]
            /\ parent'[v] = IF v = n THEN current ELSE parent[v]
      /\ n \notin settled /\ n # current
  BY <1>2, <1>3
<1>5. \A v \in Nodes(graph) : distance'[v] < Infinity /\ v # source /\ v # n =>
        /\ distance[v] < Infinity /\ parent[v] \in settled
        /\ parent[v] # n /\ ComesFrom(v, parent[v])
  BY <1>1, <1>2, <1>4 DEF PathInv, ParentsAccount
<1>6. ParentsAccount'
  <2>1. SUFFICES ASSUME NEW v \in Nodes(graph), distance'[v] < Infinity,
                        v # source
                 PROVE  /\ parent'[v] \in settled
                        /\ \E k \in ArcsFrom(graph, parent'[v]) :
                            /\ graph.arc[k].target = v
                            /\ distance'[v] = Plus(distance'[parent'[v]],
                                                   graph.arc[k].weight)
    BY <1>2 DEF ParentsAccount, ComesFrom
  <2>2. CASE v = n
    <3>1. /\ graph.arc[cursor].target = n
          /\ candidate = Plus(distance[current], graph.arc[cursor].weight)
      BY <1>3 DEF next, arc, candidate
    <3>2. QED
      BY <1>2, <1>4, <2>2, <3>1
  <2>3. CASE v # n
    <3>1. /\ parent'[v] = parent[v] /\ parent[v] \in Nodes(graph)
          /\ distance'[v] = distance[v]
          /\ distance'[parent[v]] = distance[parent[v]]
      BY <1>2, <1>4, <1>5, <2>1, <2>3
    <3>2. QED
      BY <1>5, <2>1, <2>3, <3>1 DEF ComesFrom
  <2>4. QED
    BY <2>2, <2>3
<1>7. ParentsAreAcyclic'
  <2>1. PICK depth \in [Nodes(graph) -> Nat] : Grows(depth)
    BY <1>1, <1>2 DEF PathInv, ParentsAreAcyclic
  <2> DEFINE deeper == [depth EXCEPT ![n] = depth[current] + 1]
  <2>2. /\ deeper \in [Nodes(graph) -> Nat]
        /\ deeper[n] = depth[current] + 1 /\ depth[current] \in Nat
        /\ \A v \in Nodes(graph) : v # n => deeper[v] = depth[v]
    BY <1>2
  <2> HIDE DEF deeper
  <2>3. ASSUME NEW v \in Nodes(graph), distance'[v] < Infinity, v # source
        PROVE  deeper[parent'[v]] < deeper[v]
    <3>1. CASE v = n
      BY <1>2, <1>4, <2>2, <3>1
    <3>2. CASE v # n
      BY <1>2, <1>4, <1>5, <2>1, <2>2, <2>3, <3>2 DEF Grows
    <3>3. QED
      BY <3>1, <3>2
  <2>4. QED
    BY <1>2, <2>2, <2>3 DEF ParentsAreAcyclic, Grows
<1>8. QED
  BY <1>2, <1>6, <1>7 DEF PathInv, PathIsCollected, Found, NoResult

-----------------------------------------------------------------------------
\* The walk back collects one more node.
LEMMA CollectOne ==
    ASSUME TypeInv, PathInv, Found, pc = "walk"
    PROVE  LET path == <<at>> \o result.path IN
           /\ path \in Seq(Nodes(graph)) /\ path[1] = at
           /\ Collected(path)
<1> DEFINE old == result.path
           path == <<at>> \o old
<1>1. /\ at \in Nodes(graph) /\ old \in Seq(Nodes(graph))
      /\ result.cost \in Cost /\ distance \in [Nodes(graph) -> Cost]
      /\ graph \in Graphs /\ target \in Nodes(graph)
  BY EstimateAtTarget DEF TypeInv, TypeOK, Found
<1>2. /\ result.cost = distance[target] /\ result.cost < Infinity
      /\ \/ old = <<>> /\ at = target
         \/ Collected(old) /\ old[1] # source /\ at = parent[old[1]]
  BY DEF PathInv, PathIsCollected
<1> HIDE DEF old
<1>3. /\ path \in Seq(Nodes(graph)) /\ Len(path) = 1 + Len(old)
      /\ Len(old) \in Nat /\ DOMAIN old = 1 .. Len(old)
      /\ \A i \in 1 .. 1 + Len(old) :
            path[i] = IF i <= 1 THEN at ELSE old[i - 1]
  <2>1. /\ <<at>> \in Seq(Nodes(graph)) /\ Len(<<at>>) = 1
        /\ <<at>>[1] = at
    BY <1>1
  <2>2. Len(old) \in Nat /\ DOMAIN old = 1 .. Len(old)
    BY <1>1, LenProperties
  <2>3. /\ path \in Seq(Nodes(graph)) /\ Len(path) = Len(<<at>>) + Len(old)
        /\ \A i \in 1 .. Len(<<at>>) + Len(old) :
            path[i] = IF i <= Len(<<at>>) THEN <<at>>[i] ELSE old[i - Len(<<at>>)]
    BY <1>1, <2>1, ConcatProperties
  <2>4. \A i \in 1 .. 1 + Len(old) : path[i] = IF i <= 1 THEN at ELSE old[i - 1]
    <3>1. SUFFICES ASSUME NEW i \in 1 .. 1 + Len(old)
                   PROVE  path[i] = IF i <= 1 THEN at ELSE old[i - 1]
      OBVIOUS
    <3>2. CASE i <= 1
      BY <2>1, <2>2, <2>3, <3>2
    <3>3. CASE ~(i <= 1)
      BY <2>1, <2>2, <2>3, <3>3
    <3>4. QED
      BY <3>2, <3>3
  <2>5. QED
    BY <2>1, <2>2, <2>3, <2>4
<1> HIDE DEF path
<1>4. path[1] = at /\ path # <<>> /\ DOMAIN path = 1 .. 1 + Len(old)
  BY <1>3, LenProperties
<1>5. CASE old = <<>> /\ at = target
  <2>1. Len(old) = 0
    BY <1>5
  <2>2. distance[at] <= result.cost
    BY <1>1, <1>2, <1>5, CostFacts
  <2>3. Collected(path)
    BY <1>3, <1>4, <1>5, <2>1, <2>2 DEF Collected
  <2>4. QED
    BY <1>3, <1>4, <2>3 DEF path, old
<1>6. CASE Collected(old) /\ old[1] # source /\ at = parent[old[1]]
  <2>1. Len(old) >= 1 /\ old[1] \in Nodes(graph)
    BY <1>1, <1>3, <1>6, EmptySeq, ElementOfSeq DEF Collected
  <2>2. distance[old[1]] <= result.cost /\ distance[old[1]] < Infinity
    BY <1>1, <1>2, <1>3, <1>6, <2>1, CostFacts DEF Collected
  <2>3. distance[at] <= distance[old[1]]
    <3>1. ComesFrom(old[1], at)
      BY <1>6, <2>1, <2>2 DEF PathInv, ParentsAccount
    <3>2. PICK k \in ArcsFrom(graph, at) :
              distance[old[1]] = Plus(distance[at], graph.arc[k].weight)
      BY <3>1 DEF ComesFrom
    <3>3. distance[at] \in Cost /\ graph.arc[k].weight \in Cost
      BY <1>1, <3>2, ArcFacts
    <3>4. QED
      BY <3>2, <3>3, PlusAssumption
  <2>4. distance[at] <= result.cost
    BY <1>1, <2>1, <2>2, <2>3, CostFacts
  <2>5. path[Len(path)] = target
    BY <1>3, <1>6, <2>1 DEF Collected
  <2>6. \A i \in DOMAIN path : distance[path[i]] <= result.cost
    <3>1. SUFFICES ASSUME NEW i \in 1 .. 1 + Len(old)
                   PROVE  distance[path[i]] <= result.cost
      BY <1>4
    <3>2. CASE i = 1
      BY <1>4, <2>4, <3>2
    <3>3. CASE i # 1
      <4>1. i - 1 \in DOMAIN old /\ path[i] = old[i - 1]
        BY <1>3, <3>3
      <4>2. QED
        BY <1>6, <4>1 DEF Collected
    <3>4. QED
      BY <3>2, <3>3
  <2>7. \A i \in 1 .. Len(path) - 1 :
            path[i + 1] # source /\ path[i] = parent[path[i + 1]]
    <3>1. SUFFICES ASSUME NEW i \in 1 .. Len(old)
                   PROVE  path[i + 1] # source /\ path[i] = parent[path[i + 1]]
      BY <1>3
    <3>2. CASE i = 1
      BY <1>3, <1>6, <2>1, <3>2
    <3>3. CASE i # 1
      <4>1. /\ i - 1 \in 1 .. Len(old) - 1 /\ (i - 1) + 1 = i
            /\ path[i + 1] = old[i] /\ path[i] = old[i - 1]
        BY <1>3, <3>3
      <4>2. QED
        BY <1>6, <4>1 DEF Collected
    <3>4. QED
      BY <3>2, <3>3
  <2>8. QED
    BY <1>3, <1>4, <2>5, <2>6, <2>7 DEF Collected, path, old
<1>7. QED
  BY <1>2, <1>5, <1>6

LEMMA WalkPathInv == TypeInv /\ PathInv /\ WalkBack => PathInv'
<1>1. SUFFICES ASSUME TypeInv, PathInv, WalkBack PROVE PathInv'
  OBVIOUS
<1>2. /\ pc = "walk" /\ graph' = graph /\ query' = query
      /\ distance' = distance /\ parent' = parent /\ settled' = settled
      /\ source' = source /\ target' = target
  BY <1>1 DEF WalkBack, tables, query
<1>3. /\ result'.status = result.status /\ result'.cost = result.cost
      /\ result'.path = <<at>> \o result.path
  BY <1>1 DEF WalkBack, TypeInv, TypeOK
<1>4. ParentsAccount' /\ ParentsAreAcyclic'
  BY <1>1, <1>2, TablesKeepParents DEF PathInv
<1>5. ASSUME Found PROVE PathIsCollected'
  <2>1. Collected(result'.path) /\ result'.path[1] = at
    BY <1>1, <1>2, <1>3, <1>5, CollectOne
  <2>2. Collected(result.path)' <=> Collected(result'.path)
    BY <1>2, <1>3 DEF Collected
  <2>3. result'.path # <<>>
    BY <2>1 DEF Collected
  <2>4. /\ distance'[source'] = 0
        /\ result'.cost = distance'[target'] /\ result'.cost < Infinity
    BY <1>1, <1>2, <1>3, <1>5 DEF PathInv, PathIsCollected
  <2>5. CASE at = source
    BY <1>1, <1>2, <2>1, <2>2, <2>4, <2>5 DEF WalkBack, PathIsCollected
  <2>6. CASE at # source
    BY <1>1, <1>2, <2>1, <2>2, <2>3, <2>4, <2>6 DEF WalkBack, PathIsCollected
  <2>7. QED
    BY <2>5, <2>6
<1>6. QED
  BY <1>3, <1>4, <1>5 DEF PathInv, PathIsCollected, Found

LEMMA NextPathInv == TypeInv /\ PathInv /\ [Next]_vars => PathInv'
<1>1. SUFFICES ASSUME TypeInv, PathInv, [Next]_vars PROVE PathInv'
  OBVIOUS
<1>2. CASE \E a \in Algorithms, s, t \in 0 .. graph.node_count : Ask(a, s, t)
  BY <1>1, <1>2, CallPathInv
<1>3. CASE RejectId \/ RefuseHeuristic \/ Exhaust \/ Return
  BY <1>1, <1>3, CallPathInv
<1>4. CASE Begin
  BY <1>1, <1>4, BeginPathInv
<1>5. CASE \E e \in queue : PopStale(e) \/ ReachTarget(e) \/ Expand(e)
  BY <1>1, <1>5, PopPathInv
<1>6. CASE PassArc \/ EndScan
  BY <1>1, <1>6, PassPathInv
<1>7. CASE Relax
  BY <1>1, <1>7, RelaxPathInv
<1>8. CASE WalkBack
  BY <1>1, <1>8, WalkPathInv
<1>9. CASE UNCHANGED vars
  BY <1>1, <1>9
  DEF vars, PathInv, ParentsAccount, ParentsAreAcyclic, Grows, ComesFrom,
      PathIsCollected, Collected, Found
<1>10. QED
  BY <1>1, <1>2, <1>3, <1>4, <1>5, <1>6, <1>7, <1>8, <1>9 DEF Next, Step

\* Parents account for distances and never form a cycle, whatever the heuristic.
THEOREM PathInvariant == Spec => [](TypeInv /\ PathInv)
<1>1. Init => PathInv
  BY DEF Init, Idle, NoResult, PathInv, ParentsAccount, ParentsAreAcyclic,
         PathIsCollected, Found
<1>2. TypeInv /\ PathInv /\ [Next]_vars => (TypeInv /\ PathInv)'
  BY NextTypeInv, NextPathInv
<1>3. QED
  BY InitTypeInv, <1>1, <1>2, PTL DEF Spec

-----------------------------------------------------------------------------
(***************************************************************************)
(* Along a function that never repeats between neighbours in the order of  *)
(* the numbers, no two numbers have the same value.                        *)
(***************************************************************************)
LEMMA StepsGrow ==
    ASSUME NEW n \in Nat, NEW f,
           \A i \in 1 .. n : f[i] \in Nat,
           \A i \in 1 .. n - 1 : f[i] < f[i + 1],
           NEW i \in 1 .. n, NEW j \in 1 .. n, i < j
    PROVE  f[i] < f[j]
<1> DEFINE Bad == {k \in i + 1 .. n : ~(f[i] < f[k])}
<1>1. SUFFICES Bad = {}
  OBVIOUS
<1>2. SUFFICES ASSUME Bad # {} PROVE FALSE
  OBVIOUS
<1>3. PICK m \in Bad : \A k \in Bad : m <= k
  <2>1. Bad \in SUBSET Nat
    OBVIOUS
  <2>2. QED
    BY <1>2, <2>1, LeastNatural
<1>4. m - 1 \in 1 .. n - 1 /\ f[m - 1] < f[m]
  BY <1>3
<1>5. CASE m = i + 1
  BY <1>3, <1>4, <1>5
<1>6. CASE m # i + 1
  <2>1. m - 1 \in i + 1 .. n /\ m - 1 \notin Bad
    BY <1>3, <1>6
  <2>2. f[i] < f[m - 1]
    BY <2>1
  <2>3. f[i] \in Nat /\ f[m - 1] \in Nat /\ f[m] \in Nat
    BY <1>3, <1>4
  <2>4. QED
    BY <1>3, <1>4, <2>2, <2>3
<1>7. QED
  BY <1>5, <1>6

-----------------------------------------------------------------------------
\* The path of a route found, with the distance of each of its nodes.
PathWalk == [i \in DOMAIN result.path |->
                [node |-> result.path[i], cost |-> distance[result.path[i]]]]

LEMMA PathFacts ==
    ASSUME TypeInv, PathInv, pc = "done", Found
    PROVE  LET path == result.path
               n == Len(path) IN
           /\ path \in Seq(Nodes(graph)) /\ path # <<>>
           /\ n \in Nat /\ 1 <= n /\ DOMAIN path = 1 .. n
           /\ path[1] = source /\ path[n] = target
           /\ result.cost = distance[target] /\ result.cost < Infinity
           /\ distance[source] = 0
           /\ \A i \in 1 .. n : /\ path[i] \in Nodes(graph)
                                /\ distance[path[i]] \in Cost
                                /\ distance[path[i]] <= result.cost
                                /\ distance[path[i]] < Infinity
           /\ \A i \in 1 .. n - 1 :
                path[i + 1] # source /\ path[i] = parent[path[i + 1]]
<1> DEFINE path == result.path
           n == Len(path)
<1>1. /\ path \in Seq(Nodes(graph)) /\ result.cost \in Cost
      /\ distance \in [Nodes(graph) -> Cost]
  BY DEF TypeInv, TypeOK
<1>2. /\ Collected(path) /\ path[1] = source
      /\ result.cost = distance[target] /\ result.cost < Infinity
      /\ distance[source] = 0
  BY DEF PathInv, PathIsCollected
<1> HIDE DEF path
<1>3. n \in Nat /\ 1 <= n /\ DOMAIN path = 1 .. n
  BY <1>1, <1>2, LenProperties, EmptySeq DEF Collected
<1>4. ASSUME NEW i \in 1 .. n
      PROVE  /\ path[i] \in Nodes(graph)
             /\ distance[path[i]] \in Cost
             /\ distance[path[i]] <= result.cost
             /\ distance[path[i]] < Infinity
  <2>1. path[i] \in Nodes(graph)
    BY <1>1, <1>3, ElementOfSeq
  <2>2. distance[path[i]] \in Cost /\ distance[path[i]] <= result.cost
    BY <1>1, <1>2, <1>3, <2>1 DEF Collected
  <2>3. QED
    BY <1>1, <1>2, <2>1, <2>2, CostFacts
<1>5. QED
  BY <1>1, <1>2, <1>3, <1>4 DEF Collected, path

LEMMA PathIsWalk ==
    ASSUME TypeInv, PathInv, pc = "done", Found
    PROVE  /\ IsWalk(graph, source, target, PathWalk)
           /\ CostOf(PathWalk) = result.cost
<1> DEFINE path == result.path
           n == Len(path)
           walk == PathWalk
           Stop == [node : Nodes(graph), cost : Cost]
<1>1. /\ path \in Seq(Nodes(graph)) /\ path # <<>>
      /\ n \in Nat /\ 1 <= n /\ DOMAIN path = 1 .. n
      /\ path[1] = source /\ path[n] = target
      /\ result.cost = distance[target]
      /\ distance[source] = 0
      /\ \A i \in 1 .. n : /\ path[i] \in Nodes(graph)
                           /\ distance[path[i]] \in Cost
                           /\ distance[path[i]] < Infinity
      /\ \A i \in 1 .. n - 1 :
            path[i + 1] # source /\ path[i] = parent[path[i + 1]]
  BY PathFacts
<1>2. walk = [i \in 1 .. n |-> [node |-> path[i], cost |-> distance[path[i]]]]
  BY <1>1 DEF PathWalk
<1> HIDE DEF path, n, walk
<1>3. /\ walk \in Seq(Stop) /\ Len(walk) = n
      /\ \A i \in 1 .. n :
            walk[i] = [node |-> path[i], cost |-> distance[path[i]]]
  <2>1. walk \in [1 .. n -> Stop]
    BY <1>1, <1>2
  <2>2. walk \in Seq(Stop)
    BY <1>1, <2>1, SeqDef
  <2>3. Len(walk) \in Nat /\ DOMAIN walk = 1 .. Len(walk)
    BY <2>2, LenProperties
  <2>4. 1 .. Len(walk) = 1 .. n
    BY <1>2, <2>3
  <2>5. Len(walk) = n
    <3>1. ASSUME NEW a \in Nat, NEW b \in Nat, 1 <= b, 1 .. a = 1 .. b
          PROVE  a = b
      <4>1. b \in 1 .. a
        BY <3>1
      <4>2. a \in 1 .. b
        BY <3>1, <4>1
      <4>3. QED
        BY <4>1, <4>2
    <3>2. Len(walk) \in Nat
      BY <2>3
    <3>3. QED
      BY <1>1, <2>4, <3>1, <3>2
  <2>6. QED
    BY <1>2, <2>2, <2>5
<1>4. ASSUME NEW i \in 1 .. n - 1
      PROVE  \E k \in ArcsFrom(graph, walk[i].node) :
                /\ walk[i + 1].node = graph.arc[k].target
                /\ walk[i + 1].cost = Plus(walk[i].cost, graph.arc[k].weight)
  <2>1. i \in 1 .. n /\ i + 1 \in 1 .. n
    BY <1>1
  <2>2. ComesFrom(path[i + 1], path[i])
    <3>1. /\ path[i + 1] \in Nodes(graph) /\ distance[path[i + 1]] < Infinity
          /\ path[i + 1] # source /\ path[i] = parent[path[i + 1]]
      BY <1>1, <2>1
    <3>2. QED
      BY <3>1 DEF PathInv, ParentsAccount
  <2>3. /\ walk[i].node = path[i] /\ walk[i].cost = distance[path[i]]
        /\ walk[i + 1].node = path[i + 1]
        /\ walk[i + 1].cost = distance[path[i + 1]]
    BY <1>3, <2>1
  <2>4. QED
    BY <2>2, <2>3 DEF ComesFrom
<1>5. walk # <<>> /\ walk[1] = [node |-> source, cost |-> 0]
  BY <1>1, <1>3, EmptySeq
<1>6. walk[Len(walk)].node = target /\ walk[Len(walk)].cost = result.cost
  BY <1>1, <1>3
<1>7. QED
  BY <1>3, <1>4, <1>5, <1>6 DEF IsWalk, CostOf, walk

\* Numbers that grow along the path tell its nodes apart.
LEMMA PathIsSimple ==
    ASSUME TypeInv, PathInv, pc = "done", Found,
           NEW i \in DOMAIN result.path, NEW j \in DOMAIN result.path, i < j
    PROVE  result.path[i] # result.path[j]
<1> DEFINE path == result.path
           n == Len(path)
<1>1. /\ n \in Nat /\ DOMAIN path = 1 .. n
      /\ \A k \in 1 .. n : /\ path[k] \in Nodes(graph)
                           /\ distance[path[k]] < Infinity
      /\ \A k \in 1 .. n - 1 :
            path[k + 1] # source /\ path[k] = parent[path[k + 1]]
  BY PathFacts
<1>2. PICK depth \in [Nodes(graph) -> Nat] : Grows(depth)
  BY DEF PathInv, ParentsAreAcyclic
<1> DEFINE f == [k \in 1 .. n |-> depth[path[k]]]
<1> HIDE DEF path, n
<1>3. \A k \in 1 .. n : f[k] \in Nat
  BY <1>1, <1>2
<1>4. ASSUME NEW k \in 1 .. n - 1 PROVE f[k] < f[k + 1]
  <2>1. k \in 1 .. n /\ k + 1 \in 1 .. n
    BY <1>1
  <2>2. depth[path[k]] < depth[path[k + 1]]
    BY <1>1, <1>2, <2>1 DEF Grows
  <2>3. QED
    BY <2>1, <2>2
<1>5. i \in 1 .. n /\ j \in 1 .. n
  BY <1>1 DEF path
<1>6. f[i] < f[j]
  <2> HIDE DEF f
  <2> QED
    BY <1>1, <1>3, <1>4, <1>5, StepsGrow
<1>7. depth[path[i]] < depth[path[j]] /\ depth[path[i]] \in Nat
  BY <1>1, <1>2, <1>5, <1>6
<1>8. QED
  BY <1>7 DEF path

(***************************************************************************)
(* Whatever the rounding and whatever the heuristic, a path returned is a  *)
(* route along arcs of the graph from the source to the target that visits *)
(* no node twice and whose arcs add up to the reported cost.               *)
(***************************************************************************)
THEOREM PathsAreReal == Spec => []RouteIsReal
<1>1. TypeInv /\ PathInv => RouteIsReal
  <2>1. SUFFICES ASSUME TypeInv, PathInv, pc = "done", Found
                 PROVE  RouteIsReal
    BY DEF RouteIsReal, Answered, Found
  <2>2. /\ IsWalk(graph, source, target, PathWalk)
        /\ CostOf(PathWalk) = result.cost
    BY <2>1, PathIsWalk
  <2>3. ASSUME NEW i \in DOMAIN result.path, NEW j \in DOMAIN result.path,
               result.path[i] = result.path[j]
        PROVE  i = j
    <3>1. i \in Nat /\ j \in Nat
      BY <2>1, PathFacts
    <3>2. ~(i < j) /\ ~(j < i)
      BY <2>1, <2>3, PathIsSimple
    <3>3. QED
      BY <3>1, <3>2
  <2>4. QED
    BY <2>2, <2>3 DEF RouteIsReal, PathWalk
<1>2. QED
  BY PathInvariant, <1>1, PTL

-----------------------------------------------------------------------------
(***************************************************************************)
(* All that is known of a state of the search.                             *)
(***************************************************************************)
PromiseInv == TypeInv /\ Accepted /\ OrderInv /\ PathInv /\ Served

LEMMA PromiseInvariant == Spec => []PromiseInv
<1>1. TypeInv /\ Accepted /\ OrderInv /\ PathInv /\ Served => PromiseInv
  BY DEF PromiseInv
<1>2. QED
  BY <1>1, ServedInvariant, AcceptedInvariant, OrderInvariant, PathInvariant,
     PTL

-----------------------------------------------------------------------------
(***************************************************************************)
(* The definitions that the promise shares with the search are the same.   *)
(***************************************************************************)
LEMMA SameWalks ==
    \A g, s, t, walk : IsWalk(g, s, t, walk) <=> Promise!IsWalk(g, s, t, walk)
BY DEF IsWalk, Promise!IsWalk, Nodes, Promise!Nodes, ArcsFrom, Promise!ArcsFrom

LEMMA SameRivals ==
    \A g, s, t, c :
        NoWalkBeats(g, s, t, c) <=> Promise!NoWalkBeats(g, s, t, c)
BY SameWalks DEF NoWalkBeats, Promise!NoWalkBeats, CostOf, Promise!CostOf

-----------------------------------------------------------------------------
\* The found path as the promise describes it.
PathIsPromised ==
    /\ result.cost < Infinity
    /\ \E cost \in [DOMAIN result.path -> {x \in Cost : x <= result.cost}] :
        LET walk == [i \in DOMAIN result.path |->
                        [node |-> result.path[i], cost |-> cost[i]]]
        IN  IsWalk(graph, source, target, walk) /\ CostOf(walk) = result.cost

LEMMA PromisedPath ==
    TypeInv /\ PathInv /\ pc = "done" /\ Found => PathIsPromised
<1>1. SUFFICES ASSUME TypeInv, PathInv, pc = "done", Found
               PROVE  PathIsPromised
  OBVIOUS
<1> DEFINE cost == [i \in DOMAIN result.path |-> distance[result.path[i]]]
<1>2. /\ cost \in [DOMAIN result.path -> {x \in Cost : x <= result.cost}]
      /\ result.cost < Infinity
  BY <1>1, PathFacts
<1>3. [i \in DOMAIN result.path |-> [node |-> result.path[i], cost |-> cost[i]]]
        = PathWalk
  BY DEF PathWalk
<1>4. /\ IsWalk(graph, source, target, PathWalk)
      /\ CostOf(PathWalk) = result.cost
  BY <1>1, PathIsWalk
<1> HIDE DEF cost
<1>5. QED
  BY <1>2, <1>3, <1>4 DEF PathIsPromised

LEMMA PromisedPathNext ==
    (TypeInv /\ PathInv /\ pc = "done" /\ Found => PathIsPromised)'
BY PromisedPath, PTL

-----------------------------------------------------------------------------
(***************************************************************************)
(* Steps that end a call, one by one; all others but Ask stutter.          *)
(***************************************************************************)
Exact ==
    \/ "astar_euclidean" \notin Algorithms
    \/ ExactArithmetic /\ TriangleInequality

\* The caller's view of a call that runs.
LEMMA AsksNow ==
    ASSUME PromiseInv, pc \notin {"idle", "done"}
    PROVE  /\ Promise!NoQuestion # [algorithm |-> algorithm,
                                   source |-> source, target |-> target]
           /\ algorithm \in Algorithms
BY AlgorithmsAssumption DEF PromiseInv, Served, AllAlgorithms,
   Promise!NoQuestion

LEMMA AnswersAreCheapest ==
    Exact /\ PromiseInv => NoCheaperWalk
<1>1. SUFFICES ASSUME Exact, PromiseInv PROVE NoCheaperWalk
  OBVIOUS
<1>2. CASE pc = "done"
  <2>1. Valid(source) /\ Valid(target) /\ ~Refused => Trusted
    BY <1>1, <1>2, ZeroIsTrusted, EuclideanIsTrusted
    DEF Exact, PromiseInv, Served
  <2>2. QED
    BY <1>1, <2>1, AnswerIsCheapest DEF PromiseInv
<1>3. CASE pc # "done"
  BY <1>3 DEF NoCheaperWalk, Answered
<1>4. QED
  BY <1>2, <1>3

LEMMA AnswersAreCheapestNext == Exact /\ PromiseInv' => NoCheaperWalk'
<1>1. (Exact /\ PromiseInv => NoCheaperWalk)'
  BY AnswersAreCheapest, PTL
<1>2. QED
  BY <1>1 DEF Exact, ExactArithmetic, TriangleInequality

LEMMA ReplyException ==
    ASSUME PromiseInv, RejectId \/ RefuseHeuristic
    PROVE  Promise!Reply
<1>1. /\ pc = "check" /\ pc' = "done" /\ graph' = graph /\ query' = query
      /\ algorithm' = algorithm /\ source' = source /\ target' = target
  BY DEF RejectId, RefuseHeuristic, Throw, query
<1>2. result = NoResult
  BY <1>1 DEF PromiseInv, TypeInv, Unanswered
<1>3. CASE RejectId
  BY <1>1, <1>2, <1>3, AsksNow
  DEF RejectId, Throw, Valid, Question, Answer, NoResult, Promise!Reply, Promise!Throw,
      Promise!ValidIds, Promise!NoAnswer
<1>4. CASE RefuseHeuristic
  BY <1>1, <1>2, <1>4, AsksNow
  DEF RefuseHeuristic, Refused, Throw, Valid, Question, Answer, NoResult,
      Promise!Reply,
      Promise!Throw, Promise!ValidIds, Promise!Refused, Promise!NoAnswer
<1>5. QED
  BY <1>3, <1>4

LEMMA ReplyUnreachable ==
    ASSUME Exact, PromiseInv, PromiseInv', Exhaust
    PROVE  Promise!Reply
<1>1. /\ pc = "loop" /\ pc' = "done" /\ graph' = graph
      /\ algorithm' = algorithm /\ source' = source /\ target' = target
  BY DEF Exhaust, query
<1>2. result = NoResult
  BY <1>1 DEF PromiseInv, TypeInv, Unanswered
<1>3. result' = [NoResult EXCEPT !.status = "unreachable"]
  BY <1>2 DEF Exhaust
<1>4. Valid(source) /\ Valid(target) /\ ~Refused
  BY <1>1 DEF PromiseInv, Accepted
<1>5. NoWalkBeats(graph, source, target, Infinity)
  BY <1>1, <1>3, AnswersAreCheapestNext
  DEF NoCheaperWalk, Answered, NoResult
<1>6. Promise!NoRoute
  BY <1>1, <1>2, <1>3, <1>5, SameRivals
  DEF Question, Answer, NoResult, Promise!NoRoute, Promise!NoAnswer
<1>7. QED
  BY <1>1, <1>2, <1>4, <1>6, AsksNow
  DEF Valid, Refused, Question, Answer, NoResult, Promise!Reply, Promise!NoAnswer,
      Promise!ValidIds, Promise!Refused

LEMMA ReplyRoute ==
    ASSUME Exact, PromiseInv, PromiseInv', WalkBack, at = source
    PROVE  Promise!Reply
<1>1. /\ pc = "walk" /\ pc' = "done" /\ graph' = graph
      /\ algorithm' = algorithm /\ source' = source /\ target' = target
  BY DEF WalkBack, query
<1>2. Valid(source) /\ Valid(target) /\ ~Refused
  BY <1>1 DEF PromiseInv, Accepted
<1>3. result'.status = "found"
  BY <1>1 DEF PromiseInv, Served, WalkBack, TypeInv, TypeOK
<1>4. result' = [status |-> "found", cost |-> result'.cost,
                 path |-> result'.path]
  BY <1>3 DEF PromiseInv, TypeInv, TypeOK
<1>5. PathIsPromised'
  BY <1>1, <1>3, PromisedPathNext DEF PromiseInv, Found
<1>6. NoWalkBeats(graph, source, target, result'.cost)
  BY <1>1, <1>3, AnswersAreCheapestNext DEF NoCheaperWalk, Answered
<1>7. Promise!Route(result'.cost, result'.path)
  BY <1>1, <1>4, <1>5, <1>6, SameRivals, SameWalks
  DEF PathIsPromised, CostOf, Question, Answer, Promise!CostOf, Promise!Route
<1>8. QED
  BY <1>1, <1>2, <1>7, AsksNow
  DEF Valid, Refused, Question, Answer, NoResult, Promise!Reply, Promise!NoAnswer,
      Promise!ValidIds, Promise!Refused

-----------------------------------------------------------------------------
\* The caller does not see the loops turn.
LEMMA Stutters ==
    ASSUME PromiseInv, PromiseInv', graph' = graph, query' = query,
           pc \notin {"idle", "done"}, pc' \notin {"idle", "done"}
    PROVE  UNCHANGED Promise!vars
BY DEF query, Question, Answer, Promise!vars

LEMMA NextKeepsPromise ==
    Exact /\ PromiseInv /\ PromiseInv' /\ [Next]_vars
        => [Promise!Next]_(Promise!vars)
<1>1. SUFFICES ASSUME Exact, PromiseInv, PromiseInv', [Next]_vars
               PROVE  Promise!Next \/ UNCHANGED Promise!vars
  OBVIOUS
<1>2. ASSUME NEW a \in Algorithms, NEW s \in 0 .. graph.node_count,
             NEW t \in 0 .. graph.node_count, Ask(a, s, t)
      PROVE  Promise!Ask
  BY <1>2 DEF Ask, Question, Answer, Promise!Ask, Promise!NoQuestion
<1>3. CASE RejectId \/ RefuseHeuristic
  BY <1>1, <1>3, ReplyException DEF Promise!Next
<1>4. CASE Exhaust
  BY <1>1, <1>4, ReplyUnreachable DEF Promise!Next
<1>5. CASE WalkBack
  <2>1. CASE at = source
    BY <1>1, <1>5, <2>1, ReplyRoute DEF Promise!Next
  <2>2. CASE at # source
    BY <1>1, <1>5, <2>2, Stutters DEF WalkBack
  <2>3. QED
    BY <2>1, <2>2
<1>6. CASE Return
  <2>1. Answer # Promise!NoAnswer
    BY <1>1, <1>6
    DEF Return, PromiseInv, Served, Answer, Promise!NoAnswer
  <2>2. Promise!Forget
    BY <1>6, <2>1
    DEF Return, Question, Answer, NoResult, Promise!Forget, Promise!NoAnswer,
        Promise!NoQuestion
  <2>3. QED
    BY <2>2 DEF Promise!Next
<1>7. CASE Begin
  BY <1>1, <1>7, Stutters DEF Begin
<1>8. CASE \E e \in queue : PopStale(e) \/ ReachTarget(e) \/ Expand(e)
  BY <1>1, <1>8, Stutters DEF PopStale, ReachTarget, Expand, Settle, Pop, query
<1>9. CASE EndScan \/ PassArc \/ Relax
  BY <1>1, <1>9, Stutters DEF EndScan, PassArc, Relax, Scan
<1>10. CASE UNCHANGED vars
  BY <1>10 DEF vars, Question, Answer, Promise!vars
<1>11. QED
  BY <1>1, <1>2, <1>3, <1>4, <1>5, <1>6, <1>7, <1>8, <1>9, <1>10
  DEF Next, Step, Promise!Next

(***************************************************************************)
(* Every call that returns or throws does it with an answer the interface  *)
(* allows.  Without the straight-line heuristic that holds in every        *)
(* arithmetic; with it, where additions do not round.                      *)
(***************************************************************************)
THEOREM SearchKeepsThePromise ==
    ASSUME Exact
    PROVE  Spec => KeepsThePromise
<1>1. Init => Promise!Init
  BY DEF Init, Idle, Question, Answer, NoResult, Promise!Init,
         Promise!NoQuestion, Promise!NoAnswer
<1>2. PromiseInv /\ PromiseInv' /\ [Next]_vars
        => [Promise!Next]_(Promise!vars)
  BY NextKeepsPromise
<1>3. QED
  BY PromiseInvariant, <1>1, <1>2, PTL DEF Spec, KeepsThePromise, Promise!Spec
=============================================================================
