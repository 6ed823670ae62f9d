-------------------------- MODULE MetricScanProofs --------------------------
(***************************************************************************)
(* Proofs about MetricScan, for every graph that a reader may meet and     *)
(* every distance and quotient that keep to their assumptions.             *)
(***************************************************************************)
EXTENDS MetricScan, FiniteSetTheorems, WellFoundedInduction, TLAPS

(***************************************************************************)
(* The inductive invariant.  Where the loops are tells which arcs are      *)
(* behind them, the first k of the array, and the report is the defined one*)
(* of those.  The verdict so far agrees with the worst ratio so far.       *)
(***************************************************************************)
InLoops ==
    LET n == graph.node_count IN
    /\ pc \in {"rows", "arcs", "done"}
    /\ pc = "rows" => source \in 0 .. n /\ k = graph.offset[source]
    /\ pc = "arcs" => /\ source \in 0 .. n - 1
                      /\ k \in graph.offset[source] .. graph.offset[source + 1]
    /\ pc = "done" => k = graph.arc_count

Violation(l) ==
    \E u \in 0 .. graph.node_count - 1 :
        /\ l \in graph.offset[u] .. graph.offset[u + 1] - 1
        /\ Violates(graph.coordinate, u, graph.arc[l])

Bad(m) == {l \in Arcs(graph) : l < m /\ Violation(l)}

\* The report of a set of violating arcs.
ReportOf(bad) ==
    LET first == CHOOSE l \in bad : \A m \in bad : l <= m
    IN  [passes |-> bad = {},
         violating_arcs |-> Cardinality(bad),
         first_violation_source |->
             IF bad = {} THEN 0
             ELSE RowOf(graph.node_count, graph.offset, first),
         first_violation_target |->
             IF bad = {} THEN 0 ELSE graph.arc[first].target]

ScanInv ==
    /\ graph \in Graphs
    /\ InLoops
    /\ report = ReportOf(Bad(k))
    /\ worst \in Cost
    /\ report.passes <=> worst >= One

-----------------------------------------------------------------------------
(***************************************************************************)
(* The arrays as the loops read them.                                      *)
(***************************************************************************)
LEMMA Arrays ==
    ASSUME graph \in Graphs
    PROVE  /\ graph.node_count \in Nat /\ graph.arc_count \in Nat
           /\ \A u \in 0 .. graph.node_count :
                graph.offset[u] \in 0 .. graph.arc_count
           /\ graph.offset[0] = 0
           /\ graph.offset[graph.node_count] = graph.arc_count
           /\ \A u, v \in 0 .. graph.node_count :
                u <= v => graph.offset[u] <= graph.offset[v]
           /\ DOMAIN graph.arc = Arcs(graph)
           /\ \A l \in Arcs(graph) :
                /\ graph.arc[l].target \in 0 .. graph.node_count - 1
                /\ graph.arc[l].weight \in Weight
           /\ \A u \in 0 .. graph.node_count - 1 : graph.coordinate[u] \in Coord
<1>1. IsCsr(graph)
  BY GraphsAssumption DEF IsGraph
<1>2. \A l \in Arcs(graph) : graph.arc[l] \in ArcType(graph.node_count)
  BY <1>1 DEF IsCsr
<1>3. QED
  BY <1>1, <1>2, LimitAssumption DEF IsCsr, ArcType, Nodes

\* The row of the arc at hand is the row of the outer loop.
LEMMA RowIsSource ==
    ASSUME graph \in Graphs, pc = "arcs", InLoops,
           k < graph.offset[source + 1]
    PROVE  /\ source \in 0 .. graph.node_count - 1
           /\ k \in Arcs(graph)
           /\ RowOf(graph.node_count, graph.offset, k) = source
           /\ Violation(k) <=> Violates(graph.coordinate, source, graph.arc[k])
<1>1. source \in 0 .. graph.node_count - 1 /\ source + 1 \in 0 .. graph.node_count
  BY Arrays DEF InLoops
<1>2. k \in graph.offset[source] .. graph.offset[source + 1]
  BY DEF InLoops
<1>3. k \in Nat /\ k \in graph.offset[source] .. graph.offset[source + 1] - 1
  BY <1>1, <1>2, Arrays
<1>4. k \in Arcs(graph)
  BY <1>1, <1>3, Arrays DEF Arcs
<1>5. ASSUME NEW u \in 0 .. graph.node_count - 1,
             k \in graph.offset[u] .. graph.offset[u + 1] - 1
      PROVE  u = source
  <2>1. u \in 0 .. graph.node_count /\ u + 1 \in 0 .. graph.node_count
    BY Arrays
  <2>2. u < source => graph.offset[u + 1] <= graph.offset[source]
    BY <2>1, <1>1, Arrays
  <2>3. source < u => graph.offset[source + 1] <= graph.offset[u]
    BY <2>1, <1>1, Arrays
  <2>4. /\ graph.offset[u] \in Nat /\ graph.offset[u + 1] \in Nat
        /\ graph.offset[source] \in Nat /\ graph.offset[source + 1] \in Nat
    BY <2>1, <1>1, Arrays
  <2>5. QED
    BY <1>5, <1>1, <1>3, <2>2, <2>3, <2>4, Arrays
<1>6. RowOf(graph.node_count, graph.offset, k) = source
  BY <1>1, <1>3, <1>5 DEF RowOf
<1>7. Violation(k) <=> Violates(graph.coordinate, source, graph.arc[k])
  BY <1>1, <1>3, <1>5 DEF Violation
<1>8. QED
  BY <1>1, <1>4, <1>6, <1>7

\* One more arc is behind the loops.
LEMMA OneMoreBad ==
    ASSUME graph \in Graphs, NEW m \in Arcs(graph)
    PROVE  /\ Bad(m + 1) = IF Violation(m) THEN Bad(m) \cup {m} ELSE Bad(m)
           /\ Bad(m) \in SUBSET (0 .. m - 1)
<1>1. m \in Nat /\ \A l \in Arcs(graph) : l \in Nat
  BY Arrays DEF Arcs
<1>2. ASSUME NEW l
      PROVE  l \in Bad(m + 1) <=> l \in Bad(m) \/ (l = m /\ Violation(m))
  <2>1. l \in Arcs(graph) => (l < m + 1 <=> l < m \/ l = m)
    BY <1>1
  <2>2. ~(m < m)
    BY <1>1
  <2>3. QED
    BY <2>1, <2>2, Zenon DEF Bad
<1>3. \A l \in Bad(m) : l \in 0 .. m - 1
  <2>1. \A l \in Arcs(graph) : l < m => l \in 0 .. m - 1
    BY <1>1
  <2>2. QED
    BY <2>1, Zenon DEF Bad
<1>4. QED
  BY <1>2, <1>3

\* Every set of naturals that has a member has a least one.
LEMMA LeastNatural ==
    ASSUME NEW T \in SUBSET Nat, T # {}
    PROVE  \E m \in T : \A j \in T : m <= j
<1> DEFINE Below == {0 .. j : j \in T}
           R == StrictSubsetOrdering(Nat)
<1>1. IsWellFoundedOn(R, FiniteSubsetsOf(Nat))
  BY FS_StrictSubsetOrderingWellFounded
<1>2. \A j \in T : 0 .. j \in FiniteSubsetsOf(Nat)
  BY FS_Interval DEF FiniteSubsetsOf
<1>3. Below \subseteq FiniteSubsetsOf(Nat) /\ Below # {}
  BY <1>2
<1>4. PICK X \in Below : \A Y \in Below : <<Y, X>> \notin R
  <2> HIDE DEF Below, R
  <2> QED
    BY <1>1, <1>3, WFMin
<1>5. PICK m \in T : X = 0 .. m
  OBVIOUS
<1>6. ASSUME NEW j \in T, j < m PROVE FALSE
  <2>1. 0 .. j \subseteq 0 .. m /\ 0 .. j # 0 .. m
    <3>1. m \in Nat /\ j \in Nat
      OBVIOUS
    <3>2. m \in 0 .. m /\ m \notin 0 .. j
      BY <3>1, <1>6
    <3>3. \A i \in 0 .. j : i \in 0 .. m
      BY <3>1, <1>6
    <3>4. QED
      BY <3>2, <3>3
  <2>2. <<0 .. j, 0 .. m>> \in R
    <3>1. 0 .. j \in SUBSET Nat /\ 0 .. m \in SUBSET Nat
      OBVIOUS
    <3>2. QED
      BY <2>1, <3>1 DEF StrictSubsetOrdering
  <2>3. QED
    BY <1>4, <1>5, <2>2
<1>7. QED
  BY <1>6

\* Adding an arc beyond all others leaves the first one the first.
LEMMA FirstStays ==
    ASSUME NEW m \in Nat, NEW bad \in SUBSET (0 .. m - 1), bad # {}
    PROVE  (CHOOSE l \in bad \cup {m} : \A j \in bad \cup {m} : l <= j)
             = CHOOSE l \in bad : \A j \in bad : l <= j
<1>1. PICK first \in bad : \A j \in bad : first <= j
  <2>1. bad \in SUBSET Nat
    OBVIOUS
  <2>2. QED
    BY <2>1, LeastNatural
<1>2. first \in 0 .. m - 1 /\ \A j \in bad : j \in 0 .. m - 1
  OBVIOUS
<1>3. (CHOOSE l \in bad : \A j \in bad : l <= j) = first
  <2>1. ASSUME NEW l \in bad, \A j \in bad : l <= j PROVE l = first
    <3>1. l <= first /\ first <= l
      BY <1>1, <2>1
    <3>2. QED
      BY <3>1, <1>2
  <2>2. QED
    BY <1>1, <2>1
<1>4. (CHOOSE l \in bad \cup {m} : \A j \in bad \cup {m} : l <= j) = first
  <2>1. \A j \in bad \cup {m} : first <= j
    BY <1>1, <1>2
  <2>2. ASSUME NEW l \in bad \cup {m}, \A j \in bad \cup {m} : l <= j
        PROVE  l = first
    <3>1. l <= first /\ first <= l
      BY <2>1, <2>2
    <3>2. l \in Nat
      BY <1>2
    <3>3. QED
      BY <3>1, <3>2, <1>2
  <2>3. QED
    BY <2>1, <2>2
<1>5. QED
  BY <1>3, <1>4

-----------------------------------------------------------------------------
(***************************************************************************)
(* The report after one more arc.                                          *)
(***************************************************************************)
LEMMA GoodArc ==
    ASSUME graph \in Graphs, NEW m \in Arcs(graph), ~Violation(m)
    PROVE  ReportOf(Bad(m + 1)) = ReportOf(Bad(m))
BY OneMoreBad

LEMMA BadArc ==
    ASSUME graph \in Graphs, pc = "arcs", InLoops,
           k < graph.offset[source + 1], Violation(k),
           report = ReportOf(Bad(k))
    PROVE  ReportOf(Bad(k + 1)) = CountViolation(report)
<1> DEFINE bad == Bad(k)
           more == bad \cup {k}
           First(S) == CHOOSE l \in S : \A j \in S : l <= j
<1>1. /\ k \in Arcs(graph) /\ k \in Nat
      /\ RowOf(graph.node_count, graph.offset, k) = source
  BY RowIsSource, Arrays DEF Arcs
<1>2. Bad(k + 1) = more /\ bad \in SUBSET (0 .. k - 1)
  BY <1>1, OneMoreBad
<1>3. IsFiniteSet(bad) /\ k \notin bad
  <2>1. IsFiniteSet(0 .. k - 1)
    BY <1>1, FS_Interval
  <2>2. k \notin 0 .. k - 1
    BY <1>1
  <2>3. QED
    BY <2>1, <2>2, <1>2, FS_Subset
<1>4. /\ Cardinality(more) = Cardinality(bad) + 1
      /\ Cardinality(bad) \in Nat
      /\ Cardinality(bad) = 0 <=> bad = {}
  BY <1>3, FS_AddElement, FS_EmptySet, FS_CardinalityType
<1> HIDE DEF bad
<1>5. bad # {} => First(more) = First(bad)
  BY <1>1, <1>2, FirstStays
<1>6. bad = {} => First(more) = k
  BY <1>1
<1> HIDE DEF First
<1>7. ReportOf(more) =
        [passes |-> FALSE,
         violating_arcs |-> Cardinality(bad) + 1,
         first_violation_source |->
            RowOf(graph.node_count, graph.offset, First(more)),
         first_violation_target |-> graph.arc[First(more)].target]
  BY <1>4 DEF ReportOf, First
<1>8. ReportOf(bad) =
        [passes |-> bad = {},
         violating_arcs |-> Cardinality(bad),
         first_violation_source |->
            IF bad = {} THEN 0
            ELSE RowOf(graph.node_count, graph.offset, First(bad)),
         first_violation_target |->
            IF bad = {} THEN 0 ELSE graph.arc[First(bad)].target]
  BY DEF ReportOf, First
<1>9. report = ReportOf(bad)
  BY DEF bad
<1>10. /\ report.violating_arcs = Cardinality(bad)
       /\ bad # {} => /\ report.first_violation_source =
                          RowOf(graph.node_count, graph.offset, First(bad))
                      /\ report.first_violation_target =
                          graph.arc[First(bad)].target
  BY <1>8, <1>9
<1>11. CountViolation(report) =
        [passes |-> FALSE,
         violating_arcs |-> Cardinality(bad) + 1,
         first_violation_source |->
            IF bad = {} THEN source
            ELSE RowOf(graph.node_count, graph.offset, First(bad)),
         first_violation_target |->
            IF bad = {} THEN graph.arc[k].target
            ELSE graph.arc[First(bad)].target]
  BY <1>4, <1>10 DEF CountViolation, arc
<1>12. ReportOf(more) = CountViolation(report)
  <2>1. CASE bad = {}
    BY <1>1, <1>6, <1>7, <1>11, <2>1
  <2>2. CASE bad # {}
    BY <1>5, <1>7, <1>11, <2>2
  <2>3. QED
    BY <2>1, <2>2
<1>13. QED
  BY <1>2, <1>12

-----------------------------------------------------------------------------
(***************************************************************************)
(* The invariant holds before the first row and after every step.          *)
(***************************************************************************)
LEMMA InitScanInv == Init => ScanInv
<1>1. SUFFICES ASSUME Init PROVE ScanInv
  OBVIOUS
<1>2. graph \in Graphs /\ pc = "rows" /\ source = 0 /\ k = 0 /\ worst = Infinity
  BY <1>1 DEF Init
<1>3. InLoops
  BY <1>2, Arrays DEF InLoops
<1>4. Bad(k) = {}
  <2>1. \A l \in Arcs(graph) : ~(l < k)
    BY <1>2, Arrays DEF Arcs
  <2>2. QED
    BY <2>1 DEF Bad
<1>5. report = ReportOf(Bad(k)) /\ report.passes
  <2>1. ReportOf({}) = CleanReport
    BY FS_EmptySet DEF ReportOf, CleanReport
  <2>2. CleanReport.passes
    BY DEF CleanReport
  <2>3. QED
    BY <1>1, <1>4, <2>1, <2>2 DEF Init
<1>6. worst \in Cost /\ worst >= One
  BY <1>2, CostAssumption, QuotientAssumption
<1>7. QED
  BY <1>2, <1>3, <1>5, <1>6 DEF ScanInv

\* A step of the outer loop.
LEMMA RowKeepsScanInv ==
    ASSUME ScanInv, StartRow \/ EndRow \/ Finish
    PROVE  ScanInv'
<1>1. /\ graph' = graph /\ report' = report /\ worst' = worst
      /\ graph \in Graphs
  BY DEF StartRow, EndRow, Finish, ScanInv
<1>2. InLoops' /\ k' = k
  <2>1. CASE StartRow
    <3>1. /\ source \in 0 .. graph.node_count /\ source < graph.node_count
          /\ k = graph.offset[source] /\ pc' = "arcs" /\ source' = source
          /\ k' = k
      BY <2>1 DEF StartRow, ScanInv, InLoops
    <3>2. source \in 0 .. graph.node_count - 1 /\ source + 1 \in 0 .. graph.node_count
      BY <3>1, <1>1, Arrays
    <3>3. k \in graph.offset[source] .. graph.offset[source + 1]
      BY <3>1, <3>2, <1>1, Arrays
    <3>4. QED
      BY <3>1, <3>2, <3>3, <1>1 DEF InLoops
  <2>2. CASE EndRow
    <3>1. /\ source \in 0 .. graph.node_count - 1
          /\ k = graph.offset[source + 1]
          /\ pc' = "rows" /\ source' = source + 1 /\ k' = k
      BY <2>2 DEF EndRow, ScanInv, InLoops
    <3>2. source + 1 \in 0 .. graph.node_count
      BY <3>1, <1>1, Arrays
    <3>3. QED
      BY <3>1, <3>2, <1>1 DEF InLoops
  <2>3. CASE Finish
    BY <2>3, <1>1, Arrays DEF Finish, ScanInv, InLoops
  <2>4. QED
    BY <2>1, <2>2, <2>3
<1>3. ReportOf(Bad(k))' = ReportOf(Bad(k))
  BY <1>1, <1>2 DEF ReportOf, Bad, Violation
<1>4. QED
  BY <1>1, <1>2, <1>3 DEF ScanInv

\* The verdict and the worst ratio take an arc alike.
LEMMA VerdictsMoveTogether ==
    ASSUME ScanInv, ScanArc
    PROVE  /\ worst' \in Cost
           /\ report'.passes <=> worst' >= One
<1>1. /\ graph \in Graphs /\ source \in 0 .. graph.node_count - 1
      /\ k \in Arcs(graph)
  BY RowIsSource DEF ScanInv, ScanArc
<1>2. /\ arc.weight \in Weight /\ distance \in Cost
  BY <1>1, Arrays, HypotAssumption DEF arc, distance
<1>3. /\ One \in Nat /\ worst \in Nat /\ worst \in Cost /\ arc.weight \in Nat
      /\ distance \in Nat /\ One \in Cost
  BY <1>2, CostAssumption, QuotientAssumption DEF ScanInv, Weight
<1> DEFINE q == Quotient(arc.weight, distance)
<1>4. distance > 0 => /\ q \in Cost /\ q \in Nat
                      /\ q >= One <=> arc.weight >= distance
  <2>1. ASSUME NEW w \in Weight, NEW d \in Cost, d # 0
        PROVE  /\ Quotient(w, d) \in Cost
               /\ Quotient(w, d) >= One <=> w >= d
    BY <2>1, QuotientAssumption
  <2>2. distance > 0 => distance # 0
    BY <1>3
  <2>3. distance > 0 => q \in Cost /\ (q >= One <=> arc.weight >= distance)
    BY <2>1, <2>2, <1>2
  <2>4. QED
    BY <2>3, CostAssumption
<1> HIDE DEF q
<1>5. worst' = IF distance > 0 /\ q < worst THEN q ELSE worst
  BY DEF ScanArc, WorstWith, q
<1>6. report'.passes <=> report.passes /\ arc.weight >= distance
  <2>1. CASE arc.weight >= distance
    BY <2>1 DEF ScanArc
  <2>2. CASE ~(arc.weight >= distance)
    BY <2>2 DEF ScanArc, CountViolation
  <2>3. QED
    BY <2>1, <2>2
<1>7. report.passes <=> worst >= One
  BY DEF ScanInv
<1>8. worst' \in Cost
  BY <1>3, <1>4, <1>5
<1>9. worst' >= One <=> worst >= One /\ arc.weight >= distance
  BY <1>3, <1>4, <1>5
<1>10. QED
  BY <1>6, <1>7, <1>8, <1>9

LEMMA ArcKeepsScanInv ==
    ASSUME ScanInv, ScanArc
    PROVE  ScanInv'
<1>1. /\ graph' = graph /\ pc' = pc /\ source' = source /\ k' = k + 1
      /\ pc = "arcs" /\ k < graph.offset[source + 1]
      /\ graph \in Graphs /\ InLoops /\ report = ReportOf(Bad(k))
  BY DEF ScanArc, ScanInv
<1>2. /\ source \in 0 .. graph.node_count - 1
      /\ k \in Arcs(graph)
      /\ RowOf(graph.node_count, graph.offset, k) = source
  BY <1>1, RowIsSource
<1>3. InLoops'
  <2>1. k \in graph.offset[source] .. graph.offset[source + 1]
    BY <1>1 DEF InLoops
  <2>2. /\ graph.offset[source] \in Nat /\ graph.offset[source + 1] \in Nat
    BY <1>1, <1>2, Arrays
  <2>3. k + 1 \in graph.offset[source] .. graph.offset[source + 1]
    BY <2>1, <2>2, <1>1
  <2>4. QED
    BY <2>3, <1>1, <1>2 DEF InLoops
<1>4. Violation(k) <=> ~(arc.weight >= distance)
  BY <1>1, RowIsSource DEF Violates, arc, distance
<1>5. report' = ReportOf(Bad(k + 1))
  <2>1. CASE Violation(k)
    BY <2>1, <1>1, <1>4, BadArc DEF ScanArc
  <2>2. CASE ~Violation(k)
    BY <2>2, <1>1, <1>2, <1>4, GoodArc DEF ScanArc
  <2>3. QED
    BY <2>1, <2>2
<1>6. ReportOf(Bad(k))' = ReportOf(Bad(k + 1))
  BY <1>1 DEF ReportOf, Bad, Violation
<1>7. QED
  BY <1>1, <1>3, <1>5, <1>6, VerdictsMoveTogether DEF ScanInv

LEMMA NextScanInv == ScanInv /\ [Next]_vars => ScanInv'
<1>1. SUFFICES ASSUME ScanInv, [Next]_vars PROVE ScanInv'
  OBVIOUS
<1>2. CASE Next
  BY <1>1, <1>2, RowKeepsScanInv, ArcKeepsScanInv DEF Next
<1>3. CASE UNCHANGED vars
  <2>1. UNCHANGED <<graph, pc, source, k, report, worst>>
    BY <1>3 DEF vars
  <2>2. QED
    BY <1>1, <2>1
       DEF ScanInv, InLoops, ReportOf, Bad, Violation
<1>4. QED
  BY <1>1, <1>2, <1>3

(***************************************************************************)
(* The loops keep the report of what is behind them.                       *)
(***************************************************************************)
THEOREM ScanInvariant == Spec => []ScanInv
<1>1. QED
  BY InitScanInv, NextScanInv, PTL DEF Spec

(***************************************************************************)
(* The report that compute_metric_report returns is the one metric.hpp     *)
(* defines, which Graph takes for the one that a graph stores: the search  *)
(* refuses the straight-line heuristic on exactly the graphs it should.    *)
(***************************************************************************)
THEOREM ScanReportsTheDefinedOne == Spec => []ReportIsTheDefinedOne
<1>1. ScanInv => ReportIsTheDefinedOne
  <2>1. SUFFICES ASSUME ScanInv, pc = "done" PROVE report = graph.metric
    BY DEF ReportIsTheDefinedOne
  <2>2. graph \in Graphs /\ k = graph.arc_count /\ report = ReportOf(Bad(k))
    BY <2>1 DEF ScanInv, InLoops
  <2>3. Bad(k) = Violations(graph.node_count, graph.coordinate, graph.offset,
                            graph.arc)
    <3>1. /\ DOMAIN graph.arc = Arcs(graph)
          /\ \A l \in Arcs(graph) : l < k
      BY <2>2, Arrays DEF Arcs
    <3>2. QED
      BY <3>1 DEF Bad, Violations, Violation
  <2>4. graph.metric = MetricReport(graph.node_count, graph.coordinate,
                                    graph.offset, graph.arc)
    BY <2>2, GraphsAssumption DEF IsGraph, ReportIsRight
  <2>5. QED
    BY <2>2, <2>3, <2>4 DEF MetricReport, ReportOf
<1>2. QED
  BY ScanInvariant, <1>1, PTL

(***************************************************************************)
(* The two verdicts that the program prints side by side, passes and       *)
(* worst_ratio, never contradict each other.                               *)
(***************************************************************************)
THEOREM VerdictsAgree == Spec => []VerdictMatchesWorstRatio
<1>1. ScanInv => VerdictMatchesWorstRatio
  BY DEF ScanInv, VerdictMatchesWorstRatio
<1>2. QED
  BY ScanInvariant, <1>1, PTL
=============================================================================
