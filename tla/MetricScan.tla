----------------------------- MODULE MetricScan -----------------------------
(***************************************************************************)
(* compute_metric_report (metric.cpp): the loop over the rows and the arcs *)
(* of a CSR graph that the Graph constructor runs once.  The scan reads    *)
(* the arrays and not the graph, whose metric field is what the report is  *)
(* compared with.                                                          *)
(***************************************************************************)
EXTENDS Graph

CONSTANTS Graphs,           \* the graphs whose arrays are scanned
          Quotient(_, _),   \* Quotient(w, d): w / d, rounded, for d > 0
          One               \* the double 1.0 on the scale of Quotient

ASSUME GraphsAssumption == \A g \in Graphs : IsGraph(g)

\* Division of doubles is monotone and keeps a quotient on its side of 1.0; a
\* finite weight over a distance that overflowed is 0.
ASSUME QuotientAssumption ==
    /\ One \in Cost
    /\ \A w \in Weight, d \in Cost \ {0} :
        /\ Quotient(w, d) \in Cost
        /\ Quotient(w, d) >= One <=> w >= d

VARIABLES graph,    \* the arrays, fixed
          pc,       \* "rows", "arcs" or "done"
          source,   \* the row
          k,        \* the arc
          report,   \* MetricReport without worst_ratio
          worst     \* report.worst_ratio

vars == <<graph, pc, source, k, report, worst>>

CleanReport == [passes |-> TRUE, violating_arcs |-> 0,
                first_violation_source |-> 0, first_violation_target |-> 0]

Init ==
    /\ graph \in Graphs
    /\ pc = "rows" /\ source = 0 /\ k = 0
    /\ report = CleanReport
    /\ worst = Infinity

\* The outer loop; without nodes there is not a single row.
StartRow ==
    /\ pc = "rows" /\ source < graph.node_count
    /\ k' = graph.offset[source]
    /\ pc' = "arcs"
    /\ UNCHANGED <<graph, source, report, worst>>

Finish ==
    /\ pc = "rows" /\ source = graph.node_count
    /\ pc' = "done"
    /\ UNCHANGED <<graph, source, k, report, worst>>

EndRow ==
    /\ pc = "arcs" /\ k = graph.offset[source + 1]
    /\ source' = source + 1
    /\ pc' = "rows"
    /\ UNCHANGED <<graph, k, report, worst>>

-----------------------------------------------------------------------------
arc == graph.arc[k]

distance == Hypot(graph.coordinate[source], graph.coordinate[arc.target])

Bug_CountAndOverwrite(r) ==
    [passes |-> FALSE,
     violating_arcs |-> r.violating_arcs + 1,
     first_violation_source |-> source,
     first_violation_target |-> arc.target]

\* The report after one more violating arc: only the first one is named.
CountViolation(r) ==
    [passes |-> FALSE,
     violating_arcs |-> r.violating_arcs + 1,
     first_violation_source |->
        IF r.violating_arcs = 0 THEN source ELSE r.first_violation_source,
     first_violation_target |->
        IF r.violating_arcs = 0 THEN arc.target ELSE r.first_violation_target]

Bug_WorstIsLast(r) == IF distance > 0 THEN Quotient(arc.weight, distance) ELSE r

\* Zero-distance arcs do not take part in the worst ratio.
WorstWith(r) ==
    IF distance > 0 /\ Quotient(arc.weight, distance) < r
    THEN Quotient(arc.weight, distance)
    ELSE r

ScanArc ==
    /\ pc = "arcs" /\ k < graph.offset[source + 1]
    /\ report' = IF ~(arc.weight >= distance)
                 THEN CountViolation(report) ELSE report
    /\ worst' = WorstWith(worst)
    /\ k' = k + 1
    /\ UNCHANGED <<graph, pc, source>>

Next == StartRow \/ ScanArc \/ EndRow \/ Finish

Spec == Init /\ [][Next]_vars

-----------------------------------------------------------------------------
(***************************************************************************)
(* The loop's report is the one that metric.hpp defines: it counts exactly *)
(* the arcs lighter than the line between their ends, and the violation it *)
(* names is the first in canonical order.                                  *)
(***************************************************************************)
ReportIsTheDefinedOne == pc = "done" => report = graph.metric

(***************************************************************************)
(* The two verdicts printed side by side agree: the contract passes exactly*)
(* when no weight is less than its distance, which is worst_ratio >= 1.    *)
(* Checked as two conditions on different floating-point expressions.      *)
(***************************************************************************)
VerdictMatchesWorstRatio == pc = "done" => (report.passes <=> worst >= One)
=============================================================================
