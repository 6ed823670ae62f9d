---------------------------- MODULE MCMetricScan ----------------------------
(***************************************************************************)
(* MetricScan on graphs of no node, one node and four nodes on a line, two *)
(* of them in one place and one so far away that its distances overflow.   *)
(* A quotient is counted in halves, so that 1.0 is 2.                      *)
(***************************************************************************)
EXTENDS MetricScan, GraphFamilies, Doubles

MCInfinity == 9
MCCost == 0 .. MCInfinity
MCPlus(a, b) == Nearest(MCCost, a + b)
MCCoord == {0, 1, 20}
MCHypot(p, q) == Nearest(MCCost, Gap(p, q))
MCQuotient(w, d) == Nearest(MCCost, (2 * w) \div d)

Empty == [v \in {} |-> 0]
Single == [v \in {0} |-> 1]
Spread == [v \in 0 .. 3 |-> CASE v = 0 -> 1 [] v = 1 -> 0 [] v = 2 -> 20
                              [] OTHER -> 1]
SpreadArcs == {<<0, 1, 0>>, <<0, 1, 1>>, <<0, 3, 0>>, <<0, 3, 2>>, <<1, 2, 8>>,
               <<1, 3, 6>>, <<2, 2, 0>>, <<3, 0, 0>>, <<3, 1, 0>>}

MCGraphs ==
    GraphsUpTo(Empty, {}, 0) \cup GraphsUpTo(Single, {<<0, 0, 0>>, <<0, 0, 3>>}, 2)
        \cup GraphsUpTo(Spread, SpreadArcs, 9)
=============================================================================
