------------------------------ MODULE MCSearch ------------------------------
(***************************************************************************)
(* The arithmetics, graphs and rival routes that the search is checked on. *)
(***************************************************************************)
EXTENDS Search, GraphFamilies, Doubles

(***************************************************************************)
(* Exact addition that overflows: costs 0 .. 6 and +infinity, so that two  *)
(* arcs of weight 4 already add up to nothing finite.                      *)
(***************************************************************************)
MCInfinity == 7
MCCost == 0 .. MCInfinity
MCPlus(a, b) == Nearest(MCCost, a + b)
MCCoord == 0 .. 2
MCHypot(p, q) == Gap(p, q)

\* Three nodes on a line, up to three arcs between them, parallel arcs, cycles
\* and a self-loop included; 1 is the distance of neighbours, so weight 0
\* breaks the contract.
Line == [v \in 0 .. 2 |-> v]
LineArcs == {a \in (0 .. 2) \X (0 .. 2) \X {0, 1, 4} :
                a[1] # a[2] \/ a = <<1, 1, 0>>}

\* Four nodes, two of them in one place, with detours that undercut a direct
\* arc, one of them leading away from the target: stale entries, ties, a cycle,
\* a parallel arc, and one arc (2 to 3) that breaks the contract.
Folded == [v \in 0 .. 3 |-> CASE v = 1 -> 0 [] v = 2 -> 2 [] OTHER -> 1]
Detours == {<<0, 1, 1>>, <<0, 1, 3>>, <<0, 2, 4>>, <<0, 3, 0>>, <<1, 0, 1>>,
            <<1, 2, 2>>, <<2, 3, 0>>, <<3, 1, 3>>, <<3, 2, 1>>}

\* The estimate of the two nodes next to the source overflows although their
\* distance does not: they leave the queue by their index, the farther first.
Remote == [v \in 0 .. 3 |-> IF v = 3 THEN 2 ELSE 0]
NearOverflow == {<<0, 1, 6>>, <<0, 2, 5>>, <<2, 1, 0>>, <<1, 3, 4>>}

MCGraphs ==
    GraphsUpTo(Line, LineArcs, 3) \cup GraphsUpTo(Folded, Detours, 9)
        \cup GraphsUpTo(Remote, NearOverflow, 4)

-----------------------------------------------------------------------------
(***************************************************************************)
(* Rounding addition: numbers of two significant bits up to 12.  Four nodes*)
(* on a line, two of them in one place; 1 to 6 is the distance 5, which    *)
(* rounds to 4.                                                            *)
(***************************************************************************)
RoundedInfinity == 16
RoundedPlus(a, b) == Nearest(TwoBits, a + b)
RoundedCoord == {0, 1, 6}
RoundedHypot(p, q) == Nearest(TwoBits, Gap(p, q))

Uneven == [v \in 0 .. 3 |-> CASE v = 1 -> 1 [] v = 2 -> 6 [] OTHER -> 0]
UnevenArcs == {<<0, 2, 6>>, <<0, 3, 0>>, <<0, 1, 2>>, <<1, 2, 4>>, <<1, 2, 12>>,
               <<3, 1, 1>>, <<3, 2, 8>>, <<2, 3, 12>>, <<1, 0, 3>>}

RoundedGraphs == GraphsUpTo(Uneven, UnevenArcs, 9)
=============================================================================
