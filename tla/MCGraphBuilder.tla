--------------------------- MODULE MCGraphBuilder ---------------------------
(***************************************************************************)
(* GraphBuilder on a line of two points, exact arithmetic.                 *)
(***************************************************************************)
EXTENDS GraphBuilder, Doubles

MCInfinity == 2
MCCost == 0 .. MCInfinity
MCPlus(a, b) == Nearest(MCCost, a + b)
MCCoord == {0, 1}
MCHypot(p, q) == Gap(p, q)
MCOrders(arcs) == [DOMAIN arcs -> DOMAIN arcs]
=============================================================================
