----------------------------- MODULE MCLattice -----------------------------
(***************************************************************************)
(* Lattices of up to seven nodes that count modulo eight, on integer       *)
(* coordinates; the longer of the two axis distances stands for hypot.     *)
(***************************************************************************)
EXTENDS Lattice, Doubles

MCMaxNodes == 7

\* Coordinates are rounded, some to where another node is; beyond 48 they
\* overflow, and so do distances beyond 24.
Axes == {-4, -2, 0, 1, 2, 6, 8, 12, 16, 24, 32, 40, 48}
MCAxis(value) == IF value > 48 THEN NonFinite ELSE Nearest(Axes, value)
MCInfinity == 25
MCCost == 0 .. MCInfinity
MCPlus(a, b) == Nearest(MCCost, a + b)

MCCoord == [x : Axes, y : Axes]

Longer(a, b) == IF a < b THEN b ELSE a
MCHypot(p, q) == Nearest(MCCost, Longer(Gap(p.x, q.x), Gap(p.y, q.y)))

MCOrigin == [x |-> 0, y |-> 0]

\* The one order in which no arc comes after one it precedes; equal arcs keep
\* theirs.
MCOrders(arcs) ==
    LET rank(i) == Cardinality({j \in DOMAIN arcs :
                        \/ Before(arcs[j], arcs[i])
                        \/ ~Before(arcs[i], arcs[j]) /\ j <= i})
    IN  {[k \in DOMAIN arcs |-> CHOOSE i \in DOMAIN arcs : rank(i) = k]}

Lattice(width, height, spacing, jitter, rate) ==
    [width |-> width, height |-> height, spacing |-> spacing,
     jitter |-> jitter, rate |-> rate]

\* Whole is 4: a jitter of 1 is a quarter of the spacing, a rate of 2 one half.
MCParams ==
    {Lattice(2, 2, 8, 1, rate) : rate \in {0, 2, 4}}
    \cup {Lattice(w, h, 8, 0, 2) : w \in {1, 2, 3, 7}, h \in {1, 2, 3}}
    \cup {Lattice(3, 2, 8, 0, 0), Lattice(2, 3, 8, 0, 4), Lattice(4, 4, 8, 0, 0),
          Lattice(1, 2, 16, 1, 0), Lattice(4, 1, 24, 0, 0), Lattice(2, 1, 32, 0, 0),
          Lattice(4, 1, 1, 0, 0),
          Lattice(0, 2, 8, 0, 0), Lattice(2, 0, 8, 0, 0)}
    \cup {Lattice(2, 2, spacing, 0, 0) : spacing \in {0, NonFinite}}
    \cup {Lattice(2, 2, 8, jitter, 0) : jitter \in {-1, 2, NonFinite}}
    \cup {Lattice(2, 2, 8, 0, rate) : rate \in {-1, 5, NonFinite}}
=============================================================================
