---------------------------- MODULE MCBenchmark ----------------------------
(***************************************************************************)
(* Benchmarks with words of four bits.                                     *)
(***************************************************************************)
EXTENDS Benchmark, GraphFamilies, Doubles

MCShifts == <<2, 1, 2>>
MCFactors == <<13, 11>>
MCSmears == <<1, 2>>

\* Within a quarter, 5 agrees with 4 and with 6, which do not agree; up to 1.0,
\* which is 4, costs that differ by 1 agree.
MCInfinity == 12
MCCost == 0 .. MCInfinity
MCPlus(a, b) == Nearest(MCCost, a + b)
MCReplies == {4, 5, 6, MCInfinity}
MCCoord == {0, 1}
MCHypot(p, q) == Gap(p, q)

\* The same work, with another largest queue.
MCEfforts == {[work |-> 1, largest |-> 1], [work |-> 1, largest |-> 2]}

Isolated(n) == GraphOf([v \in 0 .. n - 1 |-> 0], {})
TooLight == GraphOf([v \in 0 .. 1 |-> v], {<<0, 1, 0>>})
MCGraphs == {Isolated(n) : n \in {1, 2, 3, 5}} \cup {TooLight}

Request(seed, count, repetitions) ==
    [seed |-> seed, count |-> count, repetitions |-> repetitions]

\* Every seed for the drawing; some for what comes after, which the queries
\* do not matter to.
MCRequests ==
    {Request(seed, 3, 0) : seed \in Words}
    \cup {Request(0, 0, 1), Request(0, 4, 1), Request(1, 1, 4), Request(2, 2, 1)}
=============================================================================
