--------------------------- MODULE MCCommandLine ---------------------------
(***************************************************************************)
(* Command lines of every shape that parse() tells apart, and complete ones*)
(* for each command, on graphs whose identifiers are not their indices.    *)
(***************************************************************************)
EXTENDS CommandLine, GraphFamilies, Doubles

MCShifts == <<1, 1, 1>>
MCFactors == <<3, 1>>
MCSmears == <<1, 2>>

MCInfinity == 5
MCCost == 0 .. MCInfinity
MCPlus(a, b) == Nearest(MCCost, a + b)
MCCoord == {0, 1}
MCHypot(p, q) == Gap(p, q)

MCReplies == {2, 4}
MCEfforts == {[work |-> 1, largest |-> 1], [work |-> 1, largest |-> 2]}

-----------------------------------------------------------------------------
\* Node v is named v + 1, but the last one 0.
Renamed(g) ==
    [g EXCEPT !.external_id = [v \in Nodes(g) |-> (v + 1) % g.node_count]]

Ends == [v \in 0 .. 1 |-> v]
Bend == [v \in 0 .. 2 |-> IF v = 1 THEN 1 ELSE 0]

MCGraphs ==
    {Renamed(g) : g \in
        GraphsUpTo(Bend, {<<0, 1, 1>>, <<1, 2, 1>>, <<0, 2, 4>>, <<2, 0, 0>>}, 4)
        \cup {GraphOf(Ends, {}), GraphOf(Ends, {<<0, 1, 0>>}),
              GraphOf([v \in {0} |-> 0], {})}}

-----------------------------------------------------------------------------
\* Numbers below 8, the 64-bit ones; 5 is not a 32-bit one.  Anything else is
\* not a number.
MCIntegerOf(token) ==
    CASE token = "0" -> 0 [] token = "1" -> 1 [] token = "2" -> 2
      [] token = "3" -> 3 [] token = "5" -> 5
      [] OTHER -> Garbled

MCRealOf(token) == IF token = "x" THEN Garbled ELSE 1

MCUnusable(given) == given["--width"] = "0"

MCDashed == Keys \cup {"--force", "--bogus", "--help"}

Fragments == {"--nodes", "--edges", "--force", "--bogus", "n", ""}

Sequences(length) == [1 .. length -> Fragments]

Parsing == {<<"validate">> \o s : s \in UNION {Sequences(i) : i \in 0 .. 4}}

On(name) == <<name, "--nodes", "n", "--edges", "e">>

Routing ==
    {On("route") \o <<"--from", from, "--to", to, "--algorithm", algorithm>> :
        from \in {"0", "1", "x"}, to \in {"0", "2", "5", "x"},
        algorithm \in {"dijkstra", "astar-zero", "astar-euclidean", "fastest"}}

Benchmarking ==
    {On("benchmark") \o <<"--queries", count, "--seed", seed, "--repetitions", r>> :
        count \in {"0", "1", "5"}, seed \in {"3", "x"}, r \in {"0", "2"}}

Generating ==
    {<<"generate", "--width", width, "--height", height, "--seed", "5">>
        \o files \o extra :
        width \in {"0", "2", "5", "x"}, height \in {"2", "x"},
        files \in {<<>>, <<"--nodes", "n", "--edges", "e">>},
        extra \in {<<>>, <<"--force">>, <<"--jitter", "x">>, <<"--from", "1">>}}

MCCommandLines ==
    Parsing \cup Routing \cup Benchmarking \cup Generating
    \cup {<<>>, <<"help">>, <<"--help">>, <<"-h">>, <<"prove">>, <<"route">>}
    \cup {On("validate") \o extra : extra \in {<<"--force">>, <<"--seed", "1">>}}
    \cup {On("route") \o <<"--force">>, On("benchmark") \o <<"--width", "2">>}
=============================================================================
