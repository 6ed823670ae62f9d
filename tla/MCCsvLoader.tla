--------------------------- MODULE MCCsvLoader ---------------------------
(***************************************************************************)
(* The loader on files of up to MaxLines lines, drawn from lines that      *)
(* differ in what the loader tells apart: headers, skipped lines, a        *)
(* byte-order mark, good rows, two spellings of one id, one id more than   *)
(* there may be nodes, and one row for every kind of fault.                *)
(***************************************************************************)
EXTENDS CsvLoader, Doubles

MCInfinity == 2
MCCost == 0 .. MCInfinity
MCPlus(a, b) == Nearest(MCCost, a + b)
MCCoord == {0, 1}
MCHypot(p, q) == Gap(p, q)
MCOrders(arcs) == [DOMAIN arcs -> DOMAIN arcs]

MCIdOf ==
    [token \in {"0", "1", "01", "2"} |->
        CASE token = "0" -> 0 [] token = "2" -> 2 [] OTHER -> 1]

MCNumberOf ==
    [token \in {"0", "1", "01", "-1", "inf"} |->
        CASE token = "0"   -> 0
          [] token = "-1"  -> Negative
          [] token = "inf" -> NonFinite
          [] OTHER         -> 1]

MCCoordOf(x, y) == IF x = "0" THEN 0 ELSE 1

Line(fields) == [bom |-> FALSE, fields |-> fields]
MarkedLine(fields) == [bom |-> TRUE, fields |-> fields]

MCLines ==
    {Line(fields) : fields \in
        {<<"">>, NodeHeader, EdgeHeader,
         <<"0", "1", "0">>, <<"01", "0", "1">>, <<"1", "1", "1">>,
         <<"0", "01", "inf">>, <<"1", "0", "-1">>, <<"-1", "0", "0">>,
         <<"2", "1", "0">>, <<"0", "1">>, <<"0", "", "1">>}}
    \cup {MarkedLine(NodeHeader), MarkedLine(EdgeHeader), MarkedLine(<<"#">>),
          MarkedLine(<<"0", "0", "0">>)}
=============================================================================
