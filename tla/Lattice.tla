------------------------------ MODULE Lattice ------------------------------
(***************************************************************************)
(* The lattice generator (generator.cpp: validate_generator_params and     *)
(* generate): three passes over a grid of sites that place the nodes, join *)
(* the neighbours and offer the diagonals, driving a GraphBuilder.         *)
(*                                                                         *)
(* One step is one turn of a loop, or one arc that connect() adds.  The    *)
(* draws of next_unit are any values in [0, 1), so that a property holds   *)
(* for every seed; `drawn` is the position in the stream.  Indices count   *)
(* modulo 2^32, and the check of the size modulo 2^64, which is the square *)
(* of it.                                                                  *)
(***************************************************************************)
EXTENDS GraphBuilder

CONSTANTS
    Modulus,      \* std::uint32_t counts modulo this
    Units,        \* what next_unit may return, in parts of Whole
    Whole,        \* 1.0: the scale of units, jitter and diagonal_rate
    Params,       \* the parameters generate() may be called with
    Axis(_)       \* the double nearest to a coordinate, or NonFinite

Word == 0 .. Modulus - 1

ASSUME LatticeAssumption ==
    /\ Modulus \in Nat \ {0} /\ MaxNodes = Modulus - 1
    /\ Whole \in Nat \ {0} /\ Units \subseteq 0 .. Whole - 1
    /\ 1 .. MaxNodes \subseteq ExternalId
    /\ \A p \in Params :
        /\ p.width \in Word /\ p.height \in Word
        /\ \A x \in {p.spacing, p.jitter, p.rate} : x = NonFinite \/ x \in Int

\* "std::hypot is even in each argument" (generator.cpp:92).
ASSUME HypotIsEven == \A p, q \in Coord : Hypot(p, q) = Hypot(q, p)

VARIABLES
    params,   \* the argument of generate()
    pass,     \* which of its passes runs
    cell,     \* how many cells of the pass are done
    sites,    \* its local vector of coordinates
    todo,     \* arcs that connect() has still to add
    drawn,    \* how many units the stream has given
    accepted, \* the diagonals taken, as sets of two nodes
    failure   \* why it threw

latticeVars == <<params, pass, cell, sites, todo, drawn, accepted, failure>>

allVars == <<vars, latticeVars>>

-----------------------------------------------------------------------------
(***************************************************************************)
(* validate_generator_params: the product is that of 64-bit integers, and  *)
(* cannot wrap around; node_count is that of 32-bit ones.                  *)
(***************************************************************************)
Bug_ProductOfWords(p) ==
    /\ p.width # 0 /\ p.height # 0
    /\ p.spacing # NonFinite /\ p.spacing > 0
    /\ p.jitter # NonFinite /\ p.jitter >= 0 /\ 2 * p.jitter < Whole
    /\ p.rate # NonFinite /\ p.rate >= 0 /\ p.rate <= Whole
    /\ (p.width * p.height) % Modulus <= MaxNodes

Usable(p) ==
    /\ p.width # 0 /\ p.height # 0
    /\ p.spacing # NonFinite /\ p.spacing > 0
    /\ p.jitter # NonFinite /\ p.jitter >= 0 /\ 2 * p.jitter < Whole
    /\ p.rate # NonFinite /\ p.rate >= 0 /\ p.rate <= Whole
    /\ (p.width * p.height) % (Modulus * Modulus) <= MaxNodes

NodeCount(p) == (p.width * p.height) % Modulus

LatticeInit ==
    /\ Init
    /\ params \in Params
    /\ pass = "validate"
    /\ cell = 0
    /\ sites = NoVector
    /\ todo = <<>>
    /\ drawn = 0
    /\ accepted = {}
    /\ failure = "none"

\* generate() throws, in a check of its own or in a call of the builder.
Throw(why) ==
    /\ pass' = "failed"
    /\ failure' = why
    /\ UNCHANGED <<params, cell, sites, todo, drawn, accepted>>

Reject ==
    /\ pass = "validate"
    /\ ~Usable(params)
    /\ Throw("params")
    /\ UNCHANGED vars

Start ==
    /\ pass = "validate"
    /\ Usable(params)
    /\ Construct(NodeCount(params))
    /\ sites' = [i \in 0 .. NodeCount(params) - 1 |-> Origin]
    /\ pass' = "place"
    /\ UNCHANGED <<params, cell, todo, drawn, accepted, failure>>

-----------------------------------------------------------------------------
(***************************************************************************)
(* The nested loops over rows and columns.  The third pass leaves out the  *)
(* last row and the last column.                                           *)
(***************************************************************************)
Columns == IF pass = "diagonals" THEN params.width - 1 ELSE params.width
Rows == IF pass = "diagonals" THEN params.height - 1 ELSE params.height

CellsLeft == cell < Rows * Columns

Row == cell \div Columns
Column == cell % Columns

Index(row, column) == (row * params.width + column) % Modulus

After(stage, following) ==
    /\ pass = stage /\ ~CellsLeft /\ todo = <<>>
    /\ pass' = following
    /\ cell' = 0
    /\ UNCHANGED <<vars, params, sites, todo, drawn, accepted, failure>>

(***************************************************************************)
(* Pass 1: a site, displaced by the jitter in x and then in y.             *)
(***************************************************************************)
Displacement(p, unit) ==
    ((2 * unit - Whole) * p.jitter * p.spacing) \div (Whole * Whole)

Displaced(p, step, unit) == Axis(step * p.spacing + Displacement(p, unit))

SiteAt(p, row, column, unitX, unitY) ==
    LET x == Displaced(p, column, unitX)
        y == Displaced(p, row, unitY)
    IN  IF NonFinite \in {x, y} THEN NonFinite ELSE [x |-> x, y |-> y]

\* A coordinate that did not overflow is a coordinate.
ASSUME SitesAssumption ==
    \A p \in Params : Usable(p) =>
        \A row \in 0 .. p.height - 1, column \in 0 .. p.width - 1 :
            \A u, v \in Units : SiteAt(p, row, column, u, v) \in Coord \cup {NonFinite}

Place(unitX, unitY) ==
    LET i == Index(Row, Column)
        site == SiteAt(params, Row, Column, unitX, unitY)
    IN  /\ pass = "place" /\ CellsLeft
        /\ SetNode(i, site, i + 1)
        /\ drawn' = drawn + 2
        /\ \/ /\ reply'.error # "none"
              /\ pass' = "failed" /\ failure' = reply'.error
              /\ UNCHANGED <<cell, sites>>
           \/ /\ reply'.error = "none"
              /\ sites' = [sites EXCEPT ![i] = site]
              /\ cell' = cell + 1
              /\ UNCHANGED <<pass, failure>>
        /\ UNCHANGED <<params, todo, accepted>>

-----------------------------------------------------------------------------
(***************************************************************************)
(* connect(a, b): two arcs with one weight; add_arc refuses an infinite    *)
(* one.                                                                    *)
(***************************************************************************)
Bug_NominalWeight(a, b) ==
    LET arc(s, t) == [source |-> s, target |-> t, weight |-> params.spacing]
    IN  <<arc(a, b), arc(b, a)>>

Bug_OneWay(a, b) ==
    LET arc == [source |-> a, target |-> b, weight |-> Hypot(sites[a], sites[b])]
    IN  <<arc, arc>>

Connect(a, b) ==
    LET arc(s, t) == [source |-> s, target |-> t,
                      weight |-> Hypot(sites[a], sites[b])]
    IN  <<arc(a, b), arc(b, a)>>

Argument(weight) == IF weight = Infinity THEN NonFinite ELSE weight

AddNext ==
    /\ pass \in {"backbone", "diagonals"} /\ todo # <<>>
    /\ AddArc(Head(todo).source, Head(todo).target, Argument(Head(todo).weight))
    /\ \/ reply'.error # "none" /\ Throw(reply'.error)
       \/ /\ reply'.error = "none"
          /\ todo' = Tail(todo)
          /\ UNCHANGED <<params, pass, cell, sites, drawn, accepted, failure>>

\* Pass 2: the neighbour to the right and the one in the next row.
Bug_BackboneWraps ==
    LET i == Index(Row, Column) IN
    /\ pass = "backbone" /\ CellsLeft /\ todo = <<>>
    /\ todo' = (IF i + 1 < NodeCount(params) THEN Connect(i, i + 1) ELSE <<>>)
                 \o (IF Row + 1 < params.height
                     THEN Connect(i, i + params.width) ELSE <<>>)
    /\ cell' = cell + 1
    /\ UNCHANGED <<vars, params, pass, sites, drawn, accepted, failure>>

Backbone ==
    LET i == Index(Row, Column) IN
    /\ pass = "backbone" /\ CellsLeft /\ todo = <<>>
    /\ todo' = (IF Column + 1 < params.width THEN Connect(i, i + 1) ELSE <<>>)
                 \o (IF Row + 1 < params.height
                     THEN Connect(i, i + params.width) ELSE <<>>)
    /\ cell' = cell + 1
    /\ UNCHANGED <<vars, params, pass, sites, drawn, accepted, failure>>

\* Pass 3: two draws for the two diagonals of a cell, taken or not.
Offered(unit, a, b) == IF unit < params.rate THEN {{a, b}} ELSE {}

Bug_SecondOnlyWithoutFirst(unit1, unit2) ==
    LET topLeft == Index(Row, Column)
        bottomLeft == topLeft + params.width
        first == Offered(unit1, topLeft, bottomLeft + 1)
        second == IF first # {} THEN {}
                  ELSE Offered(unit2, topLeft + 1, bottomLeft)
    IN  /\ pass = "diagonals" /\ CellsLeft /\ todo = <<>>
        /\ todo' = (IF first # {} THEN Connect(topLeft, bottomLeft + 1) ELSE <<>>)
                     \o (IF second # {} THEN Connect(topLeft + 1, bottomLeft)
                         ELSE <<>>)
        /\ accepted' = accepted \cup first \cup second
        /\ drawn' = drawn + (IF first # {} THEN 1 ELSE 2)
        /\ cell' = cell + 1
        /\ UNCHANGED <<vars, params, pass, sites, failure>>

Diagonals(unit1, unit2) ==
    LET topLeft == Index(Row, Column)
        bottomLeft == topLeft + params.width
        first == Offered(unit1, topLeft, bottomLeft + 1)
        second == Offered(unit2, topLeft + 1, bottomLeft)
    IN  /\ pass = "diagonals" /\ CellsLeft /\ todo = <<>>
        /\ todo' = (IF first # {} THEN Connect(topLeft, bottomLeft + 1) ELSE <<>>)
                     \o (IF second # {} THEN Connect(topLeft + 1, bottomLeft)
                         ELSE <<>>)
        /\ accepted' = accepted \cup first \cup second
        /\ drawn' = drawn + 2
        /\ cell' = cell + 1
        /\ UNCHANGED <<vars, params, pass, sites, failure>>

-----------------------------------------------------------------------------
\* build(), then the check of the report "rather than assume it".
Finish ==
    /\ pass = "diagonals" /\ ~CellsLeft /\ todo = <<>>
    /\ Build
    /\ \/ reply'.error # "none" /\ Throw(reply'.error)
       \/ /\ reply'.error = "none"
          /\ IF graph'.metric.passes
             THEN pass' = "done" /\ UNCHANGED failure
             ELSE pass' = "failed" /\ failure' = "internal"
          /\ UNCHANGED <<params, cell, sites, todo, drawn, accepted>>

\* The call is over; nothing of it goes on.
Returned == pass \in {"done", "failed"} /\ UNCHANGED allVars

LatticeNext ==
    \/ Reject \/ Start
    \/ \E x, y \in Units : Place(x, y) \/ Diagonals(x, y)
    \/ After("place", "backbone") \/ After("backbone", "diagonals")
    \/ Backbone
    \/ AddNext
    \/ Finish
    \/ Returned

LatticeSpec == LatticeInit /\ [][LatticeNext]_allVars

-----------------------------------------------------------------------------
Size64 == params.width * params.height

RowOfSite(i) == i \div params.width
ColumnOfSite(i) == i % params.width

Distance(a, b) == IF a < b THEN b - a ELSE a - b

(***************************************************************************)
(* The type invariant.  The generator's own copy of the coordinates agrees *)
(* with the builder's for every node that is set, no arc it adds leaves    *)
(* the lattice, and the builder objects to nothing but an overflow and an  *)
(* arc too many: the 32-bit indices never wrap around, the size check of   *)
(* another function sees to that.                                          *)
(***************************************************************************)
LatticeTypeOK ==
    /\ params \in Params /\ drawn \in Nat /\ cell \in Word
    /\ pass \in {"validate", "place", "backbone", "diagonals", "done", "failed"}
    /\ failure \in {"none", "params", "non_finite", "capacity"}
    /\ \A i \in DOMAIN assigned :
        assigned[i] => coordinates[i] = sites[i] /\ external_ids[i] = i + 1
    /\ \A k \in DOMAIN todo : {todo[k].source, todo[k].target} \subseteq DOMAIN sites

(***************************************************************************)
(* What generate() returns is the lattice that generator.hpp describes:    *)
(* node r * width + c in row r and column c but for the jitter and the     *)
(* rounding, identifiers from 1 on, both arcs between neighbours, both or  *)
(* none along a diagonal, no diagonal at rate 0 and all of them at rate 1, *)
(* no other arc and none twice.                                            *)
(***************************************************************************)
Neighbours(i, j) ==
    Distance(RowOfSite(i), RowOfSite(j))
        + Distance(ColumnOfSite(i), ColumnOfSite(j)) = 1

Diagonal(i, j) ==
    /\ Distance(RowOfSite(i), RowOfSite(j)) = 1
    /\ Distance(ColumnOfSite(i), ColumnOfSite(j)) = 1

AtItsSite(i) ==
    \E u, v \in Units :
        graph.coordinate[i] = SiteAt(params, RowOfSite(i), ColumnOfSite(i), u, v)

ArcsBetween(i, j) ==
    Cardinality({k \in ArcsFrom(graph, i) : graph.arc[k].target = j})

GraphIsTheLattice ==
    pass = "done" =>
        /\ graph.node_count = Size64
        /\ \A i \in Nodes(graph) : graph.external_id[i] = i + 1 /\ AtItsSite(i)
        /\ \A i, j \in Nodes(graph) :
            ArcsBetween(i, j) =
                IF Neighbours(i, j) \/ {i, j} \in accepted THEN 1 ELSE 0
        /\ \A i, j \in Nodes(graph) :
            /\ {i, j} \in accepted => Diagonal(i, j) /\ params.rate > 0
            /\ Diagonal(i, j) /\ params.rate = Whole => {i, j} \in accepted

(***************************************************************************)
(* README: the arcs make "the graph strongly connected by construction with*)
(* no repair step".  An arc leaves every set of nodes but that of all.     *)
(***************************************************************************)
StronglyConnected ==
    pass = "done" =>
        \A S \in SUBSET Nodes(graph) :
            S \notin {{}, Nodes(graph)} =>
                \E u \in S : \E k \in ArcsFrom(graph, u) : graph.arc[k].target \notin S

(***************************************************************************)
(* generator.hpp: "Every arc weight is exactly the Euclidean distance      *)
(* between its endpoints", in both directions, also where rounding has put *)
(* both in one place, and so the stored report passes and the internal     *)
(* error is never thrown.                                                  *)
(***************************************************************************)
EveryArcIsTight ==
    /\ failure # "internal"
    /\ pass = "done" =>
        /\ graph.metric.passes
        /\ \A u \in Nodes(graph) : \A k \in ArcsFrom(graph, u) :
            graph.arc[k].weight =
                Hypot(graph.coordinate[u], graph.coordinate[graph.arc[k].target])

(***************************************************************************)
(* generator.hpp: "the stream does not depend on the rate".  Before a node *)
(* and before a cell the position in the stream depends on the place alone,*)
(* whatever was drawn and accepted so far.                                 *)
(***************************************************************************)
DrawsIgnoreTheRate ==
    /\ pass = "place" => drawn = 2 * cell
    /\ pass = "backbone" => drawn = 2 * Size64
    /\ pass = "diagonals" => drawn = 2 * (Size64 + cell)
    /\ pass = "done" =>
        drawn = 2 * (Size64 + (params.width - 1) * (params.height - 1))
=============================================================================
