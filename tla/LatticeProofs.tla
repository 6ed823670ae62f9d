--------------------------- MODULE LatticeProofs ---------------------------
(***************************************************************************)
(* Proofs about Lattice, for lattices of any size, any draws and any       *)
(* limits.                                                                 *)
(***************************************************************************)
EXTENDS Lattice, GraphBuilderProofs

-----------------------------------------------------------------------------
(***************************************************************************)
(* Arithmetic of rows and columns.                                         *)
(***************************************************************************)
LEMMA Products ==
    ASSUME NEW a \in Nat, NEW b \in Nat, NEW c \in Nat, a <= b
    PROVE  a * c <= b * c /\ a * c \in Nat /\ b * c \in Nat
OBVIOUS

LEMMA Remainder ==
    ASSUME NEW m \in Nat \ {0}, NEW a \in Nat
    PROVE  /\ a % m \in 0 .. m - 1 /\ a \div m \in Nat
           /\ a = (a \div m) * m + (a % m)
           /\ a < m => a % m = a
<1>1. /\ a % m \in 0 .. m - 1
      /\ a \div m \in Nat
  <2>1. a % m \in 0 .. m - 1
    OBVIOUS
  <2>2. a \div m \in Nat
    OBVIOUS
  <2>3. QED
    BY <2>1, <2>2
<1>2. a = (a \div m) * m + (a % m)
  OBVIOUS
<1>3. a < m => a % m = a
  OBVIOUS
<1>4. QED
  BY <1>1, <1>2, <1>3

\* A number below a product, as a row and a column.
LEMMA RowAndColumn ==
    ASSUME NEW h \in Nat, NEW m \in Nat \ {0}, NEW a \in 0 .. h * m - 1
    PROVE  /\ a \div m \in 0 .. h - 1 /\ a % m \in 0 .. m - 1
           /\ a = (a \div m) * m + (a % m)
<1>1. h * m \in Nat /\ a \in Nat
  OBVIOUS
<1>2. /\ a % m \in 0 .. m - 1 /\ a \div m \in Nat
      /\ a = (a \div m) * m + (a % m)
  BY <1>1, Remainder
<1>3. CASE a \div m >= h
  <2>1. h * m <= (a \div m) * m
    BY <1>2, <1>3, Products
  <2>2. a >= h * m
    BY <1>2, <2>1, <1>1
  <2>3. QED
    BY <2>2, <1>1
<1>4. QED
  BY <1>2, <1>3

\* The row and the column of a number are the only ones.
LEMMA OnlyRowAndColumn ==
    ASSUME NEW m \in Nat \ {0}, NEW q \in Nat, NEW r \in 0 .. m - 1
    PROVE  (q * m + r) \div m = q /\ (q * m + r) % m = r
<1> DEFINE a == q * m + r
           x == a \div m
           y == a % m
<1>1. a \in Nat /\ q * m \in Nat
  OBVIOUS
<1>2. x \in Nat /\ y \in 0 .. m - 1 /\ a = x * m + y
  BY <1>1, Remainder
<1> HIDE DEF x, y
<1>3. CASE x < q
  <2>1. (x + 1) * m <= q * m
    BY <1>2, <1>3, Products
  <2>2. (x + 1) * m = x * m + m
    BY <1>2
  <2>3. QED
    BY <1>2, <2>1, <2>2
<1>4. CASE q < x
  <2>1. (q + 1) * m <= x * m
    BY <1>2, <1>4, Products
  <2>2. (q + 1) * m = q * m + m
    OBVIOUS
  <2>3. QED
    BY <1>2, <2>1, <2>2
<1>5. x = q
  BY <1>2, <1>3, <1>4
<1>6. y = r
  BY <1>2, <1>5, <1>1
<1>7. QED
  BY <1>5, <1>6 DEF x, y

\* The square of the modulus holds the product of two words.
LEMMA GridFacts ==
    ASSUME params \in Params, Usable(params)
    PROVE  /\ params.width \in 1 .. MaxNodes /\ params.height \in 1 .. MaxNodes
           /\ Size64 \in 1 .. MaxNodes
           /\ NodeCount(params) = Size64
           /\ MaxNodes \in Nat /\ Modulus = MaxNodes + 1
           /\ \A i \in 0 .. Size64 - 1 : i % Modulus = i
<1> DEFINE w == params.width
           h == params.height
<1>1. /\ w \in 0 .. Modulus - 1 /\ h \in 0 .. Modulus - 1
      /\ Modulus \in Nat \ {0} /\ MaxNodes = Modulus - 1
      /\ w # 0 /\ h # 0
  BY LatticeAssumption DEF Word, Usable
<1>2. (w * h) % (Modulus * Modulus) <= MaxNodes
  BY DEF Usable
<1> HIDE DEF w, h
<1>3. w * h \in Nat /\ w * h >= 1
  <2>1. 1 * h <= w * h
    BY <1>1, Products
  <2>2. QED
    BY <2>1, <1>1
<1>4. w * h < Modulus * Modulus /\ Modulus * Modulus \in Nat \ {0}
  <2>1. w * h <= Modulus * h
    BY <1>1, Products
  <2>2. h * Modulus <= (Modulus - 1) * Modulus
    BY <1>1, Products
  <2>3. (Modulus - 1) * Modulus = Modulus * Modulus - Modulus
    BY <1>1
  <2>4. h * Modulus = Modulus * h /\ Modulus * Modulus \in Nat
    BY <1>1
  <2>5. QED
    BY <2>1, <2>2, <2>3, <2>4, <1>1, <1>3
<1>5. (w * h) % (Modulus * Modulus) = w * h
  BY <1>3, <1>4, Remainder
<1>6. w * h \in 1 .. MaxNodes
  BY <1>1, <1>2, <1>3, <1>5
<1>7. (w * h) % Modulus = w * h
  <2>1. w * h < Modulus
    BY <1>1, <1>6
  <2>2. QED
    BY <1>1, <1>3, <2>1, Remainder
<1>8. \A i \in 0 .. w * h - 1 : i % Modulus = i
  <2>1. ASSUME NEW i \in 0 .. w * h - 1 PROVE i % Modulus = i
    <3>1. i \in Nat /\ i < Modulus
      BY <1>1, <1>6
    <3>2. QED
      BY <3>1, <1>1, Remainder
  <2>2. QED
    BY <2>1
<1>9. QED
  BY <1>1, <1>6, <1>7, <1>8 DEF w, h, Size64, NodeCount

\* A site of the first two passes is the cell itself.
LEMMA SiteFacts ==
    ASSUME params \in Params, Usable(params), pass \in {"place", "backbone"},
           cell \in Nat, CellsLeft
    PROVE  /\ Columns = params.width
           /\ Row \in 0 .. params.height - 1 /\ Column \in 0 .. params.width - 1
           /\ cell = Row * params.width + Column
           /\ cell \in 0 .. Size64 - 1
           /\ Index(Row, Column) = cell
           /\ Row = RowOfSite(cell) /\ Column = ColumnOfSite(cell)
           /\ Column + 1 < params.width => cell + 1 \in 0 .. Size64 - 1
           /\ Row + 1 < params.height => cell + params.width \in 0 .. Size64 - 1
<1> DEFINE w == params.width
           h == params.height
<1>1. /\ Columns = w /\ Rows = h
      /\ Row = cell \div w /\ Column = cell % w
      /\ RowOfSite(cell) = cell \div w /\ ColumnOfSite(cell) = cell % w
  BY DEF Columns, Rows, Row, Column, RowOfSite, ColumnOfSite
<1>2. w \in Nat \ {0} /\ h \in Nat \ {0}
  BY GridFacts
<1>3. Size64 = w * h /\ w * h = h * w /\ h * w \in Nat
  BY <1>2 DEF Size64
<1>4. cell \in 0 .. h * w - 1
  BY <1>1, <1>3 DEF CellsLeft
<1>5. Index(Row, Column) = (Row * w + Column) % Modulus
  BY DEF Index
<1> HIDE DEF w, h
<1>6. /\ Row \in 0 .. h - 1 /\ Column \in 0 .. w - 1
      /\ cell = Row * w + Column
  BY <1>1, <1>2, <1>4, RowAndColumn
<1>7. Index(Row, Column) = cell
  BY <1>3, <1>4, <1>5, <1>6, GridFacts
<1>8. ASSUME Row + 1 < h PROVE cell + w \in 0 .. Size64 - 1
  <2>1. (Row + 2) * w <= h * w
    BY <1>2, <1>6, <1>8, Products
  <2>2. (Row + 2) * w = Row * w + w + w
    BY <1>2, <1>6
  <2>3. Row * w \in Nat
    BY <1>2, <1>6
  <2>4. QED
    BY <1>2, <1>3, <1>4, <1>6, <2>1, <2>2, <2>3
<1>9. ASSUME Column + 1 < w PROVE cell + 1 \in 0 .. Size64 - 1
  <2>1. (Row + 1) * w <= h * w
    BY <1>2, <1>6, Products
  <2>2. (Row + 1) * w = Row * w + w
    BY <1>2, <1>6
  <2>3. Row * w \in Nat
    BY <1>2, <1>6
  <2>4. QED
    BY <1>2, <1>3, <1>4, <1>6, <1>9, <2>1, <2>2, <2>3
<1>10. QED
  BY <1>1, <1>3, <1>4, <1>6, <1>7, <1>8, <1>9 DEF w, h

\* The corners of a cell of the third pass.
LEMMA CornerFacts ==
    ASSUME params \in Params, Usable(params), pass = "diagonals",
           cell \in Nat, CellsLeft
    PROVE  /\ Row \in 0 .. params.height - 2 /\ Column \in 0 .. params.width - 2
           /\ Columns = params.width - 1
           /\ cell = Row * (params.width - 1) + Column
           /\ cell \in 0 .. (params.width - 1) * (params.height - 1) - 1
           /\ Index(Row, Column) = Row * params.width + Column
           /\ Index(Row, Column) \in Nat
           /\ Index(Row, Column) + params.width + 1 \in 0 .. Size64 - 1
<1> DEFINE w == params.width
           h == params.height
<1>1. /\ Columns = w - 1 /\ Rows = h - 1
      /\ Row = cell \div (w - 1) /\ Column = cell % (w - 1)
  BY DEF Columns, Rows, Row, Column
<1>2. w \in Nat \ {0} /\ h \in Nat \ {0}
  BY GridFacts
<1>3. Size64 = w * h /\ w * h = h * w /\ h * w \in Nat
  BY <1>2 DEF Size64
<1>4. /\ (h - 1) * (w - 1) \in Nat
      /\ (h - 1) * (w - 1) = (w - 1) * (h - 1)
      /\ cell < (h - 1) * (w - 1)
  BY <1>1, <1>2 DEF CellsLeft
<1>5. Index(Row, Column) = (Row * w + Column) % Modulus
  BY DEF Index
<1> HIDE DEF w, h
<1>6. w - 1 \in Nat \ {0} /\ h - 1 \in Nat
  <2>1. CASE w = 1
    <3>1. (h - 1) * (w - 1) = 0
      BY <1>2, <2>1
    <3>2. QED
      BY <3>1, <1>4
  <2>2. QED
    BY <2>1, <1>2
<1>7. /\ Row \in 0 .. h - 2 /\ Column \in 0 .. w - 2
      /\ cell = Row * (w - 1) + Column
  <2>1. cell \in 0 .. (h - 1) * (w - 1) - 1
    BY <1>4
  <2>2. /\ Row \in 0 .. (h - 1) - 1 /\ Column \in 0 .. (w - 1) - 1
        /\ cell = Row * (w - 1) + Column
    BY <1>1, <1>6, <2>1, RowAndColumn
  <2>3. QED
    BY <2>2, <1>2
<1>8. /\ Row * w + Column \in Nat
      /\ Row * w + Column + w + 1 \in 0 .. Size64 - 1
  <2>1. (Row + 2) * w <= h * w
    BY <1>2, <1>7, Products
  <2>2. (Row + 2) * w = Row * w + w + w
    BY <1>2, <1>7
  <2>3. Row * w \in Nat
    BY <1>2, <1>7
  <2>4. QED
    BY <1>2, <1>3, <1>7, <2>1, <2>2, <2>3
<1>9. Index(Row, Column) = Row * w + Column
  <2>1. Row * w + Column \in 0 .. Size64 - 1
    BY <1>2, <1>3, <1>8
  <2>2. QED
    BY <1>5, <2>1, GridFacts
<1>10. QED
  BY <1>1, <1>4, <1>7, <1>8, <1>9 DEF w, h

-----------------------------------------------------------------------------
(***************************************************************************)
(* The inductive invariant.  While generate() works, the sites placed so   *)
(* far are those that the builder has, each near its place, and every arc  *)
(* that is staged or to be added joins two sites and is as long as the line*)
(* between them; what it returns then inherits all that.                   *)
(***************************************************************************)
Site == 0 .. Size64 - 1

LatticeArc ==
    {a \in [source : Site, target : Site, weight : Cost] :
        /\ a.source # a.target
        /\ a.weight = Hypot(sites[a.source], sites[a.target])}

Near(i) ==
    \E u, v \in Units :
        sites[i] = SiteAt(params, RowOfSite(i), ColumnOfSite(i), u, v)

Working == pass \in {"place", "backbone", "diagonals"}

Typed ==
    /\ params \in Params /\ drawn \in Nat /\ cell \in Word
    /\ pass \in {"validate", "place", "backbone", "diagonals", "done", "failed"}
    /\ failure \in {"none", "params", "non_finite", "capacity"}

Waiting ==
    pass = "validate" =>
        /\ ~alive /\ graph = NoGraph
        /\ cell = 0 /\ sites = NoVector /\ todo = <<>>
        /\ drawn = 0 /\ accepted = {} /\ failure = "none"

Placed(i) == pass = "place" => i < cell

Building ==
    Working =>
        /\ Usable(params) /\ failure = "none" /\ alive /\ ~consumed
        /\ coordinates \in [Site -> Coord]
        /\ external_ids \in [Site -> ExternalId]
        /\ assigned \in [Site -> BOOLEAN]
        /\ sites \in [Site -> Coord]
        /\ \A i \in Site : /\ assigned[i] <=> Placed(i)
                           /\ Placed(i) => Near(i)
        /\ staged \in Seq(LatticeArc) /\ todo \in Seq(LatticeArc)

InTurn ==
    /\ pass = "place" => cell \in 0 .. Size64 /\ staged = <<>> /\ todo = <<>>
    /\ pass = "backbone" => cell \in 0 .. Size64
    /\ pass = "diagonals" =>
        cell \in 0 .. (params.width - 1) * (params.height - 1)

Agreeing ==
    \A i \in DOMAIN assigned :
        assigned[i] => coordinates[i] = sites[i] /\ external_ids[i] = i + 1

OnSites ==
    \A k \in DOMAIN todo : {todo[k].source, todo[k].target} \subseteq DOMAIN sites

Delivered ==
    pass = "done" =>
        /\ Usable(params) /\ failure = "none"
        /\ sites \in [Site -> Coord]
        /\ \A i \in Site : Near(i)
        /\ IsGraph(graph) /\ graph.metric.passes
        /\ graph.node_count = Size64
        /\ graph.coordinate = sites
        /\ \A i \in Site : graph.external_id[i] = i + 1
        /\ \A u \in Site : \A k \in ArcsFrom(graph, u) :
            [source |-> u, target |-> graph.arc[k].target,
             weight |-> graph.arc[k].weight] \in LatticeArc

LatticeInv ==
    /\ BuilderInv /\ Typed /\ Waiting /\ Building /\ InTurn
    /\ Agreeing /\ OnSites /\ DrawsIgnoreTheRate /\ Delivered

-----------------------------------------------------------------------------
(***************************************************************************)
(* The steps that fail, and those that leave everything as it is.          *)
(***************************************************************************)
LEMMA InitLattice == LatticeInit => LatticeInv
<1>1. SUFFICES ASSUME LatticeInit PROVE LatticeInv
  OBVIOUS
<1>2. /\ Init /\ params \in Params /\ pass = "validate" /\ cell = 0
      /\ sites = NoVector /\ todo = <<>> /\ drawn = 0 /\ accepted = {}
      /\ failure = "none"
  BY <1>1 DEF LatticeInit
<1>3. BuilderInv
  BY <1>2, InitBuilderInv
<1>4. Typed
  BY <1>2, LatticeAssumption DEF Typed, Word
<1>5. ~alive /\ graph = NoGraph /\ DOMAIN assigned = {} /\ DOMAIN todo = {}
  BY <1>2 DEF Init, NoVector
<1>6. QED
  BY <1>2, <1>3, <1>4, <1>5
     DEF LatticeInv, Waiting, Building, Working, InTurn, Agreeing, OnSites,
         DrawsIgnoreTheRate, Delivered

\* generate() throws: nothing but the answer of the builder changes.
LEMMA ThrowStep ==
    ASSUME LatticeInv, NEW why \in {"params", "non_finite", "capacity"},
           Throw(why), UNCHANGED builder, reply'.error \in Errors
    PROVE  LatticeInv'
<1>1. /\ UNCHANGED <<params, cell, sites, todo, drawn, accepted>>
      /\ UNCHANGED <<coordinates, external_ids, assigned>>
      /\ pass' = "failed" /\ failure' = why
  BY DEF Throw, builder
<1>2. BuilderInv'
  BY ThrowKeepsInv DEF LatticeInv
<1>3. Typed'
  BY <1>1 DEF LatticeInv, Typed
<1>4. Agreeing' /\ OnSites'
  BY <1>1 DEF LatticeInv, Agreeing, OnSites
<1>5. QED
  BY <1>1, <1>2, <1>3, <1>4
     DEF LatticeInv, Waiting, Building, Working, InTurn, DrawsIgnoreTheRate,
         Delivered

LEMMA RejectStep == LatticeInv /\ Reject => LatticeInv'
<1>1. SUFFICES ASSUME LatticeInv, Reject PROVE LatticeInv'
  OBVIOUS
<1>2. Throw("params") /\ UNCHANGED vars
  BY <1>1 DEF Reject
<1>3. UNCHANGED builder /\ reply'.error \in Errors
  BY <1>1, <1>2 DEF vars, builder, LatticeInv, BuilderInv, TypeOK
<1>4. QED
  BY <1>1, <1>2, <1>3, ThrowStep

LEMMA StartStep == LatticeInv /\ Start => LatticeInv'
<1>1. SUFFICES ASSUME LatticeInv, Start PROVE LatticeInv'
  OBVIOUS
<1>2. /\ pass = "validate" /\ Usable(params) /\ Construct(NodeCount(params))
      /\ sites' = [i \in 0 .. NodeCount(params) - 1 |-> Origin]
      /\ pass' = "place"
      /\ UNCHANGED <<params, cell, todo, drawn, accepted, failure>>
  BY <1>1 DEF Start
<1>3. /\ params \in Params /\ cell = 0 /\ todo = <<>> /\ drawn = 0
      /\ failure = "none" /\ ~alive
  BY <1>1, <1>2 DEF LatticeInv, Typed, Waiting
<1>4. /\ Size64 \in 1 .. MaxNodes /\ NodeCount(params) = Size64
      /\ MaxNodes \in Nat
  BY <1>2, <1>3, GridFacts
<1>5. /\ alive' /\ ~consumed' /\ staged' = <<>>
      /\ coordinates' = [i \in Site |-> Origin]
      /\ external_ids' = [i \in Site |-> ZeroId]
      /\ assigned' = [i \in Site |-> FALSE]
  BY <1>1, <1>2, <1>3, <1>4
     DEF Construct, Site, LatticeInv, BuilderInv, Unborn
<1>6. BuilderInv'
  BY <1>1, <1>2, <1>4, ConstructKeepsInv DEF LatticeInv
<1>7. Size64' = Size64 /\ Site' = Site
  BY <1>2 DEF Size64, Site
<1>8. Typed'
  BY <1>1, <1>2 DEF LatticeInv, Typed
<1>9. Building'
  <2>1. sites' \in [Site -> Coord] /\ coordinates' \in [Site -> Coord]
    BY <1>2, <1>4, <1>5, BuilderAssumption DEF Site
  <2>2. external_ids' \in [Site -> ExternalId] /\ assigned' \in [Site -> BOOLEAN]
    BY <1>5, BuilderAssumption
  <2>3. \A i \in Site : ~assigned'[i] /\ ~Placed(i)'
    BY <1>2, <1>3, <1>5 DEF Placed, Site
  <2>4. Usable(params)'
    BY <1>2 DEF Usable
  <2>5. staged' \in Seq(LatticeArc') /\ todo' \in Seq(LatticeArc')
    BY <1>2, <1>3, <1>5
  <2>6. QED
    BY <1>2, <1>3, <1>5, <1>7, <2>1, <2>2, <2>3, <2>4, <2>5 DEF Building
<1>10. InTurn' /\ DrawsIgnoreTheRate'
  BY <1>2, <1>3, <1>4, <1>5, <1>7 DEF InTurn, DrawsIgnoreTheRate
<1>11. Agreeing' /\ OnSites'
  BY <1>2, <1>3, <1>5 DEF Agreeing, OnSites
<1>12. QED
  BY <1>2, <1>6, <1>8, <1>9, <1>10, <1>11 DEF LatticeInv, Waiting, Delivered
-----------------------------------------------------------------------------
(***************************************************************************)
(* The first pass.                                                         *)
(***************************************************************************)
LEMMA SizeOfLattice ==
    ASSUME LatticeInv, Working
    PROVE  /\ Size = Size64 /\ Size64 \in 1 .. MaxNodes /\ MaxNodes \in Nat
           /\ params \in Params /\ Usable(params)
<1>1. params \in Params /\ Usable(params) /\ DOMAIN coordinates = Site
  BY DEF LatticeInv, Typed, Building
<1>2. Size64 \in 1 .. MaxNodes /\ MaxNodes \in Nat
  BY <1>1, GridFacts
<1>3. Size = Size64
  BY <1>1, <1>2, SizeFact DEF Site
<1>4. QED
  BY <1>1, <1>2, <1>3

LEMMA PlaceStep ==
    ASSUME LatticeInv, NEW unitX \in Units, NEW unitY \in Units,
           Place(unitX, unitY)
    PROVE  LatticeInv'
<1> DEFINE site == SiteAt(params, Row, Column, unitX, unitY)
<1>1. /\ pass = "place" /\ CellsLeft /\ Working
      /\ params \in Params /\ Usable(params) /\ cell \in Nat
  BY LatticeAssumption
     DEF Place, Working, LatticeInv, Typed, Building, Word
<1>2. /\ Row \in 0 .. params.height - 1 /\ Column \in 0 .. params.width - 1
      /\ cell \in Site /\ Index(Row, Column) = cell
      /\ Row = RowOfSite(cell) /\ Column = ColumnOfSite(cell)
  BY <1>1, SiteFacts DEF Site
<1>3. Size = Size64 /\ Size64 \in 1 .. MaxNodes /\ MaxNodes \in Nat
  BY <1>1, SizeOfLattice
<1>4. site \in Coord \cup {NonFinite}
  BY <1>1, <1>2, SitesAssumption
<1>5. /\ SetNode(cell, site, cell + 1)
      /\ drawn' = drawn + 2
      /\ \/ /\ reply'.error # "none"
            /\ pass' = "failed" /\ failure' = reply'.error
            /\ UNCHANGED <<cell, sites>>
         \/ /\ reply'.error = "none"
            /\ sites' = [sites EXCEPT ![cell] = site]
            /\ cell' = cell + 1
            /\ UNCHANGED <<pass, failure>>
      /\ UNCHANGED <<params, todo, accepted>>
  BY <1>2 DEF Place
<1> HIDE DEF site
<1>6. /\ failure = "none" /\ alive /\ ~consumed
      /\ coordinates \in [Site -> Coord]
      /\ external_ids \in [Site -> ExternalId]
      /\ assigned \in [Site -> BOOLEAN]
      /\ sites \in [Site -> Coord]
      /\ \A i \in Site : assigned[i] <=> i < cell
      /\ \A i \in Site : i < cell => Near(i)
      /\ staged = <<>> /\ todo = <<>> /\ drawn = 2 * cell /\ drawn \in Nat
  BY <1>1 DEF LatticeInv, Building, Placed, InTurn, DrawsIgnoreTheRate, Typed
<1>7. cell \in 0 .. MaxNodes /\ cell + 1 \in ExternalId
  BY <1>2, <1>3, LatticeAssumption DEF Site
<1>8. BuilderInv'
  BY <1>4, <1>5, <1>7, SetNodeKeepsInv DEF LatticeInv
<1>9. SetNodeError(cell, site) = IF site = NonFinite THEN "non_finite" ELSE "none"
  BY <1>1, <1>2, <1>3, <1>6 DEF SetNodeError, Site
<1>10. Size64' = Size64 /\ Site' = Site /\ Usable(params)'
  BY <1>1, <1>5 DEF Size64, Site, Usable
<1>11. CASE site = NonFinite
  <2>1. Throws("set_node", "non_finite")
    BY <1>5, <1>9, <1>11 DEF SetNode
  <2>2. reply'.error = "non_finite" /\ UNCHANGED builder /\ UNCHANGED graph
    BY <2>1 DEF Throws, Answer
  <2>3. /\ pass' = "failed" /\ failure' = "non_finite"
        /\ UNCHANGED <<params, cell, sites, todo>>
    BY <1>5, <2>2
  <2>4. Agreeing' /\ OnSites'
    BY <2>2, <2>3 DEF LatticeInv, Agreeing, OnSites, builder
  <2>5. Typed'
    BY <1>5, <1>6, <2>3 DEF LatticeInv, Typed
  <2>6. QED
    BY <1>8, <2>3, <2>4, <2>5
       DEF LatticeInv, Waiting, Building, Working, InTurn, DrawsIgnoreTheRate,
           Delivered
<1>12. CASE site # NonFinite
  <2>1. /\ coordinates' = [coordinates EXCEPT ![cell] = site]
        /\ external_ids' = [external_ids EXCEPT ![cell] = cell + 1]
        /\ assigned' = [assigned EXCEPT ![cell] = TRUE]
        /\ reply' = Answer("set_node", "none")
        /\ UNCHANGED <<alive, consumed, staged, graph>>
    BY <1>5, <1>9, <1>12 DEF SetNode
  <2>2. /\ sites' = [sites EXCEPT ![cell] = site]
        /\ cell' = cell + 1
        /\ UNCHANGED <<pass, failure, params, todo, accepted>>
        /\ drawn' = drawn + 2
    BY <1>5, <2>1 DEF Answer
  <2>3. site \in Coord
    BY <1>4, <1>12
  <2>4. /\ coordinates' \in [Site -> Coord]
        /\ external_ids' \in [Site -> ExternalId]
        /\ assigned' \in [Site -> BOOLEAN]
        /\ sites' \in [Site -> Coord]
    BY <1>6, <1>7, <2>1, <2>2, <2>3
  <2>5. ASSUME NEW i \in Site
        PROVE  /\ assigned'[i] <=> i < cell'
               /\ assigned'[i] => /\ coordinates'[i] = sites'[i]
                                  /\ external_ids'[i] = i + 1
               /\ i < cell' => Near(i)'
    <3>1. Near(i)' <=> \E u, v \in Units :
              sites'[i] = SiteAt(params, RowOfSite(i), ColumnOfSite(i), u, v)
      BY <2>2 DEF Near, SiteAt, Displaced, Displacement, RowOfSite, ColumnOfSite
    <3>2. CASE i = cell
      <4>1. sites'[i] = site
        BY <1>6, <2>2, <3>2
      <4>2. Near(i)'
        BY <1>2, <3>1, <3>2, <4>1 DEF site
      <4>3. QED
        BY <1>1, <1>6, <2>1, <2>2, <3>2, <4>1, <4>2
    <3>3. CASE i # cell
      <4>1. i < cell' <=> i < cell
        BY <1>1, <2>2, <3>3 DEF Site
      <4>2. /\ sites'[i] = sites[i] /\ coordinates'[i] = coordinates[i]
            /\ external_ids'[i] = external_ids[i] /\ assigned'[i] = assigned[i]
        BY <1>6, <2>1, <2>2, <3>3
      <4>3. assigned[i] => /\ coordinates[i] = sites[i]
                           /\ external_ids[i] = i + 1
        BY <1>6 DEF LatticeInv, Agreeing
      <4>4. i < cell => Near(i)'
        BY <1>6, <3>1, <4>2 DEF Near
      <4>5. QED
        BY <1>6, <4>1, <4>2, <4>3, <4>4
    <3>4. QED
      BY <3>2, <3>3
  <2>6. Building'
    <3>1. \A i \in Site : Placed(i)' <=> i < cell'
      BY <1>1, <2>2 DEF Placed
    <3>2. staged' \in Seq(LatticeArc') /\ todo' \in Seq(LatticeArc')
      BY <1>6, <2>1, <2>2
    <3>3. QED
      BY <1>6, <1>10, <2>1, <2>2, <2>4, <2>5, <3>1, <3>2 DEF Building
  <2>7. Agreeing' /\ OnSites'
    BY <1>6, <2>2, <2>4, <2>5 DEF Agreeing, OnSites
  <2>8. cell' \in 0 .. Size64 /\ cell' \in Word
    BY <1>2, <1>3, <2>2, LatticeAssumption DEF Site, Word
  <2>9. InTurn' /\ DrawsIgnoreTheRate'
    BY <1>1, <1>2, <1>6, <1>10, <2>1, <2>2, <2>8
       DEF InTurn, DrawsIgnoreTheRate, Site
  <2>10. Typed'
    BY <1>6, <2>2, <2>8 DEF LatticeInv, Typed
  <2>11. QED
    BY <1>1, <1>8, <2>2, <2>6, <2>7, <2>9, <2>10
       DEF LatticeInv, Waiting, Delivered
<1>13. QED
  BY <1>11, <1>12

-----------------------------------------------------------------------------
(***************************************************************************)
(* The arcs that connect() adds.                                           *)
(***************************************************************************)
LEMMA ConnectType ==
    ASSUME NEW a \in Site, NEW b \in Site, a # b, sites \in [Site -> Coord]
    PROVE  Connect(a, b) \in Seq(LatticeArc)
<1> DEFINE arc(s, t) == [source |-> s, target |-> t,
                         weight |-> Hypot(sites[a], sites[b])]
<1>1. /\ Hypot(sites[a], sites[b]) \in Cost
      /\ Hypot(sites[b], sites[a]) = Hypot(sites[a], sites[b])
  BY HypotAssumption, HypotIsEven
<1>2. arc(a, b) \in LatticeArc /\ arc(b, a) \in LatticeArc
  BY <1>1 DEF LatticeArc
<1>3. Connect(a, b) = <<arc(a, b), arc(b, a)>>
  BY DEF Connect
<1> HIDE DEF arc
<1>4. QED
  BY <1>2, <1>3

\* What is to be added joins two sites.
LEMMA TodoOnSites ==
    ASSUME sites \in [Site -> Coord], todo \in Seq(LatticeArc)
    PROVE  OnSites
<1>1. ASSUME NEW k \in DOMAIN todo PROVE todo[k] \in LatticeArc
  OBVIOUS
<1>2. \A k \in DOMAIN todo : todo[k].source \in Site /\ todo[k].target \in Site
  BY <1>1 DEF LatticeArc
<1>3. QED
  BY <1>2 DEF OnSites

\* A step of the loops of the second and the third pass.
LEMMA JoinStep ==
    ASSUME LatticeInv, Working, pass # "place",
           UNCHANGED <<vars, params, pass, sites, failure>>,
           drawn' \in Nat, cell' \in Word,
           todo' \in Seq(LatticeArc),
           pass = "backbone" => cell' \in 0 .. Size64 /\ drawn' = 2 * Size64,
           pass = "diagonals" =>
                /\ cell' \in 0 .. (params.width - 1) * (params.height - 1)
                /\ drawn' = 2 * (Size64 + cell')
    PROVE  LatticeInv'
<1>1. /\ Size64' = Size64 /\ Site' = Site /\ LatticeArc' = LatticeArc
      /\ Usable(params)' = Usable(params)
      /\ \A i \in Site : Near(i)' = Near(i)
  BY DEF Size64, Site, LatticeArc, Usable, Near, SiteAt, Displaced,
         Displacement, RowOfSite, ColumnOfSite
<1>2. UNCHANGED <<builder, reply, graph>>
  BY DEF vars, builder
<1>3. BuilderInv'
  BY <1>2, ThrowKeepsInv DEF LatticeInv, BuilderInv, TypeOK
<1>4. UNCHANGED <<alive, consumed, coordinates, external_ids, assigned, staged>>
  BY <1>2 DEF builder
<1>5. Building'
  BY <1>1, <1>4 DEF LatticeInv, Building, Working, Placed
<1>6. Typed' /\ Agreeing'
  BY <1>4 DEF LatticeInv, Typed, Agreeing
<1>7. OnSites'
  <2>1. sites' \in [Site' -> Coord] /\ todo' \in Seq(LatticeArc')
    BY <1>1 DEF LatticeInv, Building
  <2>2. ASSUME NEW k \in DOMAIN todo' PROVE todo'[k] \in LatticeArc
    OBVIOUS
  <2>3. \A k \in DOMAIN todo' :
            todo'[k].source \in Site /\ todo'[k].target \in Site
    BY <2>2 DEF LatticeArc
  <2>4. QED
    BY <1>1, <2>1, <2>3 DEF OnSites
<1>8. InTurn' /\ DrawsIgnoreTheRate'
  BY <1>1 DEF Working, InTurn, DrawsIgnoreTheRate
<1>9. QED
  BY <1>3, <1>5, <1>6, <1>7, <1>8 DEF LatticeInv, Waiting, Delivered, Working
LEMMA AfterStep ==
    ASSUME LatticeInv,
           After("place", "backbone") \/ After("backbone", "diagonals")
    PROVE  LatticeInv'
<1>1. /\ ~CellsLeft /\ todo = <<>> /\ cell' = 0
      /\ UNCHANGED <<vars, params, sites, todo, drawn, accepted, failure>>
      /\ \/ pass = "place" /\ pass' = "backbone"
         \/ pass = "backbone" /\ pass' = "diagonals"
  BY DEF After
<1>2. Working /\ params \in Params /\ Usable(params)
  BY <1>1 DEF LatticeInv, Typed, Building, Working
<1>3. /\ Size64 \in 1 .. MaxNodes /\ MaxNodes \in Nat
      /\ params.width \in 1 .. MaxNodes /\ params.height \in 1 .. MaxNodes
  BY <1>2, GridFacts
<1>4. cell = Size64 /\ cell \in 0 .. Size64
  <2>1. cell \in 0 .. Size64
    BY <1>1 DEF LatticeInv, InTurn
  <2>2. Rows = params.height /\ Columns = params.width
    BY <1>1 DEF Rows, Columns
  <2>3. params.height * params.width = Size64
    BY <1>3 DEF Size64
  <2>4. ~(cell < Size64)
    BY <1>1, <2>2, <2>3 DEF CellsLeft
  <2>5. QED
    BY <1>3, <2>1, <2>4
<1>5. /\ Size64' = Size64 /\ Site' = Site /\ LatticeArc' = LatticeArc
      /\ Usable(params)' = Usable(params)
      /\ \A i \in Site : Near(i)' = Near(i)
  BY <1>1 DEF Size64, Site, LatticeArc, Usable, Near, SiteAt, Displaced,
              Displacement, RowOfSite, ColumnOfSite
<1>6. UNCHANGED <<builder, reply, graph>>
  BY <1>1 DEF vars, builder
<1>7. BuilderInv'
  BY <1>6, ThrowKeepsInv DEF LatticeInv, BuilderInv, TypeOK
<1>8. UNCHANGED <<alive, consumed, coordinates, external_ids, assigned, staged>>
  BY <1>6 DEF builder
<1>9. \A i \in Site : Placed(i) /\ Placed(i)'
  BY <1>1, <1>3, <1>4 DEF Placed, Site
<1>10. Building'
  BY <1>1, <1>2, <1>5, <1>8, <1>9 DEF LatticeInv, Building
<1>11. Typed' /\ Agreeing' /\ OnSites'
  BY <1>1, <1>8, LatticeAssumption
     DEF LatticeInv, Typed, Agreeing, OnSites, Word
<1>12. InTurn' /\ DrawsIgnoreTheRate'
  <2>1. 0 \in 0 .. (params.width - 1) * (params.height - 1)
    <3>1. params.width - 1 \in Nat /\ params.height - 1 \in Nat
      BY <1>3
    <3>2. QED
      BY <3>1
  <2>2. drawn = 2 * Size64
    BY <1>1, <1>4 DEF LatticeInv, DrawsIgnoreTheRate
  <2>3. QED
    BY <1>1, <1>3, <1>5, <2>1, <2>2 DEF InTurn, DrawsIgnoreTheRate
<1>13. QED
  BY <1>1, <1>7, <1>10, <1>11, <1>12 DEF LatticeInv, Waiting, Delivered

LEMMA BackboneStep == LatticeInv /\ Backbone => LatticeInv'
<1>1. SUFFICES ASSUME LatticeInv, Backbone PROVE LatticeInv'
  OBVIOUS
<1> DEFINE right == IF Column + 1 < params.width THEN Connect(cell, cell + 1)
                    ELSE <<>>
           down == IF Row + 1 < params.height
                   THEN Connect(cell, cell + params.width) ELSE <<>>
<1>2. /\ pass = "backbone" /\ CellsLeft /\ Working
      /\ params \in Params /\ Usable(params) /\ cell \in Nat
      /\ sites \in [Site -> Coord] /\ drawn = 2 * Size64 /\ drawn \in Nat
  BY <1>1, LatticeAssumption
     DEF Backbone, Working, LatticeInv, Typed, Building, Word,
         DrawsIgnoreTheRate
<1>3. /\ cell \in Site /\ Index(Row, Column) = cell
      /\ Column + 1 < params.width => cell + 1 \in Site
      /\ Row + 1 < params.height => cell + params.width \in Site
  BY <1>2, SiteFacts DEF Site
<1>4. /\ todo' = right \o down
      /\ cell' = cell + 1
      /\ UNCHANGED <<vars, params, pass, sites, drawn, accepted, failure>>
  BY <1>1, <1>3 DEF Backbone
<1>5. params.width \in 1 .. MaxNodes /\ Size64 \in 1 .. MaxNodes /\ MaxNodes \in Nat
  BY <1>2, GridFacts
<1>6. right \in Seq(LatticeArc) /\ down \in Seq(LatticeArc)
  <2>1. ASSUME Column + 1 < params.width
        PROVE  Connect(cell, cell + 1) \in Seq(LatticeArc)
    <3>1. cell # cell + 1
      BY <1>2
    <3>2. QED
      BY <1>2, <1>3, <2>1, <3>1, ConnectType
  <2>2. ASSUME Row + 1 < params.height
        PROVE  Connect(cell, cell + params.width) \in Seq(LatticeArc)
    <3>1. cell # cell + params.width
      BY <1>2, <1>5
    <3>2. QED
      BY <1>2, <1>3, <2>2, <3>1, ConnectType
  <2>3. <<>> \in Seq(LatticeArc)
    OBVIOUS
  <2>4. QED
    BY <2>1, <2>2, <2>3
<1> HIDE DEF right, down
<1>7. todo' \in Seq(LatticeArc)
  BY <1>4, <1>6, ConcatProperties
<1>8. cell' \in 0 .. Size64 /\ cell' \in Word
  BY <1>3, <1>4, <1>5, LatticeAssumption DEF Site, Word
<1>9. QED
  BY <1>1, <1>2, <1>4, <1>7, <1>8, JoinStep

LEMMA DiagonalsStep ==
    ASSUME LatticeInv, NEW unit1 \in Units, NEW unit2 \in Units,
           Diagonals(unit1, unit2)
    PROVE  LatticeInv'
<1> DEFINE w == params.width
           a == Index(Row, Column)
           first == IF Offered(unit1, a, a + w + 1) # {}
                    THEN Connect(a, a + w + 1) ELSE <<>>
           second == IF Offered(unit2, a + 1, a + w) # {}
                     THEN Connect(a + 1, a + w) ELSE <<>>
<1>1. /\ pass = "diagonals" /\ CellsLeft /\ Working
      /\ params \in Params /\ Usable(params) /\ cell \in Nat
      /\ sites \in [Site -> Coord] /\ drawn = 2 * (Size64 + cell) /\ drawn \in Nat
  BY LatticeAssumption
     DEF Diagonals, Working, LatticeInv, Typed, Building, Word,
         DrawsIgnoreTheRate
<1>2. /\ a \in Nat /\ a + w + 1 \in 0 .. Size64 - 1
      /\ Column \in 0 .. w - 2
      /\ cell \in 0 .. (w - 1) * (params.height - 1) - 1
  BY <1>1, CornerFacts
<1>3. /\ w \in 1 .. MaxNodes /\ params.height \in 1 .. MaxNodes
      /\ Size64 \in 1 .. MaxNodes /\ MaxNodes \in Nat
  BY <1>1, GridFacts
<1>4. /\ todo' = first \o second
      /\ cell' = cell + 1 /\ drawn' = drawn + 2
      /\ UNCHANGED <<vars, params, pass, sites, failure>>
  BY DEF Diagonals
<1> HIDE DEF a
<1>5. w >= 2
  BY <1>2, <1>3
<1> HIDE DEF w
<1>6. /\ a \in Site /\ a + w + 1 \in Site /\ a + 1 \in Site /\ a + w \in Site
      /\ a # a + w + 1 /\ a + 1 # a + w
  BY <1>2, <1>3, <1>5 DEF Site
<1>7. first \in Seq(LatticeArc) /\ second \in Seq(LatticeArc)
  <2>1. /\ Connect(a, a + w + 1) \in Seq(LatticeArc)
        /\ Connect(a + 1, a + w) \in Seq(LatticeArc)
    BY <1>1, <1>6, ConnectType
  <2>2. <<>> \in Seq(LatticeArc)
    OBVIOUS
  <2>3. QED
    BY <2>1, <2>2
<1> HIDE DEF first, second
<1>8. todo' \in Seq(LatticeArc)
  BY <1>4, <1>7, ConcatProperties
<1>9. /\ cell' \in 0 .. (w - 1) * (params.height - 1)
      /\ cell' \in Word
      /\ drawn' = 2 * (Size64 + cell')
  <2>1. (w - 1) * (params.height - 1) \in Nat
    BY <1>2, <1>3
  <2>2. cell' \in 0 .. (w - 1) * (params.height - 1)
    BY <1>2, <1>4, <2>1
  <2>3. (w - 1) * (params.height - 1) <= Size64
    <3>1. (w - 1) * (params.height - 1) <= w * (params.height - 1)
      BY <1>3, Products
    <3>2. (params.height - 1) * w <= params.height * w
      BY <1>3, Products
    <3>3. /\ Size64 = params.height * w
          /\ w * (params.height - 1) = (params.height - 1) * w
      BY <1>3 DEF Size64, w
    <3>4. w * (params.height - 1) \in Nat
      BY <1>3
    <3>5. QED
      BY <1>3, <2>1, <3>1, <3>2, <3>3, <3>4
  <2>4. cell' \in Word
    BY <1>3, <2>1, <2>2, <2>3, LatticeAssumption DEF Word
  <2>5. QED
    BY <1>1, <1>3, <1>4, <2>2, <2>4
<1>10. drawn' \in Nat
  BY <1>1, <1>4
<1>11. QED
  BY <1>1, <1>4, <1>8, <1>9, <1>10, JoinStep DEF w

LEMMA AddNextStep == LatticeInv /\ AddNext => LatticeInv'
<1>1. SUFFICES ASSUME LatticeInv, AddNext PROVE LatticeInv'
  OBVIOUS
<1> DEFINE next == Head(todo)
           weight == Argument(next.weight)
           error == AddArcError(next.source, next.target, weight)
<1>2. /\ pass \in {"backbone", "diagonals"} /\ todo # <<>> /\ Working
      /\ AddArc(next.source, next.target, weight)
      /\ \/ reply'.error # "none" /\ Throw(reply'.error)
         \/ /\ reply'.error = "none"
            /\ todo' = Tail(todo)
            /\ UNCHANGED <<params, pass, cell, sites, drawn, accepted, failure>>
  BY <1>1 DEF AddNext, Working
<1>3. /\ ~consumed /\ sites \in [Site -> Coord]
      /\ staged \in Seq(LatticeArc) /\ todo \in Seq(LatticeArc)
  BY <1>1, <1>2 DEF LatticeInv, Building
<1>4. Size = Size64 /\ Size64 \in 1 .. MaxNodes /\ MaxNodes \in Nat
  BY <1>1, <1>2, SizeOfLattice
<1>5. next \in LatticeArc /\ Tail(todo) \in Seq(LatticeArc)
  BY <1>2, <1>3, HeadTailProperties
<1>6. /\ next.source \in Site /\ next.target \in Site /\ next.weight \in Cost
      /\ next = [source |-> next.source, target |-> next.target,
                 weight |-> next.weight]
  BY <1>5 DEF LatticeArc
<1>7. /\ weight \in Weight \cup {NonFinite}
      /\ weight # NonFinite => weight = next.weight
      /\ weight # Negative
  BY <1>6, CostAssumption, BuilderAssumption DEF Argument, Weight
<1> HIDE DEF next, weight
<1>8. error \in {"none", "non_finite", "capacity"} /\ error \in Errors
  BY <1>3, <1>4, <1>6, <1>7 DEF AddArcError, Site, Errors
<1>9. BuilderInv'
  <2>1. next.source \in 0 .. MaxNodes /\ next.target \in 0 .. MaxNodes
    BY <1>4, <1>6 DEF Site
  <2>2. QED
    BY <1>1, <1>2, <1>7, <2>1, AddArcKeepsInv DEF LatticeInv
<1>10. CASE error # "none"
  <2>1. Throws("add_arc", error)
    BY <1>2, <1>10 DEF AddArc
  <2>2. reply'.error = error /\ UNCHANGED builder
    BY <2>1 DEF Throws, Answer
  <2> HIDE DEF error
  <2>3. Throw(error) /\ error \in {"params", "non_finite", "capacity"}
    BY <1>2, <1>8, <1>10, <2>2
  <2>4. QED
    BY <1>1, <1>8, <2>2, <2>3, ThrowStep
<1>11. CASE error = "none"
  <2>1. /\ staged' = Append(staged, [source |-> next.source,
                                     target |-> next.target,
                                     weight |-> weight])
        /\ reply' = Answer("add_arc", "none")
        /\ UNCHANGED <<alive, consumed, coordinates, external_ids, assigned,
                       assigned_count, graph>>
    BY <1>2, <1>11 DEF AddArc
  <2>2. weight = next.weight
    BY <1>7, <1>11 DEF AddArcError
  <2>3. staged' = Append(staged, next)
    BY <1>6, <2>1, <2>2
  <2>4. /\ todo' = Tail(todo)
        /\ UNCHANGED <<params, pass, cell, sites, drawn, accepted, failure>>
    BY <1>2, <2>1 DEF Answer
  <2>5. /\ Size64' = Size64 /\ Site' = Site /\ LatticeArc' = LatticeArc
        /\ Usable(params)' = Usable(params)
        /\ \A i \in Site : Near(i)' = Near(i) /\ Placed(i)' = Placed(i)
    BY <2>4 DEF Size64, Site, LatticeArc, Usable, Near, SiteAt, Displaced,
                Displacement, RowOfSite, ColumnOfSite, Placed
  <2>6. staged' \in Seq(LatticeArc') /\ todo' \in Seq(LatticeArc')
    <3>1. Append(staged, next) \in Seq(LatticeArc)
      BY <1>3, <1>5, AppendProperties
    <3>2. QED
      BY <1>5, <2>3, <2>4, <2>5, <3>1
  <2>7. Building'
    <3>1. Working' /\ Working
      BY <1>2, <2>4 DEF Working
    <3>2. /\ Usable(params) /\ failure = "none" /\ alive /\ ~consumed
          /\ coordinates \in [Site -> Coord]
          /\ external_ids \in [Site -> ExternalId]
          /\ assigned \in [Site -> BOOLEAN]
          /\ \A i \in Site : /\ assigned[i] <=> Placed(i)
                             /\ Placed(i) => Near(i)
      BY <1>1, <3>1 DEF LatticeInv, Building
    <3>3. QED
      BY <1>3, <2>1, <2>4, <2>5, <2>6, <3>2 DEF Building
  <2>8. Typed' /\ Agreeing'
    BY <1>1, <2>1, <2>4 DEF LatticeInv, Typed, Agreeing
  <2>9. OnSites'
    <3>1. ASSUME NEW k \in DOMAIN Tail(todo) PROVE Tail(todo)[k] \in LatticeArc
      BY <1>5
    <3>2. \A k \in DOMAIN Tail(todo) :
            Tail(todo)[k].source \in Site /\ Tail(todo)[k].target \in Site
      BY <3>1 DEF LatticeArc
    <3>3. QED
      BY <1>3, <2>4, <3>2 DEF OnSites
  <2>10. InTurn' /\ DrawsIgnoreTheRate'
    BY <1>1, <1>2, <2>4, <2>5 DEF LatticeInv, InTurn, DrawsIgnoreTheRate
  <2>11. QED
    BY <1>2, <1>9, <2>4, <2>7, <2>8, <2>9, <2>10
       DEF LatticeInv, Waiting, Delivered
<1>12. QED
  BY <1>10, <1>11
-----------------------------------------------------------------------------
(***************************************************************************)
(* build() and the check of what it returned.                              *)
(***************************************************************************)
LEMMA AllIsSet ==
    ASSUME LatticeInv, pass = "diagonals"
    PROVE  BuildError = "none" /\ coordinates = sites
<1>1. /\ Working /\ ~consumed
      /\ coordinates \in [Site -> Coord] /\ sites \in [Site -> Coord]
      /\ assigned \in [Site -> BOOLEAN]
      /\ \A i \in Site : assigned[i]
  BY DEF LatticeInv, Building, Working, Placed
<1>2. Size = Size64 /\ Size64 \in 1 .. MaxNodes /\ MaxNodes \in Nat
  BY <1>1, SizeOfLattice
<1>3. SetNodes = 0 .. Size64 - 1
  BY <1>1 DEF SetNodes, Site
<1>4. assigned_count = Size
  <2>1. Cardinality(0 .. Size64 - 1) = Size64
    BY <1>2, FS_Interval
  <2>2. QED
    BY <1>1, <1>2, <1>3, <2>1 DEF LatticeInv, BuilderInv, CountIsRight
<1>5. ~(Len(staged) > MaxArcs)
  <2>1. Len(staged) <= MaxArcs /\ Len(staged) \in Nat
    BY LenProperties DEF LatticeInv, BuilderInv, TypeOK
  <2>2. QED
    BY <2>1, LimitAssumption
<1>6. \A i \in Site : coordinates[i] = sites[i]
  BY <1>1 DEF LatticeInv, Agreeing
<1>7. QED
  BY <1>1, <1>4, <1>5, <1>6 DEF BuildError

\* The arcs of the graph are those that were added.
LEMMA ArcsAreAdded ==
    ASSUME NEW n \in 0 .. MaxNodes, NEW arcs \in Seq(StagedArc(n)),
           NEW p, SortedBy(p, arcs),
           NEW sorted, sorted = Reordered(arcs, p),
           NEW g, BuiltFrom(g, n, arcs, sorted), IsCsr(g),
           NEW A, arcs \in Seq(A),
           A \subseteq [source : 0 .. n - 1, target : 0 .. n - 1, weight : Cost],
           NEW u \in 0 .. n - 1, NEW k \in ArcsFrom(g, u)
    PROVE  /\ k \in 0 .. Len(arcs) - 1
           /\ [source |-> u, target |-> g.arc[k].target,
               weight |-> g.arc[k].weight] \in A
<1>1. g.node_count = n /\ g.arc_count = Len(arcs) /\ Len(arcs) \in Nat
  BY LenProperties DEF BuiltFrom, NewGraph
<1>2. k \in 0 .. Len(arcs) - 1
  <2>1. u \in 0 .. n /\ u + 1 \in 0 .. n
    BY LimitAssumption
  <2>2. g.offset[u] \in 0 .. Len(arcs) /\ g.offset[u + 1] \in 0 .. Len(arcs)
    BY <1>1, <2>1 DEF IsCsr
  <2>3. k \in g.offset[u] .. g.offset[u + 1] - 1
    BY DEF ArcsFrom
  <2>4. QED
    BY <1>1, <2>2, <2>3
<1>3. /\ k + 1 \in 1 .. Len(arcs)
      /\ g.arc[k] = [target |-> sorted[k + 1].target,
                     weight |-> sorted[k + 1].weight]
      /\ sorted[k + 1].source = u
  BY <1>2, BuiltArcs
<1>4. sorted[k + 1] \in A
  <2>1. /\ p \in [1 .. Len(arcs) -> 1 .. Len(arcs)]
        /\ \A i \in 1 .. Len(arcs) : sorted[i] = arcs[p[i]]
    BY ReorderedType
  <2>2. p[k + 1] \in 1 .. Len(arcs)
    BY <1>3, <2>1
  <2>3. arcs[p[k + 1]] \in A
    BY <2>2, ElementOfSeq
  <2>4. QED
    BY <1>3, <2>1, <2>3
<1>5. sorted[k + 1] = [source |-> u, target |-> g.arc[k].target,
                       weight |-> g.arc[k].weight]
  <2>1. sorted[k + 1] \in [source : 0 .. n - 1, target : 0 .. n - 1,
                           weight : Cost]
    BY <1>4
  <2>2. QED
    BY <1>3, <2>1
<1>6. QED
  BY <1>2, <1>4, <1>5

\* A graph without a violation passes: the check of the arc in its row is that
\* of the report.
Metric(n, g) ==
    \A u \in 0 .. n - 1 : \A k \in ArcsFrom(g, u) :
        ~Violates(g.coordinate, u, g.arc[k])

LEMMA TightGraphsPass ==
    ASSUME NEW n \in 0 .. MaxNodes, NEW arcs \in Seq(StagedArc(n)),
           NEW p, SortedBy(p, arcs),
           NEW sorted, sorted = Reordered(arcs, p),
           NEW g, BuiltFrom(g, n, arcs, sorted), IsCsr(g),
           Metric(n, g)
    PROVE  g.metric.passes
<1>1. /\ g.node_count = n
      /\ g.metric = MetricReport(n, g.coordinate, g.offset, g.arc)
      /\ DOMAIN g.arc = 0 .. Len(arcs) - 1
  BY DEF BuiltFrom, NewGraph, IsCsr, Arcs
<1>2. ASSUME NEW k \in DOMAIN g.arc
      PROVE  \A u \in 0 .. n - 1 :
                k \in g.offset[u] .. g.offset[u + 1] - 1 =>
                    ~Violates(g.coordinate, u, g.arc[k])
  BY DEF Metric, ArcsFrom
<1>3. Violations(n, g.coordinate, g.offset, g.arc) = {}
  BY <1>2 DEF Violations
<1>4. MetricReport(n, g.coordinate, g.offset, g.arc).passes
  BY <1>3, Zenon DEF MetricReport
<1>5. QED
  BY <1>1, <1>4

LEMMA FinishStep == LatticeInv /\ Finish => LatticeInv'
<1>1. SUFFICES ASSUME LatticeInv, Finish PROVE LatticeInv'
  OBVIOUS
<1>2. /\ pass = "diagonals" /\ ~CellsLeft /\ todo = <<>> /\ Build /\ Working
      /\ \/ reply'.error # "none" /\ Throw(reply'.error)
         \/ /\ reply'.error = "none"
            /\ IF graph'.metric.passes
               THEN pass' = "done" /\ UNCHANGED failure
               ELSE pass' = "failed" /\ failure' = "internal"
            /\ UNCHANGED <<params, cell, sites, todo, drawn, accepted>>
  BY <1>1 DEF Finish, Working
<1>3. /\ BuildError = "none" /\ coordinates = sites
      /\ Usable(params) /\ failure = "none" /\ params \in Params
      /\ external_ids \in [Site -> ExternalId]
      /\ sites \in [Site -> Coord] /\ staged \in Seq(LatticeArc)
      /\ \A i \in Site : Near(i) /\ external_ids[i] = i + 1
  BY <1>1, <1>2, AllIsSet
     DEF LatticeInv, Typed, Building, Agreeing, Placed
<1>4. /\ reply'.error = "none" /\ assigned' = NoVector
      /\ UNCHANGED <<params, cell, sites, todo, drawn, accepted>>
  BY <1>2, <1>3 DEF Build, Answer
<1>5. BuilderInv'
  BY <1>1, <1>2, BuildKeepsInv DEF LatticeInv
<1>6. Size = Size64 /\ Size64 \in 1 .. MaxNodes /\ MaxNodes \in Nat
  BY <1>1, <1>2, SizeOfLattice
<1>7. PICK n \in 0 .. MaxNodes, p \in Orders(staged) :
        /\ coordinates \in [0 .. n - 1 -> Coord]
        /\ external_ids \in [0 .. n - 1 -> ExternalId]
        /\ staged \in Seq(StagedArc(n)) /\ Len(staged) <= MaxArcs
        /\ SortedBy(p, staged)
        /\ BuiltFrom(graph', n, staged, Reordered(staged, p))
  BY <1>1, <1>2, <1>3, BuildMakes DEF LatticeInv
<1>8. n = Size64 /\ Site = 0 .. n - 1
  BY <1>6, <1>7, SizeFact DEF Site
<1>9. IsGraph(graph')
  <2>1. IsCsr(graph')
    BY <1>7, BuiltIsCsr
  <2>2. IsCanonical(graph')
    BY <1>7, <2>1, BuiltIsCanonical
  <2>3. ReportIsRight(graph')
    BY <1>7 DEF BuiltFrom, NewGraph, ReportIsRight
  <2>4. QED
    BY <2>1, <2>2, <2>3 DEF IsGraph
<1>10. /\ graph'.node_count = Size64 /\ graph'.coordinate = sites
       /\ graph'.external_id = external_ids
  BY <1>3, <1>7, <1>8 DEF BuiltFrom, NewGraph
<1>11. ASSUME NEW u \in Site, NEW k \in ArcsFrom(graph', u)
       PROVE  [source |-> u, target |-> graph'.arc[k].target,
               weight |-> graph'.arc[k].weight] \in LatticeArc
  <2>1. LatticeArc \subseteq
            [source : 0 .. n - 1, target : 0 .. n - 1, weight : Cost]
    BY <1>8 DEF LatticeArc
  <2>2. IsCsr(graph')
    BY <1>9 DEF IsGraph
  <2>3. QED
    BY <1>3, <1>7, <1>8, <1>11, <2>1, <2>2, ArcsAreAdded
<1>12. graph'.metric.passes
  <2>1. ASSUME NEW u \in 0 .. n - 1, NEW k \in ArcsFrom(graph', u)
        PROVE  ~Violates(graph'.coordinate, u, graph'.arc[k])
    <3> DEFINE a == [source |-> u, target |-> graph'.arc[k].target,
                     weight |-> graph'.arc[k].weight]
    <3>1. a \in LatticeArc
      BY <1>8, <1>11
    <3>2. /\ graph'.arc[k].weight \in Cost
          /\ graph'.arc[k].weight =
                Hypot(sites[u], sites[graph'.arc[k].target])
      BY <3>1 DEF LatticeArc
    <3>3. graph'.arc[k].weight \in Nat
      BY <3>2, CostAssumption
    <3>4. QED
      BY <1>10, <3>2, <3>3 DEF Violates
  <2>2. IsCsr(graph') /\ Metric(n, graph')
    BY <1>9, <2>1 DEF IsGraph, Metric
  <2>3. QED
    BY <1>7, <2>2, TightGraphsPass
<1>13. pass' = "done" /\ failure' = "none"
  BY <1>2, <1>3, <1>4, <1>12
<1>14. /\ Size64' = Size64 /\ Site' = Site /\ LatticeArc' = LatticeArc
       /\ Usable(params)' = Usable(params)
       /\ \A i \in Site : Near(i)' = Near(i)
  BY <1>4 DEF Size64, Site, LatticeArc, Usable, Near, SiteAt, Displaced,
              Displacement, RowOfSite, ColumnOfSite
<1>15. Delivered'
  <2>1. \A u \in Site : \A k \in ArcsFrom(graph', u) :
            [source |-> u, target |-> graph'.arc[k].target,
             weight |-> graph'.arc[k].weight] \in LatticeArc
    BY <1>11
  <2>2. \A u : ArcsFrom(graph', u) = ArcsFrom(graph, u)'
    BY DEF ArcsFrom
  <2>3. QED
    BY <1>3, <1>4, <1>9, <1>10, <1>12, <1>13, <1>14, <2>1, <2>2 DEF Delivered
<1>16. Typed' /\ Agreeing' /\ OnSites'
  BY <1>1, <1>4, <1>13 DEF LatticeInv, Typed, Agreeing, OnSites, NoVector
<1>17. DrawsIgnoreTheRate'
  <2>1. cell = (params.width - 1) * (params.height - 1)
    <3>1. cell \in 0 .. (params.width - 1) * (params.height - 1)
      BY <1>1, <1>2 DEF LatticeInv, InTurn
    <3>2. Rows = params.height - 1 /\ Columns = params.width - 1
      BY <1>2 DEF Rows, Columns
    <3>3. params.width \in Nat \ {0} /\ params.height \in Nat \ {0}
      BY <1>3, GridFacts
    <3>4. /\ Rows * Columns = (params.width - 1) * (params.height - 1)
          /\ (params.width - 1) * (params.height - 1) \in Nat
      BY <3>2, <3>3
    <3>5. ~(cell < (params.width - 1) * (params.height - 1))
      BY <1>2, <3>4 DEF CellsLeft
    <3>6. QED
      BY <3>1, <3>4, <3>5
  <2>2. drawn = 2 * (Size64 + cell)
    BY <1>1, <1>2 DEF LatticeInv, DrawsIgnoreTheRate
  <2>3. QED
    BY <1>4, <1>13, <1>14, <2>1, <2>2 DEF DrawsIgnoreTheRate
<1>18. QED
  BY <1>5, <1>13, <1>15, <1>16, <1>17
     DEF LatticeInv, Waiting, Building, Working, InTurn

LEMMA NextLattice == LatticeInv /\ [LatticeNext]_allVars => LatticeInv'
<1>1. SUFFICES ASSUME LatticeInv, [LatticeNext]_allVars PROVE LatticeInv'
  OBVIOUS
<1>2. CASE Reject \/ Start \/ Backbone \/ AddNext \/ Finish
  BY <1>1, <1>2, RejectStep, StartStep, BackboneStep, AddNextStep, FinishStep
<1>3. CASE \E x, y \in Units : Place(x, y) \/ Diagonals(x, y)
  BY <1>1, <1>3, PlaceStep, DiagonalsStep
<1>4. CASE After("place", "backbone") \/ After("backbone", "diagonals")
  BY <1>1, <1>4, AfterStep
<1>5. CASE UNCHANGED allVars
  <2>1. /\ UNCHANGED <<alive, consumed, coordinates, external_ids, assigned,
                       assigned_count, staged, graph, reply>>
        /\ UNCHANGED <<params, pass, cell, sites, todo, drawn, accepted, failure>>
    BY <1>5 DEF allVars, vars, latticeVars
  <2>2. BuilderInv'
    BY <1>1, <2>1, ThrowKeepsInv DEF LatticeInv, BuilderInv, TypeOK, builder
  <2>3. /\ Size64' = Size64 /\ Site' = Site /\ LatticeArc' = LatticeArc
        /\ Usable(params)' = Usable(params)
        /\ \A i \in Site : Near(i)' = Near(i) /\ Placed(i)' = Placed(i)
    BY <2>1 DEF Size64, Site, LatticeArc, Usable, Near, SiteAt, Displaced,
                Displacement, RowOfSite, ColumnOfSite, Placed
  <2>4. Typed' /\ Waiting' /\ InTurn' /\ Agreeing' /\ OnSites'
    BY <1>1, <2>1, <2>3
       DEF LatticeInv, Typed, Waiting, InTurn, Agreeing, OnSites
  <2>5. Building'
    BY <1>1, <2>1, <2>3 DEF LatticeInv, Building, Working
  <2>6. DrawsIgnoreTheRate'
    BY <1>1, <2>1, <2>3 DEF LatticeInv, DrawsIgnoreTheRate
  <2>7. Delivered'
    <3>1. \A u : ArcsFrom(graph, u)' = ArcsFrom(graph, u)
      BY <2>1 DEF ArcsFrom
    <3>2. QED
      BY <1>1, <2>1, <2>3, <3>1 DEF LatticeInv, Delivered
  <2>8. QED
    BY <2>2, <2>4, <2>5, <2>6, <2>7 DEF LatticeInv
<1>6. QED
  BY <1>1, <1>2, <1>3, <1>4, <1>5 DEF LatticeNext, Returned

-----------------------------------------------------------------------------
(***************************************************************************)
(* What holds of every state.                                              *)
(***************************************************************************)
THEOREM LatticeInvariant == LatticeSpec => []LatticeInv
<1>1. LatticeInv /\ [LatticeNext]_allVars => LatticeInv'
  BY NextLattice
<1>2. QED
  BY InitLattice, <1>1, PTL DEF LatticeSpec

(***************************************************************************)
(* The type invariant: the generator's coordinates are the builder's, no   *)
(* arc leaves the lattice, and only an overflow or an arc too many makes   *)
(* the builder throw; the check of the size keeps 32-bit indices in range. *)
(***************************************************************************)
THEOREM LatticeTypeCorrect == LatticeSpec => []LatticeTypeOK
<1>1. LatticeInv => LatticeTypeOK
  BY DEF LatticeInv, Typed, Agreeing, OnSites, LatticeTypeOK
<1>2. QED
  BY LatticeInvariant, <1>1, PTL

(***************************************************************************)
(* The position in the stream depends on the place alone: the rate shifts  *)
(* no draw (generator.hpp).                                                *)
(***************************************************************************)
THEOREM RateDoesNotShiftTheStream == LatticeSpec => []DrawsIgnoreTheRate
<1>1. LatticeInv => DrawsIgnoreTheRate
  BY DEF LatticeInv
<1>2. QED
  BY LatticeInvariant, <1>1, PTL

(***************************************************************************)
(* What generate() returns is a graph as GraphBuilder promises it, and one *)
(* whose metric report passes: "rather than assume it" is never needed.    *)
(***************************************************************************)
GeneratedGraphIsUsable ==
    /\ failure # "internal"
    /\ pass = "done" => IsGraph(graph) /\ graph.metric.passes

\* A generated graph satisfies what searches ask of a graph, and generating
\* never ends in the internal error.
THEOREM GeneratedGraphsAreUsable == LatticeSpec => []GeneratedGraphIsUsable
<1>1. LatticeInv => GeneratedGraphIsUsable
  BY DEF LatticeInv, Typed, Delivered, GeneratedGraphIsUsable
<1>2. QED
  BY LatticeInvariant, <1>1, PTL

-----------------------------------------------------------------------------
(***************************************************************************)
(* Every arc is as long as the line between its ends, in both directions,  *)
(* and the report passes (generator.hpp), however coordinates round.       *)
(***************************************************************************)
THEOREM GeneratedGraphsAreTight == LatticeSpec => []EveryArcIsTight
<1>1. LatticeInv => EveryArcIsTight
  <2>1. SUFFICES ASSUME LatticeInv, pass = "done"
                 PROVE  EveryArcIsTight
    BY DEF LatticeInv, Typed, EveryArcIsTight
  <2>2. /\ failure = "none" /\ graph.coordinate = sites
        /\ graph.node_count = Size64 /\ graph.metric.passes
    BY <2>1 DEF LatticeInv, Delivered
  <2>3. Nodes(graph) = Site
    BY <2>2 DEF Nodes, Site
  <2>4. ASSUME NEW u \in Site, NEW k \in ArcsFrom(graph, u)
        PROVE  graph.arc[k].weight = Hypot(sites[u], sites[graph.arc[k].target])
    <3>1. [source |-> u, target |-> graph.arc[k].target,
           weight |-> graph.arc[k].weight] \in LatticeArc
      BY <2>1 DEF LatticeInv, Delivered
    <3>2. QED
      BY <3>1 DEF LatticeArc
  <2>5. QED
    BY <2>2, <2>3, <2>4 DEF EveryArcIsTight
<1>2. QED
  BY LatticeInvariant, <1>1, PTL

-----------------------------------------------------------------------------
(***************************************************************************)
(* Sequences of arcs as lists of the pairs of nodes that they join.        *)
(***************************************************************************)
Ends(a) == <<a.source, a.target>>

Both(a, b) == {<<a, b>>, <<b, a>>}

\* The sequence has one arc for each pair of the set, and no other.
Lists(arcs, P) ==
    /\ \A m \in DOMAIN arcs : Ends(arcs[m]) \in P
    /\ \A m, l \in DOMAIN arcs : Ends(arcs[m]) = Ends(arcs[l]) => m = l
    /\ \A q \in P : \E m \in DOMAIN arcs : Ends(arcs[m]) = q

LEMMA ListsNothing == Lists(<<>>, {})
<1>1. DOMAIN <<>> = {}
  OBVIOUS
<1>2. QED
  BY <1>1 DEF Lists

LEMMA ListsConnect ==
    ASSUME NEW a, NEW b, a # b
    PROVE  Lists(Connect(a, b), Both(a, b))
<1> DEFINE s == Connect(a, b)
<1>1. /\ DOMAIN s = {1, 2}
      /\ s[1].source = a /\ s[1].target = b
      /\ s[2].source = b /\ s[2].target = a
  BY DEF Connect
<1>2. Ends(s[1]) = <<a, b>> /\ Ends(s[2]) = <<b, a>>
  BY <1>1 DEF Ends
<1>3. <<a, b>> # <<b, a>>
  OBVIOUS
<1> HIDE DEF s
<1>4. \A m \in DOMAIN s : m = 1 \/ m = 2
  BY <1>1
<1>5. \A m \in DOMAIN s : Ends(s[m]) \in Both(a, b)
  BY <1>2, <1>4 DEF Both
<1>6. \A m, l \in DOMAIN s : Ends(s[m]) = Ends(s[l]) => m = l
  BY <1>2, <1>3, <1>4
<1>7. \A q \in Both(a, b) : \E m \in DOMAIN s : Ends(s[m]) = q
  BY <1>1, <1>2 DEF Both
<1>8. QED
  BY <1>5, <1>6, <1>7 DEF Lists, s

LEMMA ListsConcat ==
    ASSUME NEW A, NEW s \in Seq(A), NEW t \in Seq(A), NEW P, NEW Q,
           P \cap Q = {}, Lists(s, P), Lists(t, Q)
    PROVE  Lists(s \o t, P \cup Q)
<1> DEFINE m == Len(s)
           n == Len(t)
           c == s \o t
<1>1. /\ m \in Nat /\ n \in Nat
      /\ DOMAIN s = 1 .. m /\ DOMAIN t = 1 .. n /\ DOMAIN c = 1 .. m + n
      /\ \A i \in 1 .. m + n : c[i] = IF i <= m THEN s[i] ELSE t[i - m]
  BY ConcatProperties, LenProperties
<1> HIDE DEF m, n, c
<1>2. \A i \in 1 .. m : i \in 1 .. m + n /\ c[i] = s[i]
  BY <1>1
<1>3. \A i \in 1 .. n : i + m \in 1 .. m + n /\ c[i + m] = t[i]
  BY <1>1
<1>4. ASSUME NEW i \in 1 .. m + n
      PROVE  \/ i \in 1 .. m /\ Ends(c[i]) \in P /\ Ends(c[i]) = Ends(s[i])
             \/ /\ i - m \in 1 .. n /\ Ends(c[i]) \in Q
                /\ Ends(c[i]) = Ends(t[i - m])
  <2>1. CASE i <= m
    <3>1. i \in 1 .. m /\ c[i] = s[i]
      BY <1>1, <2>1
    <3>2. QED
      BY <1>1, <3>1 DEF Lists
  <2>2. CASE ~(i <= m)
    <3>1. i - m \in 1 .. n /\ c[i] = t[i - m]
      BY <1>1, <2>2
    <3>2. QED
      BY <1>1, <3>1 DEF Lists
  <2>3. QED
    BY <2>1, <2>2
<1>5. \A i \in 1 .. m + n : Ends(c[i]) \in P \cup Q
  BY <1>4
<1>6. ASSUME NEW i \in 1 .. m + n, NEW j \in 1 .. m + n, Ends(c[i]) = Ends(c[j])
      PROVE  i = j
  <2>1. CASE i \in 1 .. m /\ j \in 1 .. m
    <3>1. Ends(s[i]) = Ends(s[j])
      BY <1>2, <1>6, <2>1
    <3>2. QED
      BY <1>1, <2>1, <3>1 DEF Lists
  <2>2. CASE i - m \in 1 .. n /\ j - m \in 1 .. n
    <3>1. Ends(t[i - m]) = Ends(t[j - m])
      <4>1. c[i] = t[i - m] /\ c[j] = t[j - m]
        BY <1>1, <2>2
      <4>2. QED
        BY <1>6, <4>1
    <3>2. i - m = j - m
      BY <1>1, <2>2, <3>1 DEF Lists
    <3>3. QED
      BY <1>1, <3>2
  <2>3. \/ i \in 1 .. m /\ Ends(c[i]) \in P
        \/ i - m \in 1 .. n /\ Ends(c[i]) \in Q
    BY <1>4
  <2>4. \/ j \in 1 .. m /\ Ends(c[j]) \in P
        \/ j - m \in 1 .. n /\ Ends(c[j]) \in Q
    BY <1>4
  <2>5. QED
    BY <1>6, <2>1, <2>2, <2>3, <2>4
<1>7. ASSUME NEW q \in P \cup Q PROVE \E i \in 1 .. m + n : Ends(c[i]) = q
  <2>1. CASE q \in P
    <3>1. PICK i \in 1 .. m : Ends(s[i]) = q
      BY <1>1, <2>1 DEF Lists
    <3>2. QED
      BY <1>2, <3>1
  <2>2. CASE q \in Q
    <3>1. PICK i \in 1 .. n : Ends(t[i]) = q
      BY <1>1, <2>2 DEF Lists
    <3>2. QED
      BY <1>3, <3>1
  <2>3. QED
    BY <2>1, <2>2
<1>8. DOMAIN c = 1 .. m + n
  BY <1>1
<1>9. Lists(c, P \cup Q)
  BY <1>5, <1>6, <1>7, <1>8 DEF Lists
<1>10. QED
  BY <1>9 DEF c

\* Where arcs list pairs, the graph has an arc from one to another node for
\* each of them, and only one.
SlotsBetween(g, i, j) == {k \in ArcsFrom(g, i) : g.arc[k].target = j}

LEMMA BuiltLists ==
    ASSUME NEW n \in 0 .. MaxNodes, NEW arcs \in Seq(StagedArc(n)),
           NEW p, SortedBy(p, arcs),
           NEW sorted, sorted = Reordered(arcs, p),
           NEW g, BuiltFrom(g, n, arcs, sorted), IsCsr(g),
           NEW P, Lists(arcs, P), NEW i \in 0 .. n - 1, NEW j
    PROVE  Cardinality(SlotsBetween(g, i, j)) = IF <<i, j>> \in P THEN 1 ELSE 0
<1> DEFINE m == Len(arcs)
<1>1. g.node_count = n /\ g.arc_count = m /\ m \in Nat
  BY LenProperties DEF BuiltFrom, NewGraph
<1>2. Slots(g, n, sorted, m)
  BY BuiltSlots
<1>3. /\ DOMAIN arcs = 1 .. m /\ p \in [1 .. m -> 1 .. m]
      /\ \A k \in 1 .. m : sorted[k] = arcs[p[k]]
      /\ p \in Bijection(1 .. m, 1 .. m)
  BY ReorderedType DEF SortedBy
<1>4. g.offset[i] \in 0 .. m /\ g.offset[i + 1] \in 0 .. m
  <2>1. i \in 0 .. n /\ i + 1 \in 0 .. n
    BY LimitAssumption
  <2>2. QED
    BY <1>1, <2>1 DEF IsCsr
<1> HIDE DEF m
<1>5. ArcsFrom(g, i) \subseteq 0 .. m - 1
  BY <1>1, <1>4 DEF ArcsFrom
<1>6. ASSUME NEW k \in 0 .. m - 1
      PROVE  /\ k + 1 \in 1 .. m /\ p[k + 1] \in 1 .. m
             /\ k \in SlotsBetween(g, i, j) <=>
                    Ends(arcs[p[k + 1]]) = <<i, j>>
  <2>1. /\ k + 1 \in 1 .. m
        /\ g.arc[k] = [target |-> sorted[k + 1].target,
                       weight |-> sorted[k + 1].weight]
        /\ k \in ArcsFrom(g, i) <=> sorted[k + 1].source = i
    BY <1>2 DEF Slots
  <2>2. g.arc[k].target = sorted[k + 1].target
    BY <2>1
  <2>3. p[k + 1] \in 1 .. m /\ sorted[k + 1] = arcs[p[k + 1]]
    BY <1>3, <2>1
  <2>4. k \in SlotsBetween(g, i, j) <=>
            sorted[k + 1].source = i /\ sorted[k + 1].target = j
    BY <2>1, <2>2 DEF SlotsBetween
  <2>5. QED
    BY <2>1, <2>3, <2>4 DEF Ends
<1>7. SlotsBetween(g, i, j) \subseteq 0 .. m - 1
  BY <1>5 DEF SlotsBetween
<1>8. CASE <<i, j>> \notin P
  <2>1. \A k \in 1 .. m : Ends(arcs[k]) # <<i, j>>
    BY <1>3, <1>8 DEF Lists
  <2>2. SlotsBetween(g, i, j) = {}
    BY <1>6, <1>7, <2>1
  <2>3. QED
    BY <1>8, <2>2, FS_EmptySet
<1>9. CASE <<i, j>> \in P
  <2>1. PICK l \in 1 .. m : Ends(arcs[l]) = <<i, j>>
    BY <1>3, <1>9 DEF Lists
  <2>2. PICK s \in 1 .. m : p[s] = l
    BY <1>3 DEF Bijection, Surjection
  <2>3. s - 1 \in 0 .. m - 1 /\ (s - 1) + 1 = s
    BY <1>1
  <2>4. s - 1 \in SlotsBetween(g, i, j)
    BY <1>6, <2>1, <2>2, <2>3
  <2>5. ASSUME NEW k \in SlotsBetween(g, i, j) PROVE k = s - 1
    <3>1. /\ k \in 0 .. m - 1 /\ k + 1 \in 1 .. m /\ p[k + 1] \in 1 .. m
          /\ Ends(arcs[p[k + 1]]) = <<i, j>>
      BY <1>6, <1>7
    <3>2. p[k + 1] = l
      BY <1>3, <2>1, <3>1 DEF Lists
    <3>3. k + 1 = s
      <4>1. IsInjective(p) /\ DOMAIN p = 1 .. m
        BY <1>3 DEF Bijection, Injection
      <4>2. QED
        BY <2>2, <3>1, <3>2, <4>1 DEF IsInjective
    <3>4. QED
      BY <1>1, <3>1, <3>3
  <2>6. SlotsBetween(g, i, j) = {s - 1}
    BY <2>4, <2>5
  <2>7. Cardinality({s - 1}) = 1
    BY FS_Singleton
  <2>8. QED
    BY <1>9, <2>6, <2>7
<1>10. QED
  BY <1>8, <1>9

-----------------------------------------------------------------------------
(***************************************************************************)
(* Neighbours and diagonals of the lattice, by the cell that joins them.   *)
(***************************************************************************)
LEMMA PlaceOfSite ==
    ASSUME params \in Params, Usable(params), NEW i \in Site
    PROVE  /\ RowOfSite(i) \in 0 .. params.height - 1
           /\ ColumnOfSite(i) \in 0 .. params.width - 1
           /\ i = RowOfSite(i) * params.width + ColumnOfSite(i)
           /\ RowOfSite(i) \in Nat /\ ColumnOfSite(i) \in Nat
           /\ params.width \in Nat \ {0} /\ params.height \in Nat \ {0}
<1> DEFINE w == params.width
           h == params.height
           r == RowOfSite(i)
           c == ColumnOfSite(i)
<1>1. /\ w \in Nat \ {0} /\ h \in Nat \ {0} /\ i \in 0 .. w * h - 1
      /\ r = i \div w /\ c = i % w
  BY GridFacts DEF Site, Size64, RowOfSite, ColumnOfSite
<1> HIDE DEF w, h, r, c
<1>2. i \in 0 .. h * w - 1
  <2>1. h * w = w * h
    BY <1>1
  <2>2. QED
    BY <1>1, <2>1
<1>3. r \in 0 .. h - 1 /\ c \in 0 .. w - 1 /\ i = r * w + c
  BY <1>1, <1>2, RowAndColumn
<1>4. QED
  BY <1>1, <1>3 DEF w, h, r, c

LEMMA SiteOfPlace ==
    ASSUME params \in Params, Usable(params),
           NEW r \in 0 .. params.height - 1, NEW c \in 0 .. params.width - 1,
           NEW i, i = r * params.width + c
    PROVE  i \in Site /\ RowOfSite(i) = r /\ ColumnOfSite(i) = c
<1> DEFINE w == params.width
           h == params.height
<1>1. /\ w \in Nat \ {0} /\ h \in Nat \ {0} /\ Site = 0 .. w * h - 1
      /\ RowOfSite(i) = i \div w /\ ColumnOfSite(i) = i % w
      /\ r \in 0 .. h - 1 /\ c \in 0 .. w - 1 /\ i = r * w + c
  BY GridFacts DEF Site, Size64, RowOfSite, ColumnOfSite
<1> HIDE DEF w, h
<1>2. r \in Nat /\ (r * w + c) \div w = r /\ (r * w + c) % w = c
  <2>1. r \in Nat
    BY <1>1
  <2>2. QED
    BY <1>1, <2>1, OnlyRowAndColumn
<1>3. i \in 0 .. w * h - 1
  <2>1. (r + 1) * w <= h * w
    BY <1>1, Products
  <2>2. (r + 1) * w = r * w + w /\ h * w = w * h /\ r * w \in Nat
    BY <1>1
  <2>3. QED
    BY <1>1, <2>1, <2>2
<1>4. QED
  BY <1>1, <1>2, <1>3

Least(a, b) == IF a < b THEN a ELSE b

\* The cell of the third pass that two diagonal nodes are corners of.
CellOf(i, j) ==
    Least(RowOfSite(i), RowOfSite(j)) * (params.width - 1)
        + Least(ColumnOfSite(i), ColumnOfSite(j))

LEMMA Symmetry ==
    ASSUME params \in Params, Usable(params), NEW i \in Site, NEW j \in Site
    PROVE  /\ Neighbours(i, j) <=> Neighbours(j, i)
           /\ Diagonal(i, j) <=> Diagonal(j, i)
           /\ CellOf(i, j) = CellOf(j, i) /\ Least(i, j) = Least(j, i)
           /\ ~Neighbours(i, i) /\ ~Diagonal(i, i)
           /\ ~(Neighbours(i, j) /\ Diagonal(i, j))
<1>1. /\ RowOfSite(i) \in Nat /\ ColumnOfSite(i) \in Nat
      /\ RowOfSite(j) \in Nat /\ ColumnOfSite(j) \in Nat
  BY PlaceOfSite
<1>2. i \in Int /\ j \in Int
  BY DEF Site
<1>3. \A a, b \in Nat :
        /\ Distance(a, b) = Distance(b, a) /\ Distance(a, a) = 0
        /\ Distance(a, b) \in Nat /\ Least(a, b) = Least(b, a)
  BY DEF Distance, Least
<1> DEFINE dr == Distance(RowOfSite(i), RowOfSite(j))
           dc == Distance(ColumnOfSite(i), ColumnOfSite(j))
<1>4. /\ dr \in Nat /\ dc \in Nat
      /\ Neighbours(i, j) <=> dr + dc = 1
      /\ Diagonal(i, j) <=> dr = 1 /\ dc = 1
      /\ Neighbours(j, i) <=> dr + dc = 1
      /\ Diagonal(j, i) <=> dr = 1 /\ dc = 1
  BY <1>1, <1>3 DEF Neighbours, Diagonal
<1> HIDE DEF dr, dc
<1>5. /\ Neighbours(i, j) <=> Neighbours(j, i)
      /\ Diagonal(i, j) <=> Diagonal(j, i)
      /\ ~(Neighbours(i, j) /\ Diagonal(i, j))
  BY <1>4
<1>6. ~Neighbours(i, i) /\ ~Diagonal(i, i)
  <2>1. /\ Distance(RowOfSite(i), RowOfSite(i)) = 0
        /\ Distance(ColumnOfSite(i), ColumnOfSite(i)) = 0
    BY <1>1, <1>3
  <2>2. 0 + 0 # 1 /\ 0 # 1
    OBVIOUS
  <2>3. QED
    BY <2>1, <2>2 DEF Neighbours, Diagonal
<1>7. CellOf(i, j) = CellOf(j, i)
  BY <1>1, <1>3 DEF CellOf
<1>8. Least(i, j) = Least(j, i)
  BY <1>2 DEF Least
<1>9. QED
  BY <1>5, <1>6, <1>7, <1>8

\* The neighbours that come after a node, in its row and in the next.
LEMMA NeighboursAfter ==
    ASSUME params \in Params, Usable(params), NEW i \in Site, NEW j \in Site,
           i < j
    PROVE  Neighbours(i, j) <=>
              \/ ColumnOfSite(i) + 1 < params.width /\ j = i + 1
              \/ RowOfSite(i) + 1 < params.height /\ j = i + params.width
<1> DEFINE w == params.width
           h == params.height
           r == RowOfSite(i)
           c == ColumnOfSite(i)
           s == RowOfSite(j)
           d == ColumnOfSite(j)
<1>1. /\ r \in 0 .. h - 1 /\ c \in 0 .. w - 1 /\ i = r * w + c
      /\ s \in 0 .. h - 1 /\ d \in 0 .. w - 1 /\ j = s * w + d
      /\ w \in Nat \ {0} /\ h \in Nat \ {0} /\ r \in Nat /\ s \in Nat
      /\ c \in Nat /\ d \in Nat
  BY PlaceOfSite
<1>2. Neighbours(i, j) <=> Distance(r, s) + Distance(c, d) = 1
  BY DEF Neighbours
<1>3. ASSUME c + 1 < w, j = i + 1 PROVE s = r /\ d = c + 1
  <2>1. c + 1 \in 0 .. params.width - 1 /\ r \in 0 .. params.height - 1
    BY <1>1, <1>3
  <2>2. j = r * params.width + (c + 1)
    BY <1>1, <1>3
  <2>3. QED
    BY <2>1, <2>2, SiteOfPlace
<1>4. ASSUME r + 1 < h, j = i + w PROVE s = r + 1 /\ d = c
  <2>1. c \in 0 .. params.width - 1 /\ r + 1 \in 0 .. params.height - 1
    BY <1>1, <1>4
  <2>2. j = (r + 1) * params.width + c
    <3>1. (r + 1) * w = r * w + w
      BY <1>1
    <3>2. r * w \in Nat
      BY <1>1
    <3>3. QED
      BY <1>1, <1>4, <3>1, <3>2
  <2>3. QED
    BY <2>1, <2>2, SiteOfPlace
<1> HIDE DEF w, h, r, c, s, d
<1>5. ASSUME Distance(r, s) + Distance(c, d) = 1
      PROVE  \/ c + 1 < w /\ j = i + 1
             \/ r + 1 < h /\ j = i + w
  <2>1. \/ r = s /\ (d = c + 1 \/ c = d + 1)
        \/ c = d /\ (s = r + 1 \/ r = s + 1)
    BY <1>1, <1>5 DEF Distance
  <2>2. CASE r = s /\ d = c + 1
    BY <1>1, <2>2
  <2>3. CASE r = s /\ c = d + 1
    BY <1>1, <2>3
  <2>4. CASE c = d /\ s = r + 1
    <3>1. (r + 1) * w = r * w + w
      BY <1>1
    <3>2. r * w \in Nat
      BY <1>1
    <3>3. QED
      BY <1>1, <2>4, <3>1, <3>2
  <2>5. CASE c = d /\ r = s + 1
    <3>1. (s + 1) * w = s * w + w
      BY <1>1
    <3>2. s * w \in Nat
      BY <1>1
    <3>3. QED
      BY <1>1, <2>5, <3>1, <3>2
  <2>6. QED
    BY <2>1, <2>2, <2>3, <2>4, <2>5
<1>6. ASSUME \/ c + 1 < w /\ j = i + 1
             \/ r + 1 < h /\ j = i + w
      PROVE  Distance(r, s) + Distance(c, d) = 1
  BY <1>1, <1>3, <1>4, <1>6 DEF Distance
<1>7. QED
  BY <1>2, <1>5, <1>6 DEF w, h, r, c

\* The corners that a cell of the third pass joins.
LEMMA CornersOfCell ==
    ASSUME params \in Params, Usable(params), pass = "diagonals",
           cell \in Nat, CellsLeft, NEW i \in Site, NEW j \in Site, i < j,
           NEW a, a = Index(Row, Column)
    PROVE  Diagonal(i, j) /\ CellOf(i, j) = cell <=>
              \/ i = a /\ j = a + params.width + 1
              \/ i = a + 1 /\ j = a + params.width
<1> DEFINE w == params.width
           h == params.height
           r == RowOfSite(i)
           c == ColumnOfSite(i)
           s == RowOfSite(j)
           d == ColumnOfSite(j)
           x == Row
           y == Column
<1>1. /\ r \in 0 .. h - 1 /\ c \in 0 .. w - 1 /\ i = r * w + c
      /\ s \in 0 .. h - 1 /\ d \in 0 .. w - 1 /\ j = s * w + d
      /\ w \in Nat \ {0} /\ h \in Nat \ {0} /\ r \in Nat /\ s \in Nat
      /\ c \in Nat /\ d \in Nat
  BY PlaceOfSite
<1>2. /\ x \in 0 .. h - 2 /\ y \in 0 .. w - 2
      /\ a = x * w + y /\ x + 1 \in 0 .. h - 1 /\ y + 1 \in 0 .. w - 1
      /\ x \in 0 .. h - 1 /\ y \in 0 .. w - 1
  <2>1. /\ x \in 0 .. h - 2 /\ y \in 0 .. w - 2 /\ Columns = w - 1
        /\ cell = x * (w - 1) + y /\ a = x * w + y
    BY CornerFacts
  <2>2. w \in Nat /\ h \in Nat
    BY <1>1
  <2> HIDE DEF w, h, x, y
  <2>3. QED
    BY <2>1, <2>2 DEF x, y
<1>3. cell = x * (w - 1) + y /\ x = cell \div (w - 1) /\ y = cell % (w - 1)
  BY CornerFacts DEF Row, Column
<1>4. /\ Diagonal(i, j) <=> Distance(r, s) = 1 /\ Distance(c, d) = 1
      /\ CellOf(i, j) = Least(r, s) * (w - 1) + Least(c, d)
  BY DEF Diagonal, CellOf
<1> HIDE DEF w, h, r, c, s, d, x, y
<1>5. ASSUME i = a, j = a + w + 1
      PROVE  r = x /\ c = y /\ s = x + 1 /\ d = y + 1
  <2>1. /\ x \in 0 .. params.height - 1 /\ y \in 0 .. params.width - 1
        /\ x + 1 \in 0 .. params.height - 1 /\ y + 1 \in 0 .. params.width - 1
    BY <1>2 DEF w, h
  <2>2. i = x * params.width + y
    BY <1>2, <1>5 DEF w
  <2>3. j = (x + 1) * params.width + (y + 1)
    <3>1. (x + 1) * w = x * w + w /\ x * w \in Nat
      BY <1>1, <1>2
    <3>2. j = (x + 1) * w + (y + 1)
      BY <1>1, <1>2, <1>5, <3>1
    <3>3. QED
      BY <3>2 DEF w
  <2>4. r = x /\ c = y
    BY <2>1, <2>2, SiteOfPlace DEF r, c, s, d
  <2>5. s = x + 1 /\ d = y + 1
    BY <2>1, <2>3, SiteOfPlace DEF r, c, s, d
  <2>6. QED
    BY <2>4, <2>5
<1>6. ASSUME i = a + 1, j = a + w
      PROVE  r = x /\ c = y + 1 /\ s = x + 1 /\ d = y
  <2>1. /\ x \in 0 .. params.height - 1 /\ y \in 0 .. params.width - 1
        /\ x + 1 \in 0 .. params.height - 1 /\ y + 1 \in 0 .. params.width - 1
    BY <1>2 DEF w, h
  <2>2. i = x * params.width + (y + 1)
    <3>1. x * w \in Nat
      BY <1>1, <1>2
    <3>2. i = x * w + (y + 1)
      BY <1>1, <1>2, <1>6, <3>1
    <3>3. QED
      BY <3>2 DEF w
  <2>3. j = (x + 1) * params.width + y
    <3>1. (x + 1) * w = x * w + w /\ x * w \in Nat
      BY <1>1, <1>2
    <3>2. j = (x + 1) * w + y
      BY <1>1, <1>2, <1>6, <3>1
    <3>3. QED
      BY <3>2 DEF w
  <2>4. r = x /\ c = y + 1
    BY <2>1, <2>2, SiteOfPlace DEF r, c, s, d
  <2>5. s = x + 1 /\ d = y
    BY <2>1, <2>3, SiteOfPlace DEF r, c, s, d
  <2>6. QED
    BY <2>4, <2>5
<1>7. ASSUME Distance(r, s) = 1, Distance(c, d) = 1,
             Least(r, s) * (w - 1) + Least(c, d) = cell
      PROVE  \/ i = a /\ j = a + w + 1
             \/ i = a + 1 /\ j = a + w
  <2>1. (s = r + 1 \/ r = s + 1) /\ (d = c + 1 \/ c = d + 1)
    BY <1>1, <1>7 DEF Distance
  <2>2. s = r + 1
    <3>1. SUFFICES ASSUME r = s + 1 PROVE FALSE
      BY <2>1
    <3>2. (s + 1) * w = s * w + w /\ s * w \in Nat
      BY <1>1
    <3>3. QED
      BY <1>1, <3>1, <3>2
  <2>3. Least(r, s) = r
    BY <1>1, <2>2 DEF Least
  <2>4. Least(c, d) \in 0 .. (w - 1) - 1 /\ w - 1 \in Nat \ {0}
    BY <1>1, <2>1 DEF Least
  <2> DEFINE l == Least(c, d)
  <2> HIDE DEF l
  <2>5. (r * (w - 1) + l) \div (w - 1) = r /\ (r * (w - 1) + l) % (w - 1) = l
    BY <1>1, <2>4, OnlyRowAndColumn DEF l
  <2>6. r = x /\ l = y
    BY <1>7, <1>3, <2>3, <2>5 DEF l
  <2>7. j = r * w + w + d
    <3>1. (r + 1) * w = r * w + w
      BY <1>1
    <3>2. QED
      BY <1>1, <2>2, <3>1
  <2>8. r * w \in Nat /\ a = r * w + y
    BY <1>1, <1>2, <2>6
  <2>9. CASE d = c + 1
    <3>1. y = c
      BY <1>1, <2>6, <2>9 DEF Least, l
    <3>2. QED
      BY <1>1, <2>7, <2>8, <2>9, <3>1
  <2>10. CASE c = d + 1
    <3>1. y = d
      BY <1>1, <2>6, <2>10 DEF Least, l
    <3>2. QED
      BY <1>1, <2>7, <2>8, <2>10, <3>1
  <2>11. QED
    BY <2>1, <2>9, <2>10
<1>8. ASSUME \/ i = a /\ j = a + w + 1
             \/ i = a + 1 /\ j = a + w
      PROVE  /\ Distance(r, s) = 1 /\ Distance(c, d) = 1
             /\ Least(r, s) * (w - 1) + Least(c, d) = cell
  <2>1. r = x /\ s = x + 1 /\ ((c = y /\ d = y + 1) \/ (c = y + 1 /\ d = y))
    BY <1>5, <1>6, <1>8
  <2>2. /\ Distance(r, s) = 1 /\ Distance(c, d) = 1
        /\ Least(r, s) = x /\ Least(c, d) = y
    BY <1>1, <2>1 DEF Distance, Least
  <2>3. QED
    BY <1>3, <2>2
<1>9. QED
  BY <1>4, <1>7, <1>8 DEF w

\* Diagonal nodes are corners of one of the cells.
LEMMA CellOfDiagonal ==
    ASSUME params \in Params, Usable(params), NEW i \in Site, NEW j \in Site,
           Diagonal(i, j)
    PROVE  CellOf(i, j) \in 0 .. (params.width - 1) * (params.height - 1) - 1
<1> DEFINE w == params.width
           h == params.height
           r == RowOfSite(i)
           c == ColumnOfSite(i)
           s == RowOfSite(j)
           d == ColumnOfSite(j)
           x == Least(r, s)
           y == Least(c, d)
<1>1. /\ r \in 0 .. h - 1 /\ c \in 0 .. w - 1
      /\ s \in 0 .. h - 1 /\ d \in 0 .. w - 1
      /\ w \in Nat \ {0} /\ h \in Nat \ {0}
  BY PlaceOfSite
<1>2. Distance(r, s) = 1 /\ Distance(c, d) = 1
  BY DEF Diagonal
<1>3. CellOf(i, j) = x * (w - 1) + y
  BY DEF CellOf
<1> HIDE DEF w, h, r, c, s, d
<1>4. x \in 0 .. h - 2 /\ y \in 0 .. w - 2
  BY <1>1, <1>2 DEF Distance, Least
<1> HIDE DEF x, y
<1>5. (x + 1) * (w - 1) <= (h - 1) * (w - 1)
  BY <1>1, <1>4, Products
<1>6. /\ (x + 1) * (w - 1) = x * (w - 1) + (w - 1)
      /\ (h - 1) * (w - 1) = (w - 1) * (h - 1)
      /\ x * (w - 1) \in Nat
  BY <1>1, <1>4
<1>7. x * (w - 1) + y \in 0 .. (w - 1) * (h - 1) - 1
  BY <1>1, <1>4, <1>5, <1>6
<1>8. QED
  BY <1>3, <1>7 DEF w, h

-----------------------------------------------------------------------------
(***************************************************************************)
(* The second invariant: which pairs of nodes the arcs join.  Neighbours   *)
(* come by the lower of the two, accepted diagonals by their cell; each    *)
(* pair is joined by one arc, whether that is staged or still to be added. *)
(***************************************************************************)
NeighbourPairs(c) ==
    {q \in Site \X Site : Neighbours(q[1], q[2]) /\ Least(q[1], q[2]) < c}

AcceptedPairs == {q \in Site \X Site : {q[1], q[2]} \in accepted}

LatticePairs == NeighbourPairs(Size64) \cup AcceptedPairs

Crossing(c) ==
    \A i, j \in Site :
        /\ {i, j} \in accepted =>
                Diagonal(i, j) /\ params.rate > 0 /\ CellOf(i, j) < c
        /\ Diagonal(i, j) /\ params.rate = Whole /\ CellOf(i, j) < c =>
                {i, j} \in accepted

Listed ==
    /\ pass \in {"validate", "place", "backbone"} => accepted = {}
    /\ pass = "backbone" => Lists(staged \o todo, NeighbourPairs(cell))
    /\ pass = "diagonals" => Lists(staged \o todo, LatticePairs) /\ Crossing(cell)
    /\ pass = "done" =>
        /\ Crossing((params.width - 1) * (params.height - 1))
        /\ \A i, j \in Site :
            Cardinality(SlotsBetween(graph, i, j)) =
                IF <<i, j>> \in LatticePairs THEN 1 ELSE 0

\* The pairs of a node and the neighbours after it.
RightPairs(c) ==
    IF ColumnOfSite(c) + 1 < params.width THEN Both(c, c + 1) ELSE {}

DownPairs(c) ==
    IF RowOfSite(c) + 1 < params.height THEN Both(c, c + params.width) ELSE {}

LEMMA NeighboursFrom ==
    ASSUME params \in Params, Usable(params), NEW c \in Site,
           NEW i \in Site, NEW j \in Site, i < j
    PROVE  /\ Neighbours(i, j) /\ i = c <=>
                    <<i, j>> \in RightPairs(c) \cup DownPairs(c)
           /\ <<i, j>> \in RightPairs(c) \cup DownPairs(c) <=>
                    <<j, i>> \in RightPairs(c) \cup DownPairs(c)
           /\ <<i, i>> \notin RightPairs(c) \cup DownPairs(c)
<1>1. params.width \in Nat \ {0} /\ i \in Int /\ j \in Int /\ c \in Int
  BY PlaceOfSite DEF Site
<1>2. \A d \in Int : c < d =>
        /\ <<i, j>> \in Both(c, d) <=> i = c /\ j = d
        /\ <<j, i>> \in Both(c, d) <=> i = c /\ j = d
        /\ <<i, i>> \notin Both(c, d)
  BY <1>1 DEF Both
<1>3. c < c + 1 /\ c < c + params.width /\ c + 1 \in Int /\ c + params.width \in Int
  BY <1>1
<1>4. /\ <<i, j>> \in RightPairs(c) <=>
                ColumnOfSite(c) + 1 < params.width /\ i = c /\ j = c + 1
      /\ <<j, i>> \in RightPairs(c) <=>
                ColumnOfSite(c) + 1 < params.width /\ i = c /\ j = c + 1
      /\ <<i, i>> \notin RightPairs(c)
  BY <1>2, <1>3 DEF RightPairs
<1>5. /\ <<i, j>> \in DownPairs(c) <=>
                RowOfSite(c) + 1 < params.height /\ i = c /\ j = c + params.width
      /\ <<j, i>> \in DownPairs(c) <=>
                RowOfSite(c) + 1 < params.height /\ i = c /\ j = c + params.width
      /\ <<i, i>> \notin DownPairs(c)
  BY <1>2, <1>3 DEF DownPairs
<1>6. Neighbours(i, j) <=>
          \/ ColumnOfSite(i) + 1 < params.width /\ j = i + 1
          \/ RowOfSite(i) + 1 < params.height /\ j = i + params.width
  BY NeighboursAfter
<1>7. QED
  BY <1>4, <1>5, <1>6

LEMMA PairsOfNode ==
    ASSUME params \in Params, Usable(params), NEW c \in Site
    PROVE  /\ NeighbourPairs(c + 1) =
                    NeighbourPairs(c) \cup (RightPairs(c) \cup DownPairs(c))
           /\ NeighbourPairs(c) \cap (RightPairs(c) \cup DownPairs(c)) = {}
           /\ RightPairs(c) \cap DownPairs(c) = {}
<1> DEFINE N == RightPairs(c) \cup DownPairs(c)
<1>1. c \in Int
  BY DEF Site
<1>2. ASSUME NEW i \in Site, NEW j \in Site
      PROVE  /\ Neighbours(i, j) /\ Least(i, j) = c <=> <<i, j>> \in N
             /\ Least(i, j) \in Int
  <2>1. i \in Int /\ j \in Int
    BY DEF Site
  <2>2. CASE i < j
    <3>1. Least(i, j) = i
      BY <2>2 DEF Least
    <3>2. Neighbours(i, j) /\ i = c <=> <<i, j>> \in N
      BY <2>2, NeighboursFrom
    <3> HIDE DEF N
    <3>3. QED
      BY <2>1, <3>1, <3>2
  <2>3. CASE j < i
    <3>1. Least(i, j) = j
      BY <2>1, <2>3 DEF Least
    <3>2. Neighbours(j, i) /\ j = c <=> <<i, j>> \in N
      BY <2>3, NeighboursFrom
    <3>3. Neighbours(i, j) <=> Neighbours(j, i)
      BY Symmetry
    <3>4. QED
      BY <2>1, <3>1, <3>2, <3>3
  <2>4. CASE i = j
    <3>1. ~Neighbours(i, j)
      BY <2>4, Symmetry
    <3>2. <<i, j>> \notin N
      <4>1. params.width \in Nat \ {0}
        BY PlaceOfSite
      <4>2. c # c + 1 /\ c # c + params.width
        BY <1>1, <4>1
      <4>3. <<i, j>> \notin Both(c, c + 1)
        BY <2>4, <4>2 DEF Both
      <4>4. <<i, j>> \notin Both(c, c + params.width)
        BY <2>4, <4>2 DEF Both
      <4>5. QED
        BY <4>3, <4>4 DEF RightPairs, DownPairs
    <3>3. QED
      BY <2>1, <2>4, <3>1, <3>2 DEF Least
  <2>5. QED
    BY <2>1, <2>2, <2>3, <2>4
<1>3. N \subseteq Site \X Site
  <2> DEFINE w == params.width
             r == RowOfSite(c)
             y == ColumnOfSite(c)
  <2>1. /\ r \in 0 .. params.height - 1 /\ y \in 0 .. w - 1 /\ c = r * w + y
        /\ w \in Nat \ {0} /\ params.height \in Nat \ {0} /\ r \in Nat
        /\ y \in Nat
    BY PlaceOfSite
  <2> HIDE DEF w, r, y
  <2>2. r * w \in Nat /\ (r + 1) * w = r * w + w
    BY <2>1
  <2>3. ASSUME y + 1 < w PROVE c + 1 \in Site
    <3>1. y + 1 \in 0 .. w - 1
      BY <2>1, <2>3
    <3>2. c + 1 = r * w + (y + 1)
      BY <2>1, <2>2
    <3>3. QED
      BY <2>1, <3>1, <3>2, SiteOfPlace DEF w
  <2>4. ASSUME r + 1 < params.height PROVE c + w \in Site
    <3>1. r + 1 \in 0 .. params.height - 1
      BY <2>1, <2>4
    <3>2. c + w = (r + 1) * w + y
      BY <2>1, <2>2
    <3>3. QED
      BY <2>1, <3>1, <3>2, SiteOfPlace DEF w
  <2>5. RightPairs(c) \subseteq Site \X Site
    BY <2>3 DEF RightPairs, Both, w, y
  <2>6. DownPairs(c) \subseteq Site \X Site
    BY <2>4 DEF DownPairs, Both, w, r
  <2>7. QED
    BY <2>5, <2>6
<1> HIDE DEF N
<1>4. ASSUME NEW q \in Site \X Site
      PROVE  /\ q \in N <=> Neighbours(q[1], q[2]) /\ Least(q[1], q[2]) = c
             /\ Least(q[1], q[2]) \in Int
  BY <1>2
<1>5. NeighbourPairs(c + 1) = NeighbourPairs(c) \cup N
  <2>1. ASSUME NEW q \in Site \X Site
        PROVE  q \in NeighbourPairs(c + 1) <=> q \in NeighbourPairs(c) \/ q \in N
    <3> DEFINE l == Least(q[1], q[2])
    <3>1. l \in Int /\ (q \in N <=> Neighbours(q[1], q[2]) /\ l = c)
      BY <1>4
    <3>2. \A d : q \in NeighbourPairs(d) <=> Neighbours(q[1], q[2]) /\ l < d
      BY DEF NeighbourPairs
    <3> HIDE DEF l
    <3>3. l < c + 1 <=> l < c \/ l = c
      BY <1>1, <3>1
    <3>4. QED
      BY <3>1, <3>2, <3>3
  <2>2. \A d : NeighbourPairs(d) \subseteq Site \X Site
    BY DEF NeighbourPairs
  <2>3. QED
    BY <1>3, <2>1, <2>2
<1>6. NeighbourPairs(c) \cap N = {}
  <2>1. ASSUME NEW q \in NeighbourPairs(c) PROVE q \notin N
    <3>1. q \in Site \X Site /\ Least(q[1], q[2]) < c
      BY DEF NeighbourPairs
    <3>2. QED
      BY <1>1, <1>4, <3>1
  <2>2. QED
    BY <2>1
<1>7. RightPairs(c) \cap DownPairs(c) = {}
  <2>1. ASSUME ColumnOfSite(c) + 1 < params.width
        PROVE  Both(c, c + 1) \cap Both(c, c + params.width) = {}
    <3>1. params.width \in Nat /\ ColumnOfSite(c) \in Nat
      BY PlaceOfSite
    <3>2. c + 1 # c + params.width /\ c # c + 1 /\ c # c + params.width
      BY <1>1, <2>1, <3>1
    <3>3. QED
      BY <3>2 DEF Both
  <2>2. QED
    BY <2>1 DEF RightPairs, DownPairs
<1>8. QED
  BY <1>5, <1>6, <1>7 DEF N

\* The pairs that a cell of the third pass may join.
LEMMA PairsOfCell ==
    ASSUME params \in Params, Usable(params), pass = "diagonals",
           cell \in Nat, CellsLeft, NEW i \in Site, NEW j \in Site,
           NEW a, a = Index(Row, Column)
    PROVE  Diagonal(i, j) /\ CellOf(i, j) = cell <=>
              \/ <<i, j>> \in Both(a, a + params.width + 1)
              \/ <<i, j>> \in Both(a + 1, a + params.width)
<1>1. a \in Nat /\ params.width \in Nat /\ params.width >= 2
  BY CornerFacts, GridFacts
<1>2. i \in Int /\ j \in Int
  BY DEF Site
<1>3. /\ Diagonal(i, j) <=> Diagonal(j, i)
      /\ CellOf(i, j) = CellOf(j, i) /\ ~Diagonal(i, i)
  BY Symmetry
<1>4. CASE i < j
  <2>1. Diagonal(i, j) /\ CellOf(i, j) = cell <=>
              \/ i = a /\ j = a + params.width + 1
              \/ i = a + 1 /\ j = a + params.width
    BY <1>4, CornersOfCell
  <2>2. QED
    BY <1>1, <1>2, <1>4, <2>1 DEF Both
<1>5. CASE j < i
  <2>1. Diagonal(j, i) /\ CellOf(j, i) = cell <=>
              \/ j = a /\ i = a + params.width + 1
              \/ j = a + 1 /\ i = a + params.width
    BY <1>5, CornersOfCell
  <2>2. QED
    BY <1>1, <1>2, <1>3, <1>5, <2>1 DEF Both
<1>6. CASE i = j
  BY <1>1, <1>2, <1>3, <1>6 DEF Both
<1>7. QED
  BY <1>2, <1>4, <1>5, <1>6

-----------------------------------------------------------------------------
(***************************************************************************)
(* Each step keeps the list of pairs.                                      *)
(***************************************************************************)
\* What depends on the parameters alone.
LEMMA SameGrid ==
    ASSUME UNCHANGED params
    PROVE  /\ Site' = Site /\ Size64' = Size64
           /\ \A c : NeighbourPairs(c)' = NeighbourPairs(c)
           /\ \A i, j : /\ Diagonal(i, j)' = Diagonal(i, j)
                        /\ CellOf(i, j)' = CellOf(i, j)
<1>1. Site' = Site /\ Size64' = Size64
  BY DEF Site, Size64
<1>2. \A i, j : /\ Diagonal(i, j)' = Diagonal(i, j)
                /\ CellOf(i, j)' = CellOf(i, j)
                /\ Neighbours(i, j)' = Neighbours(i, j)
  BY DEF Diagonal, Neighbours, CellOf, RowOfSite, ColumnOfSite
<1>3. \A c : NeighbourPairs(c)' = NeighbourPairs(c)
  BY <1>1, <1>2 DEF NeighbourPairs
<1>4. QED
  BY <1>1, <1>2, <1>3

\* An arc that moves from what is to be added to what is added.
LEMMA MoveOne ==
    ASSUME NEW A, NEW s \in Seq(A), NEW t \in Seq(A), t # <<>>
    PROVE  Append(s, Head(t)) \o Tail(t) = s \o t
<1> DEFINE m == Len(s)
           n == Len(t)
           u == Append(s, Head(t))
           v == Tail(t)
<1>1. /\ m \in Nat /\ n \in Nat /\ n > 0
      /\ u \in Seq(A) /\ Len(u) = m + 1
      /\ \A i \in 1 .. m : u[i] = s[i]
      /\ u[m + 1] = t[1]
      /\ v \in Seq(A) /\ Len(v) = n - 1
      /\ \A i \in 1 .. n - 1 : v[i] = t[i + 1]
  BY LenProperties, AppendProperties, HeadTailProperties, EmptySeq
<1>2. /\ u \o v \in Seq(A) /\ s \o t \in Seq(A)
      /\ Len(u \o v) = m + n /\ Len(s \o t) = m + n
      /\ \A i \in 1 .. m + n :
            /\ (u \o v)[i] = IF i <= m + 1 THEN u[i] ELSE v[i - (m + 1)]
            /\ (s \o t)[i] = IF i <= m THEN s[i] ELSE t[i - m]
  BY <1>1, ConcatProperties
<1> HIDE DEF m, n, u, v
<1>3. ASSUME NEW i \in 1 .. m + n PROVE (u \o v)[i] = (s \o t)[i]
  <2>1. CASE i <= m
    BY <1>1, <1>2, <2>1
  <2>2. CASE i = m + 1
    <3>1. i - m = 1 /\ ~(i <= m)
      BY <1>1, <2>2
    <3>2. QED
      BY <1>1, <1>2, <2>2, <3>1
  <2>3. CASE i > m + 1
    <3>1. /\ i - (m + 1) \in 1 .. n - 1 /\ (i - (m + 1)) + 1 = i - m
          /\ ~(i <= m) /\ ~(i <= m + 1)
      BY <1>1, <2>3
    <3>2. QED
      BY <1>1, <1>2, <3>1
  <2>4. i <= m \/ i = m + 1 \/ i > m + 1
    <3>1. i \in Int /\ m \in Int
      BY <1>1
    <3>2. QED
      BY <3>1
  <2>5. QED
    BY <2>1, <2>2, <2>3, <2>4
<1>4. u \o v = s \o t
  BY <1>2, <1>3, SeqEqual
<1>5. QED
  BY <1>4 DEF u, v

LEMMA InitListed == LatticeInit => Listed
  BY DEF LatticeInit, Listed

LEMMA AfterListed ==
    ASSUME LatticeInv, Listed,
           After("place", "backbone") \/ After("backbone", "diagonals")
    PROVE  Listed'
<1>1. /\ ~CellsLeft /\ todo = <<>> /\ cell' = 0
      /\ UNCHANGED <<vars, params, sites, todo, drawn, accepted, failure>>
      /\ \/ pass = "place" /\ pass' = "backbone"
         \/ pass = "backbone" /\ pass' = "diagonals"
  BY DEF After
<1>2. accepted = {} /\ accepted' = {}
  BY <1>1 DEF Listed
<1>3. Working /\ params \in Params /\ Usable(params)
  BY <1>1 DEF LatticeInv, Typed, Building, Working
<1>4. staged' = staged /\ todo' = <<>>
  BY <1>1 DEF vars
<1>5. \A i, j \in Site : Least(i, j) \in Nat /\ Least(i, j) < Size64
  BY <1>3, GridFacts DEF Least, Site
<1>6. CASE pass = "place"
  <2>1. staged = <<>>
    BY <1>6 DEF LatticeInv, InTurn
  <2>2. staged' \o todo' = <<>>
    BY <1>4, <2>1
  <2>3. NeighbourPairs(cell)' = {}
    <3>1. NeighbourPairs(0) = {}
      BY <1>5 DEF NeighbourPairs
    <3>2. NeighbourPairs(cell)' = NeighbourPairs(0)
      BY <1>1 DEF NeighbourPairs, Neighbours, Site, Size64, RowOfSite,
                  ColumnOfSite
    <3>3. QED
      BY <3>1, <3>2
  <2>4. Lists(staged \o todo, NeighbourPairs(cell))'
    BY <2>2, <2>3, ListsNothing
  <2>5. QED
    BY <1>1, <1>2, <1>6, <2>4 DEF Listed
<1>7. CASE pass = "backbone"
  <2>1. cell = Size64
    <3>1. cell \in 0 .. Size64 /\ Size64 \in Nat
      BY <1>3, <1>7, GridFacts DEF LatticeInv, InTurn
    <3>2. Rows = params.height /\ Columns = params.width
      BY <1>7 DEF Rows, Columns
    <3>3. params.height * params.width = Size64
      BY <1>3, GridFacts DEF Size64
    <3>4. ~(cell < Size64)
      BY <1>1, <3>2, <3>3 DEF CellsLeft
    <3>5. QED
      BY <3>1, <3>4
  <2>2. Lists(staged \o todo, NeighbourPairs(Size64))
    BY <1>7, <2>1 DEF Listed
  <2>3. LatticePairs' = NeighbourPairs(Size64)
    <3>1. AcceptedPairs' = {}
      BY <1>2 DEF AcceptedPairs
    <3>2. NeighbourPairs(Size64)' = NeighbourPairs(Size64)
      BY <1>1 DEF NeighbourPairs, Neighbours, Site, Size64, RowOfSite,
                  ColumnOfSite
    <3>3. QED
      BY <3>1, <3>2 DEF LatticePairs
  <2>4. staged' \o todo' = staged \o todo
    BY <1>1, <1>4
  <2>5. Lists(staged \o todo, LatticePairs)'
    BY <2>2, <2>3, <2>4
  <2>6. Crossing(cell)'
    <3>1. ASSUME NEW i \in Site, NEW j \in Site, Diagonal(i, j)
          PROVE  ~(CellOf(i, j) < 0)
      <4>1. CellOf(i, j) \in 0 .. (params.width - 1) * (params.height - 1) - 1
        BY <1>3, <3>1, CellOfDiagonal
      <4>2. QED
        BY <4>1
    <3>2. /\ Site' = Site
          /\ \A i, j : /\ Diagonal(i, j)' = Diagonal(i, j)
                       /\ CellOf(i, j)' = CellOf(i, j)
      BY <1>1, SameGrid
    <3>3. QED
      BY <1>1, <1>2, <3>1, <3>2 DEF Crossing
  <2>7. QED
    BY <1>1, <1>2, <1>7, <2>5, <2>6 DEF Listed
<1>8. QED
  BY <1>1, <1>6, <1>7

LEMMA BackboneListed ==
    ASSUME LatticeInv, Listed, Backbone PROVE Listed'
<1> DEFINE w == params.width
           right == IF Column + 1 < w THEN Connect(cell, cell + 1) ELSE <<>>
           down == IF Row + 1 < params.height THEN Connect(cell, cell + w)
                   ELSE <<>>
<1>1. /\ pass = "backbone" /\ CellsLeft /\ Working /\ todo = <<>>
      /\ params \in Params /\ Usable(params) /\ cell \in Nat
      /\ sites \in [Site -> Coord] /\ staged \in Seq(LatticeArc)
  BY LatticeAssumption DEF Backbone, Working, LatticeInv, Typed, Building, Word
<1>2. /\ cell \in Site /\ Index(Row, Column) = cell
      /\ Row = RowOfSite(cell) /\ Column = ColumnOfSite(cell)
      /\ Column + 1 < w => cell + 1 \in Site
      /\ Row + 1 < params.height => cell + w \in Site
  BY <1>1, SiteFacts DEF Site
<1>3. /\ todo' = right \o down /\ cell' = cell + 1
      /\ UNCHANGED <<vars, params, pass, sites, drawn, accepted, failure>>
  BY <1>2 DEF Backbone
<1>4. w \in Nat \ {0}
  BY <1>1, GridFacts
<1>5. /\ right \in Seq(LatticeArc) /\ Lists(right, RightPairs(cell))
      /\ down \in Seq(LatticeArc) /\ Lists(down, DownPairs(cell))
  <2>1. cell # cell + 1 /\ cell # cell + w
    BY <1>1, <1>4
  <2>2. <<>> \in Seq(LatticeArc) /\ Lists(<<>>, {})
    BY ListsNothing
  <2>3. ASSUME Column + 1 < w
        PROVE  /\ Connect(cell, cell + 1) \in Seq(LatticeArc)
               /\ Lists(Connect(cell, cell + 1), Both(cell, cell + 1))
    BY <1>1, <1>2, <2>1, <2>3, ConnectType, ListsConnect
  <2>4. ASSUME Row + 1 < params.height
        PROVE  /\ Connect(cell, cell + w) \in Seq(LatticeArc)
               /\ Lists(Connect(cell, cell + w), Both(cell, cell + w))
    BY <1>1, <1>2, <2>1, <2>4, ConnectType, ListsConnect
  <2>5. right \in Seq(LatticeArc) /\ Lists(right, RightPairs(cell))
    BY <1>2, <2>2, <2>3 DEF RightPairs
  <2>6. down \in Seq(LatticeArc) /\ Lists(down, DownPairs(cell))
    BY <1>2, <2>2, <2>4 DEF DownPairs
  <2>7. QED
    BY <2>5, <2>6
<1> HIDE DEF w, right, down
<1>6. /\ NeighbourPairs(cell + 1) =
            NeighbourPairs(cell) \cup (RightPairs(cell) \cup DownPairs(cell))
      /\ NeighbourPairs(cell) \cap (RightPairs(cell) \cup DownPairs(cell)) = {}
      /\ RightPairs(cell) \cap DownPairs(cell) = {}
  BY <1>1, <1>2, PairsOfNode
<1>7. /\ right \o down \in Seq(LatticeArc)
      /\ Lists(right \o down, RightPairs(cell) \cup DownPairs(cell))
  BY <1>5, <1>6, ListsConcat, ConcatProperties
<1>8. Lists(staged, NeighbourPairs(cell))
  <2>1. staged \o <<>> = staged
    BY <1>1
  <2>2. QED
    BY <1>1, <2>1 DEF Listed
<1>9. Lists(staged \o (right \o down), NeighbourPairs(cell + 1))
  <2> DEFINE new == RightPairs(cell) \cup DownPairs(cell)
             added == right \o down
  <2>1. /\ added \in Seq(LatticeArc) /\ Lists(added, new)
        /\ NeighbourPairs(cell) \cap new = {}
        /\ NeighbourPairs(cell + 1) = NeighbourPairs(cell) \cup new
    BY <1>6, <1>7
  <2> HIDE DEF new, added
  <2>2. Lists(staged \o added, NeighbourPairs(cell) \cup new)
    BY <1>1, <1>8, <2>1, ListsConcat
  <2>3. QED
    BY <2>1, <2>2 DEF added
<1>10. NeighbourPairs(cell)' = NeighbourPairs(cell + 1)
  BY <1>3 DEF NeighbourPairs, Neighbours, Site, Size64, RowOfSite, ColumnOfSite
<1>11. staged' = staged
  BY <1>3 DEF vars
<1>12. Lists(staged \o todo, NeighbourPairs(cell))'
  BY <1>3, <1>9, <1>10, <1>11
<1>13. QED
  BY <1>1, <1>3, <1>12 DEF Listed

LEMMA DiagonalsListed ==
    ASSUME LatticeInv, Listed, NEW unit1 \in Units, NEW unit2 \in Units,
           Diagonals(unit1, unit2)
    PROVE  Listed'
<1> DEFINE w == params.width
           a == Index(Row, Column)
           taken1 == unit1 < params.rate
           taken2 == unit2 < params.rate
           first == IF taken1 THEN Connect(a, a + w + 1) ELSE <<>>
           second == IF taken2 THEN Connect(a + 1, a + w) ELSE <<>>
           pairs1 == IF taken1 THEN Both(a, a + w + 1) ELSE {}
           pairs2 == IF taken2 THEN Both(a + 1, a + w) ELSE {}
<1>1. /\ pass = "diagonals" /\ CellsLeft /\ Working /\ todo = <<>>
      /\ params \in Params /\ Usable(params) /\ cell \in Nat
      /\ sites \in [Site -> Coord] /\ staged \in Seq(LatticeArc)
  BY LatticeAssumption DEF Diagonals, Working, LatticeInv, Typed, Building, Word
<1>2. /\ a \in Nat /\ w \in Nat /\ w >= 2
      /\ a \in Site /\ a + w + 1 \in Site /\ a + 1 \in Site /\ a + w \in Site
  <2>1. a \in Nat /\ a + w + 1 \in 0 .. Size64 - 1 /\ Column \in 0 .. w - 2
    BY <1>1, CornerFacts
  <2>2. w \in 1 .. MaxNodes /\ MaxNodes \in Nat /\ Size64 \in 1 .. MaxNodes
    BY <1>1, GridFacts
  <2> HIDE DEF a, w
  <2>3. QED
    BY <2>1, <2>2 DEF Site
<1>3. /\ todo' = first \o second /\ cell' = cell + 1
      /\ accepted' = accepted \cup (IF taken1 THEN {{a, a + w + 1}} ELSE {})
                              \cup (IF taken2 THEN {{a + 1, a + w}} ELSE {})
      /\ UNCHANGED <<vars, params, pass, sites, failure>>
  <2>1. \A s : {s} # {}
    OBVIOUS
  <2>2. QED
    BY <2>1 DEF Diagonals, Offered
<1>4. /\ params.rate \in Int
      /\ taken1 \/ taken2 => params.rate > 0
      /\ params.rate = Whole => taken1 /\ taken2
  <2>1. unit1 \in 0 .. Whole - 1 /\ unit2 \in 0 .. Whole - 1 /\ Whole \in Nat
    BY LatticeAssumption
  <2>2. params.rate \in Int
    BY <1>1, LatticeAssumption DEF Usable
  <2>3. QED
    BY <2>1, <2>2
<1>5. \A i, j \in Site : Diagonal(i, j) /\ CellOf(i, j) = cell <=>
                            \/ <<i, j>> \in Both(a, a + w + 1)
                            \/ <<i, j>> \in Both(a + 1, a + w)
  BY <1>1, PairsOfCell
<1>6. \A i, j : /\ {i, j} = {a, a + w + 1} <=> <<i, j>> \in Both(a, a + w + 1)
                /\ {i, j} = {a + 1, a + w} <=> <<i, j>> \in Both(a + 1, a + w)
  BY DEF Both
<1> HIDE DEF a, w, taken1, taken2
<1>7. a # a + w + 1 /\ a + 1 # a + w /\ a # a + 1 /\ a # a + w
  BY <1>2
<1>8. /\ first \in Seq(LatticeArc) /\ Lists(first, pairs1)
      /\ second \in Seq(LatticeArc) /\ Lists(second, pairs2)
  <2>1. <<>> \in Seq(LatticeArc) /\ Lists(<<>>, {})
    BY ListsNothing
  <2>2. /\ Connect(a, a + w + 1) \in Seq(LatticeArc)
        /\ Lists(Connect(a, a + w + 1), Both(a, a + w + 1))
    BY <1>1, <1>2, <1>7, ConnectType, ListsConnect
  <2>3. /\ Connect(a + 1, a + w) \in Seq(LatticeArc)
        /\ Lists(Connect(a + 1, a + w), Both(a + 1, a + w))
    BY <1>1, <1>2, <1>7, ConnectType, ListsConnect
  <2>4. QED
    BY <2>1, <2>2, <2>3
<1>9. pairs1 \cap pairs2 = {}
  BY <1>7 DEF Both
<1>10. \A i, j : {i, j} \in accepted' <=>
                    {i, j} \in accepted \/ <<i, j>> \in pairs1 \cup pairs2
  BY <1>3, <1>6
<1>11. /\ pairs1 \cup pairs2 \subseteq Site \X Site
       /\ \A q \in Site \X Site : q \in pairs1 \cup pairs2 =>
            /\ Diagonal(q[1], q[2]) /\ CellOf(q[1], q[2]) = cell
            /\ params.rate > 0
  <2>1. pairs1 \cup pairs2 \subseteq Site \X Site
    BY <1>2 DEF Both
  <2>2. ASSUME NEW i \in Site, NEW j \in Site, <<i, j>> \in pairs1 \cup pairs2
        PROVE  /\ Diagonal(i, j) /\ CellOf(i, j) = cell
               /\ params.rate > 0
    BY <1>4, <1>5, <2>2
  <2>3. QED
    BY <2>1, <2>2
<1>12. \A i, j \in Site :
          Diagonal(i, j) /\ CellOf(i, j) = cell /\ params.rate = Whole =>
            <<i, j>> \in pairs1 \cup pairs2
  BY <1>4, <1>5
<1> HIDE DEF first, second, pairs1, pairs2
<1> DEFINE new == pairs1 \cup pairs2
           added == first \o second
<1>13. added \in Seq(LatticeArc) /\ Lists(added, new)
  BY <1>8, <1>9, ListsConcat, ConcatProperties
<1>14. /\ new \subseteq Site \X Site
       /\ \A i, j : {i, j} \in accepted' <=> {i, j} \in accepted \/ <<i, j>> \in new
       /\ \A q \in Site \X Site : q \in new =>
            /\ Diagonal(q[1], q[2]) /\ CellOf(q[1], q[2]) = cell
            /\ params.rate > 0
       /\ \A i, j \in Site :
            Diagonal(i, j) /\ CellOf(i, j) = cell /\ params.rate = Whole =>
                <<i, j>> \in new
       /\ todo' = added
  BY <1>3, <1>10, <1>11, <1>12
<1> HIDE DEF new, added
<1>15. Crossing(cell) /\ Lists(staged, LatticePairs)
  <2>1. staged \o <<>> = staged
    BY <1>1
  <2>2. QED
    BY <1>1, <2>1 DEF Listed
<1>16. ASSUME NEW q \in new PROVE q \notin LatticePairs
  <2>1. /\ q \in Site \X Site /\ Diagonal(q[1], q[2])
        /\ CellOf(q[1], q[2]) = cell /\ q[1] \in Site /\ q[2] \in Site
    BY <1>14
  <2>2. ~Neighbours(q[1], q[2])
    BY <1>1, <2>1, Symmetry
  <2>3. {q[1], q[2]} \notin accepted
    <3>1. {q[1], q[2]} \in accepted => CellOf(q[1], q[2]) < cell
      BY <1>15, <2>1 DEF Crossing
    <3>2. ~(cell < cell)
      BY <1>1
    <3>3. QED
      BY <2>1, <3>1, <3>2
  <2>4. QED
    BY <2>2, <2>3 DEF LatticePairs, NeighbourPairs, AcceptedPairs
<1>17. Lists(staged \o added, LatticePairs \cup new)
  <2>1. LatticePairs \cap new = {}
    BY <1>16
  <2>2. QED
    BY <1>1, <1>13, <1>15, <2>1, ListsConcat
<1>18. /\ Site' = Site /\ Size64' = Size64
       /\ \A i, j : /\ Diagonal(i, j)' = Diagonal(i, j)
                    /\ CellOf(i, j)' = CellOf(i, j)
  BY <1>3, SameGrid
<1>19. LatticePairs' = LatticePairs \cup new
  <2>1. NeighbourPairs(Size64)' = NeighbourPairs(Size64)
    BY <1>3 DEF NeighbourPairs, Neighbours, Site, Size64, RowOfSite,
                ColumnOfSite
  <2>2. AcceptedPairs' = AcceptedPairs \cup new
    <3>1. AcceptedPairs' = {q \in Site \X Site : {q[1], q[2]} \in accepted'}
      BY <1>18 DEF AcceptedPairs
    <3>2. \A q \in Site \X Site : q = <<q[1], q[2]>>
      OBVIOUS
    <3>3. \A q \in Site \X Site :
            {q[1], q[2]} \in accepted' <=> {q[1], q[2]} \in accepted \/ q \in new
      BY <1>14, <3>2
    <3>4. QED
      BY <1>14, <3>1, <3>3 DEF AcceptedPairs
  <2>3. QED
    BY <2>1, <2>2 DEF LatticePairs
<1>20. Lists(staged \o todo, LatticePairs)'
  <2>1. staged' = staged
    BY <1>3 DEF vars
  <2>2. QED
    BY <1>14, <1>17, <1>19, <2>1
<1>21. Crossing(cell)'
  <2>1. ASSUME NEW i \in Site, NEW j \in Site, {i, j} \in accepted'
        PROVE  Diagonal(i, j) /\ params.rate > 0 /\ CellOf(i, j) < cell + 1
    <3>1. CASE {i, j} \in accepted
      <4>1. /\ Diagonal(i, j) /\ params.rate > 0 /\ CellOf(i, j) < cell
        BY <1>15, <3>1 DEF Crossing
      <4>2. CellOf(i, j) \in Int
        BY <1>1, <4>1, CellOfDiagonal
      <4>3. QED
        BY <1>1, <4>1, <4>2
    <3>2. CASE <<i, j>> \in new
      <4>1. Diagonal(i, j) /\ CellOf(i, j) = cell /\ params.rate > 0
        BY <1>14, <3>2
      <4>2. QED
        BY <1>1, <4>1
    <3>3. QED
      BY <1>14, <2>1, <3>1, <3>2
  <2>2. ASSUME NEW i \in Site, NEW j \in Site, Diagonal(i, j),
               params.rate = Whole, CellOf(i, j) < cell + 1
        PROVE  {i, j} \in accepted'
    <3>1. CellOf(i, j) \in Int
      BY <1>1, <2>2, CellOfDiagonal
    <3>2. CASE CellOf(i, j) < cell
      <4>1. {i, j} \in accepted
        BY <1>15, <2>2, <3>2 DEF Crossing
      <4>2. QED
        BY <1>14, <4>1
    <3>3. CASE CellOf(i, j) = cell
      BY <1>14, <2>2, <3>3
    <3>4. QED
      BY <1>1, <2>2, <3>1, <3>2, <3>3
  <2>3. params' = params /\ cell' = cell + 1
    BY <1>3
  <2>4. QED
    BY <1>18, <2>1, <2>2, <2>3 DEF Crossing
<1>22. QED
  BY <1>1, <1>3, <1>20, <1>21 DEF Listed

LEMMA AddNextListed ==
    ASSUME LatticeInv, Listed, AddNext PROVE Listed'
<1> DEFINE next == Head(todo)
           weight == Argument(next.weight)
           error == AddArcError(next.source, next.target, weight)
<1>1. /\ pass \in {"backbone", "diagonals"} /\ todo # <<>> /\ Working
      /\ AddArc(next.source, next.target, weight)
      /\ \/ reply'.error # "none" /\ Throw(reply'.error)
         \/ /\ reply'.error = "none"
            /\ todo' = Tail(todo)
            /\ UNCHANGED <<params, pass, cell, sites, drawn, accepted, failure>>
  BY DEF AddNext, Working
<1>2. staged \in Seq(LatticeArc) /\ todo \in Seq(LatticeArc)
  BY <1>1 DEF LatticeInv, Building
<1>3. next \in LatticeArc
  BY <1>1, <1>2, HeadTailProperties
<1>4. /\ next = [source |-> next.source, target |-> next.target,
                 weight |-> next.weight]
      /\ next.weight \in Cost
  BY <1>3 DEF LatticeArc
<1> HIDE DEF next, weight
<1>5. CASE reply'.error # "none"
  <2>1. Throw(reply'.error)
    BY <1>1, <1>5
  <2>2. pass' = "failed"
    BY <2>1 DEF Throw
  <2>3. QED
    BY <2>2 DEF Listed
<1>6. CASE reply'.error = "none"
  <2>1. error = "none"
    <3>1. ASSUME error # "none" PROVE reply'.error = error
      <4>1. Throws("add_arc", error)
        BY <1>1, <3>1 DEF AddArc
      <4>2. QED
        BY <4>1 DEF Throws, Answer
    <3>2. QED
      BY <1>6, <3>1
  <2>2. weight = next.weight
    <3>1. weight # NonFinite
      BY <2>1 DEF AddArcError
    <3>2. QED
      BY <3>1 DEF weight, Argument
  <2>3. staged' = Append(staged, next)
    <3>1. staged' = Append(staged, [source |-> next.source,
                                    target |-> next.target,
                                    weight |-> weight])
      BY <1>1, <2>1 DEF AddArc
    <3>2. QED
      BY <1>4, <2>2, <3>1
  <2>4. staged' \o todo' = staged \o todo
    BY <1>1, <1>2, <1>6, <2>3, MoveOne DEF next
  <2>5. UNCHANGED <<params, pass, cell, accepted>>
    BY <1>1, <1>6
  <2>6. /\ NeighbourPairs(cell)' = NeighbourPairs(cell)
        /\ LatticePairs' = LatticePairs
        /\ Crossing(cell)' <=> Crossing(cell)
    BY <2>5 DEF NeighbourPairs, LatticePairs, AcceptedPairs, Neighbours, Site,
                Size64, RowOfSite, ColumnOfSite, Crossing, Diagonal, CellOf
  <2>7. QED
    BY <1>1, <2>4, <2>5, <2>6 DEF Listed
<1>7. QED
  BY <1>5, <1>6

LEMMA FinishListed ==
    ASSUME LatticeInv, Listed, Finish PROVE Listed'
<1>1. /\ pass = "diagonals" /\ ~CellsLeft /\ todo = <<>> /\ Build /\ Working
      /\ \/ reply'.error # "none" /\ Throw(reply'.error)
         \/ /\ reply'.error = "none"
            /\ IF graph'.metric.passes
               THEN pass' = "done" /\ UNCHANGED failure
               ELSE pass' = "failed" /\ failure' = "internal"
            /\ UNCHANGED <<params, cell, sites, todo, drawn, accepted>>
  BY DEF Finish, Working
<1>2. CASE pass' # "done"
  <2>1. pass' = "failed"
    BY <1>1, <1>2 DEF Throw
  <2>2. QED
    BY <2>1 DEF Listed
<1>3. CASE pass' = "done"
  <2>1. UNCHANGED <<params, cell, accepted>>
    BY <1>1, <1>3 DEF Throw
  <2>2. BuildError = "none" /\ Usable(params) /\ params \in Params
    BY <1>1, AllIsSet DEF LatticeInv, Typed, Building
  <2>3. PICK n \in 0 .. MaxNodes, p \in Orders(staged) :
          /\ coordinates \in [0 .. n - 1 -> Coord]
          /\ external_ids \in [0 .. n - 1 -> ExternalId]
          /\ staged \in Seq(StagedArc(n)) /\ Len(staged) <= MaxArcs
          /\ SortedBy(p, staged)
          /\ BuiltFrom(graph', n, staged, Reordered(staged, p))
    BY <1>1, <2>2, BuildMakes DEF LatticeInv
  <2>4. Size = Size64 /\ Size64 \in 1 .. MaxNodes /\ MaxNodes \in Nat
    BY <1>1, SizeOfLattice
  <2>5. n = Size64 /\ Site = 0 .. n - 1
    BY <2>3, <2>4, SizeFact DEF Site
  <2>6. IsCsr(graph')
    BY <2>3, BuiltIsCsr
  <2>7. Lists(staged, LatticePairs) /\ Crossing(cell)
    <3>1. staged \o <<>> = staged
      BY <2>3
    <3>2. QED
      BY <1>1, <3>1 DEF Listed
  <2>8. ASSUME NEW i \in Site, NEW j \in Site
        PROVE  Cardinality(SlotsBetween(graph', i, j)) =
                    IF <<i, j>> \in LatticePairs THEN 1 ELSE 0
    BY <2>3, <2>5, <2>6, <2>7, BuiltLists
  <2>9. cell = (params.width - 1) * (params.height - 1)
    <3>1. cell \in 0 .. (params.width - 1) * (params.height - 1)
      BY <1>1 DEF LatticeInv, InTurn
    <3>2. Rows = params.height - 1 /\ Columns = params.width - 1
      BY <1>1 DEF Rows, Columns
    <3>3. params.width \in Nat \ {0} /\ params.height \in Nat \ {0}
      BY <2>2, GridFacts
    <3>4. /\ Rows * Columns = (params.width - 1) * (params.height - 1)
          /\ (params.width - 1) * (params.height - 1) \in Nat
      BY <3>2, <3>3
    <3>5. ~(cell < (params.width - 1) * (params.height - 1))
      BY <1>1, <3>4 DEF CellsLeft
    <3>6. QED
      BY <3>1, <3>4, <3>5
  <2>10. /\ LatticePairs' = LatticePairs /\ Site' = Site
         /\ Crossing((params.width - 1) * (params.height - 1))'
    BY <2>1, <2>7, <2>9
       DEF NeighbourPairs, LatticePairs, AcceptedPairs, Neighbours, Site,
           Size64, RowOfSite, ColumnOfSite, Crossing, Diagonal, CellOf
  <2>11. \A i, j \in Site : SlotsBetween(graph', i, j) = SlotsBetween(graph, i, j)'
    BY DEF SlotsBetween, ArcsFrom
  <2>12. QED
    BY <1>3, <2>8, <2>10, <2>11 DEF Listed
<1>4. QED
  BY <1>2, <1>3

LEMMA NextListed == LatticeInv /\ Listed /\ [LatticeNext]_allVars => Listed'
<1>1. SUFFICES ASSUME LatticeInv, Listed, [LatticeNext]_allVars PROVE Listed'
  OBVIOUS
<1>2. CASE Reject \/ Start
  BY <1>1, <1>2 DEF Reject, Start, Throw, Listed
<1>3. CASE \E x, y \in Units : Place(x, y)
  <2>1. PICK x \in Units, y \in Units : Place(x, y)
    BY <1>3
  <2>2. /\ pass = "place" /\ accepted' = accepted
        /\ pass' = "failed" \/ pass' = pass
    BY <2>1 DEF Place
  <2>3. QED
    BY <1>1, <2>2 DEF Listed
<1>4. CASE \E x, y \in Units : Diagonals(x, y)
  BY <1>1, <1>4, DiagonalsListed
<1>5. CASE After("place", "backbone") \/ After("backbone", "diagonals")
  BY <1>1, <1>5, AfterListed
<1>6. CASE Backbone \/ AddNext \/ Finish
  BY <1>1, <1>6, BackboneListed, AddNextListed, FinishListed
<1>7. CASE UNCHANGED allVars
  <2>1. /\ UNCHANGED <<staged, graph>>
        /\ UNCHANGED <<params, pass, cell, todo, accepted>>
    BY <1>7 DEF allVars, vars, latticeVars
  <2>2. /\ NeighbourPairs(cell)' = NeighbourPairs(cell)
        /\ LatticePairs' = LatticePairs /\ Site' = Site
        /\ Crossing(cell)' <=> Crossing(cell)
        /\ Crossing((params.width - 1) * (params.height - 1))' <=>
                Crossing((params.width - 1) * (params.height - 1))
    BY <2>1 DEF NeighbourPairs, LatticePairs, AcceptedPairs, Neighbours, Site,
                Size64, RowOfSite, ColumnOfSite, Crossing, Diagonal, CellOf
  <2>3. \A i, j : SlotsBetween(graph, i, j)' = SlotsBetween(graph, i, j)
    BY <2>1 DEF SlotsBetween, ArcsFrom
  <2>4. QED
    BY <1>1, <2>1, <2>2, <2>3 DEF Listed
<1>8. QED
  BY <1>1, <1>2, <1>3, <1>4, <1>5, <1>6, <1>7 DEF LatticeNext, Returned

(***************************************************************************)
(* Between which pairs of nodes the builder has been given an arc, at every*)
(* point of generate(): the two arcs of every neighbouring pair passed so  *)
(* far and of every accepted diagonal, each once, and no other.            *)
(***************************************************************************)
THEOREM PairsInvariant == LatticeSpec => [](LatticeInv /\ Listed)
<1>1. LatticeInit => LatticeInv /\ Listed
  BY InitLattice, InitListed
<1>2. LatticeInv /\ Listed /\ [LatticeNext]_allVars => (LatticeInv /\ Listed)'
  BY NextLattice, NextListed
<1>3. QED
  BY <1>1, <1>2, PTL DEF LatticeSpec

-----------------------------------------------------------------------------
(***************************************************************************)
(* What generate() returns is the lattice.                                 *)
(***************************************************************************)
LEMMA PairsAreJoined ==
    ASSUME LatticeInv, Listed, pass = "done",
           NEW i \in Site, NEW j \in Site
    PROVE  /\ <<i, j>> \in LatticePairs <=>
                    Neighbours(i, j) \/ {i, j} \in accepted
           /\ Cardinality(SlotsBetween(graph, i, j)) =
                    IF Neighbours(i, j) \/ {i, j} \in accepted THEN 1 ELSE 0
<1>1. params \in Params /\ Usable(params)
  BY DEF LatticeInv, Typed, Delivered
<1>2. Least(i, j) < Size64
  <2>1. Size64 \in Nat /\ i \in 0 .. Size64 - 1 /\ j \in 0 .. Size64 - 1
    BY <1>1, GridFacts DEF Site
  <2>2. QED
    BY <2>1 DEF Least
<1>3. <<i, j>> \in LatticePairs <=> Neighbours(i, j) \/ {i, j} \in accepted
  BY <1>2 DEF LatticePairs, NeighbourPairs, AcceptedPairs
<1>4. Cardinality(SlotsBetween(graph, i, j)) =
            IF <<i, j>> \in LatticePairs THEN 1 ELSE 0
  BY DEF Listed
<1>5. QED
  BY <1>3, <1>4

(***************************************************************************)
(* The lattice that generator.hpp describes, however coordinates round:    *)
(* each node at a displacement of its site, both arcs between neighbours,  *)
(* both or none along a diagonal, none of them at rate 0 and all at rate 1,*)
(* no other arc and none twice.                                            *)
(***************************************************************************)
THEOREM GeneratedGraphIsTheLattice == LatticeSpec => []GraphIsTheLattice
<1>1. LatticeInv /\ Listed => GraphIsTheLattice
  <2>1. SUFFICES ASSUME LatticeInv, Listed, pass = "done"
                 PROVE  GraphIsTheLattice
    BY DEF GraphIsTheLattice
  <2>2. /\ params \in Params /\ Usable(params)
        /\ sites \in [Site -> Coord] /\ graph.coordinate = sites
        /\ graph.node_count = Size64
        /\ \A i \in Site : Near(i) /\ graph.external_id[i] = i + 1
        /\ Crossing((params.width - 1) * (params.height - 1))
    BY <2>1 DEF LatticeInv, Typed, Delivered, Listed
  <2>3. Nodes(graph) = Site
    BY <2>2 DEF Nodes, Site
  <2>4. ASSUME NEW i \in Site PROVE AtItsSite(i)
    BY <2>2 DEF AtItsSite, Near
  <2>5. ASSUME NEW i \in Site, NEW j \in Site
        PROVE  /\ ArcsBetween(i, j) =
                    IF Neighbours(i, j) \/ {i, j} \in accepted THEN 1 ELSE 0
               /\ {i, j} \in accepted => Diagonal(i, j) /\ params.rate > 0
               /\ Diagonal(i, j) /\ params.rate = Whole => {i, j} \in accepted
    <3>1. ArcsBetween(i, j) = Cardinality(SlotsBetween(graph, i, j))
      BY DEF ArcsBetween, SlotsBetween
    <3>2. ArcsBetween(i, j) =
            IF Neighbours(i, j) \/ {i, j} \in accepted THEN 1 ELSE 0
      BY <2>1, <3>1, PairsAreJoined
    <3>3. {i, j} \in accepted => Diagonal(i, j) /\ params.rate > 0
      BY <2>2 DEF Crossing
    <3>4. ASSUME Diagonal(i, j), params.rate = Whole PROVE {i, j} \in accepted
      <4> DEFINE m == (params.width - 1) * (params.height - 1)
      <4>1. m \in Int
        <5>1. params.width \in Int /\ params.height \in Int
          BY <2>2, PlaceOfSite
        <5>2. QED
          BY <5>1
      <4>2. CellOf(i, j) \in 0 .. m - 1
        BY <2>2, <3>4, CellOfDiagonal
      <4>3. Crossing(m)
        BY <2>2
      <4> HIDE DEF m
      <4>4. CellOf(i, j) < m
        BY <4>1, <4>2
      <4>5. QED
        BY <3>4, <4>3, <4>4 DEF Crossing
    <3>5. QED
      BY <3>2, <3>3, <3>4
  <2>6. QED
    BY <2>1, <2>2, <2>3, <2>4, <2>5 DEF GraphIsTheLattice
<1>2. QED
  BY PairsInvariant, <1>1, PTL

\* The neighbour before a node, to the left or in the row above.
LEMMA NeighbourBefore ==
    ASSUME params \in Params, Usable(params), NEW i \in Site, i # 0
    PROVE  \E j \in Site : j < i /\ Neighbours(i, j)
<1> DEFINE w == params.width
           r == RowOfSite(i)
           c == ColumnOfSite(i)
<1>1. /\ r \in 0 .. params.height - 1 /\ c \in 0 .. w - 1 /\ i = r * w + c
      /\ w \in Nat \ {0} /\ params.height \in Nat \ {0} /\ r \in Nat
      /\ c \in Nat
  BY PlaceOfSite
<1>2. i \in Int
  BY DEF Site
<1> HIDE DEF w, r, c
<1>3. CASE c > 0
  <2>1. c - 1 \in 0 .. w - 1 /\ r * w \in Nat
    BY <1>1, <1>3
  <2>2. i - 1 = r * w + (c - 1) /\ i - 1 < i
    BY <1>1, <1>2, <2>1
  <2>3. i - 1 \in Site /\ RowOfSite(i - 1) = r /\ ColumnOfSite(i - 1) = c - 1
    BY <1>1, <2>1, <2>2, SiteOfPlace DEF w
  <2>4. Distance(r, r) + Distance(c, c - 1) = 1
    BY <1>1, <1>3 DEF Distance
  <2>5. Neighbours(i, i - 1)
    BY <2>3, <2>4 DEF Neighbours, r, c
  <2>6. QED
    BY <2>2, <2>3, <2>5
<1>4. CASE c = 0
  <2>1. r > 0
    <3>1. r = 0 => r * w = 0
      BY <1>1
    <3>2. QED
      BY <1>1, <1>4, <3>1
  <2>2. r - 1 \in 0 .. params.height - 1 /\ r - 1 \in Nat
    BY <1>1, <2>1
  <2>3. i - w = (r - 1) * w + c /\ i - w < i
    <3>1. (r - 1) * w = r * w - w /\ r * w \in Nat
      BY <1>1
    <3>2. QED
      BY <1>1, <1>2, <3>1
  <2>4. i - w \in Site /\ RowOfSite(i - w) = r - 1 /\ ColumnOfSite(i - w) = c
    BY <1>1, <2>2, <2>3, SiteOfPlace DEF w
  <2>5. Distance(r, r - 1) + Distance(c, c) = 1
    BY <1>1, <2>1 DEF Distance
  <2>6. Neighbours(i, i - w)
    BY <2>4, <2>5 DEF Neighbours, r, c
  <2>7. QED
    BY <2>3, <2>4, <2>6
<1>5. QED
  BY <1>1, <1>3, <1>4

(***************************************************************************)
(* An arc leaves every set of nodes but that of all: the backbone connects *)
(* the lattice "without any repair step" (generator.cpp:102), with any     *)
(* rounding.                                                               *)
(***************************************************************************)
THEOREM GeneratedGraphsAreConnected == LatticeSpec => []StronglyConnected
<1>1. LatticeInv /\ Listed => StronglyConnected
  <2>1. SUFFICES ASSUME LatticeInv, Listed, pass = "done",
                        NEW S \in SUBSET Nodes(graph),
                        S # {}, S # Nodes(graph)
                 PROVE  \E u \in S : \E k \in ArcsFrom(graph, u) :
                            graph.arc[k].target \notin S
    BY DEF StronglyConnected
  <2>2. /\ params \in Params /\ Usable(params) /\ graph.node_count = Size64
        /\ Size64 \in Nat \ {0} /\ Site = 0 .. Size64 - 1
    BY <2>1, GridFacts DEF LatticeInv, Typed, Delivered, Site
  <2>3. Nodes(graph) = Site
    BY <2>2 DEF Nodes
  <2>4. PICK u \in Site, v \in Site : u \in S /\ v \notin S /\ Neighbours(u, v)
    <3> DEFINE T == {i \in Site : ~ (i \in S <=> 0 \in S)}
    <3>a. PICK p \in Site : p \in S
      BY <2>1, <2>3
    <3>b. PICK q \in Site : q \notin S
      BY <2>1, <2>3
    <3>c. p \in T \/ q \in T
      BY <3>a, <3>b
    <3>d. T \subseteq Nat
      BY <2>2
    <3>1. T # {} /\ T \subseteq Nat /\ 0 \notin T
      BY <3>c, <3>d
    <3>2. PICK i \in T : \A j \in T : i <= j
      BY <3>1, LeastNatural
    <3>3. i \in Site /\ i # 0 /\ ~ (i \in S <=> 0 \in S)
      BY <3>1, <3>2
    <3>4. PICK j \in Site : j < i /\ Neighbours(i, j)
      BY <2>2, <3>3, NeighbourBefore
    <3>5. j \notin T
      BY <2>2, <3>2, <3>3, <3>4
    <3>6. ~ (j \in S <=> i \in S)
      BY <3>3, <3>4, <3>5
    <3>7. Neighbours(j, i)
      BY <2>2, <3>3, <3>4, Symmetry
    <3>8. QED
      BY <3>3, <3>4, <3>6, <3>7
  <2>5. SlotsBetween(graph, u, v) # {}
    <3>1. Cardinality(SlotsBetween(graph, u, v)) = 1
      BY <2>1, <2>4, PairsAreJoined
    <3>2. Cardinality({}) = 0
      BY FS_EmptySet
    <3>3. QED
      BY <3>1, <3>2
  <2>6. PICK k \in ArcsFrom(graph, u) : graph.arc[k].target = v
    BY <2>5 DEF SlotsBetween
  <2>7. QED
    BY <2>4, <2>6
<1>2. QED
  BY PairsInvariant, <1>1, PTL
=============================================================================
