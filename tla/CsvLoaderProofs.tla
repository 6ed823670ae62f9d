-------------------------- MODULE CsvLoaderProofs --------------------------
(***************************************************************************)
(* load_graph, for every content of the two files, every read that fails   *)
(* and every limit: what it loads is what the files say, and what it       *)
(* reports is the first fault.                                             *)
(***************************************************************************)
EXTENDS CsvLoader, GraphBuilderProofs

-----------------------------------------------------------------------------
(***************************************************************************)
(* The inductive invariant.  The table of records and its index belong to  *)
(* one another.                                                            *)
(***************************************************************************)
Phases == {"open", "nodes_header", "nodes", "construct", "place",
           "edges_header", "edges", "build", "loaded", "failed"}

AfterNodeHeader == Phases \ {"open", "nodes_header", "failed"}

HoldsBuilder == {"place", "edges_header", "edges", "build"}

Record == [external_id : ExternalId, coordinate : Coord, line : Nat]

Indexed ==
    /\ phase \in Phases
    /\ node_lines \in Seq(Lines) /\ edge_lines \in Seq(Lines)
    /\ records \in Seq(Record) /\ Len(records) <= MaxNodes
    /\ DOMAIN index = {records[i].external_id : i \in DOMAIN records}
    /\ \A i \in DOMAIN records :
        /\ records[i].line \in DOMAIN node_lines
        /\ index[records[i].external_id] = i - 1

\* The builder is the one that the records call for, and has been given the
\* first of them.
Building ==
    /\ BuilderInv
    /\ reply.error = "none" \/ reply = Answer("add_arc", "capacity")
    /\ phase \in {"open", "nodes_header", "nodes", "construct"} => ~alive
    /\ phase \in HoldsBuilder =>
        /\ alive /\ ~consumed
        /\ coordinates \in [0 .. Len(records) - 1 -> Coord]
        /\ external_ids \in [0 .. Len(records) - 1 -> ExternalId]
        /\ assigned \in [0 .. Len(records) - 1 -> BOOLEAN]
        /\ assigned_count \in 0 .. Len(records)
        /\ staged \in Seq(StagedArc(Len(records)))
        /\ \A i \in 0 .. Len(records) - 1 :
            /\ assigned[i] => i < assigned_count
            /\ i < assigned_count =>
                /\ coordinates[i] = records[i + 1].coordinate
                /\ external_ids[i] = records[i + 1].external_id
    /\ phase \in {"place", "edges_header"} => staged = <<>>
    /\ phase \in {"edges_header", "edges", "build"} =>
        assigned_count = Len(records)

\* Every line so far is skipped; or one of them is the header.
NoHeader(lines) ==
    \A i \in DOMAIN lines : IsSkippable(Content(lines[i], i))

IsHeader(lines, i) ==
    /\ ~IsSkippable(Content(lines[i], i))
    /\ \A j \in 1 .. i - 1 : IsSkippable(Content(lines[j], j))

HasHeader(lines) == \E i \in DOMAIN lines : IsHeader(lines, i)

\* The records are the rows of the node file, in their order, and none of
\* them is at fault.
IsRecordOf(record, row) ==
    /\ row[1] \in DOMAIN IdOf
    /\ record.external_id = IdOf[row[1]]
    /\ record.coordinate = CoordOf(row[2], row[3])

NodeRows ==
    /\ phase \in {"open", "nodes_header"} => NoHeader(node_lines) /\ records = <<>>
    /\ phase \in AfterNodeHeader =>
        /\ HasHeader(node_lines)
        /\ \A i \in DataLines(node_lines) : GoodNodeLine(i)
        /\ DataLines(node_lines) = {records[i].line : i \in DOMAIN records}
        /\ \A i, j \in DOMAIN records : i < j => records[i].line < records[j].line
        /\ \A i \in DOMAIN records :
            IsRecordOf(records[i], Shown(node_lines)[records[i].line])

\* The staged arcs are the rows of the edge file.
IsArcOf(arc, row) ==
    /\ {IdOf[row[1]], IdOf[row[2]]} \subseteq DOMAIN index
    /\ arc.source = index[IdOf[row[1]]]
    /\ arc.target = index[IdOf[row[2]]]
    /\ arc.weight = NumberOf[row[3]]

StagedRows ==
    \E lineOf \in Bijection(DOMAIN staged, DataLines(edge_lines)) :
        \A i \in DOMAIN staged :
            IsArcOf(staged[i], Shown(edge_lines)[lineOf[i]])

EdgeRows ==
    /\ phase \notin {"edges", "build", "loaded", "failed"} => NoHeader(edge_lines)
    /\ phase \in {"edges", "build", "loaded"} =>
        /\ HasHeader(edge_lines)
        /\ \A i \in DataLines(edge_lines) : GoodEdgeLine(i)
    /\ phase \in {"edges", "build"} => StagedRows

\* What callers of load_graph go by: a graph, and no identifier in it twice.
LoadedIsUsable ==
    phase = "loaded" =>
        /\ IsGraph(graph)
        /\ \A u, v \in Nodes(graph) :
            graph.external_id[u] = graph.external_id[v] => u = v

LoadInv ==
    /\ Indexed /\ Building /\ NodeRows /\ EdgeRows
    /\ LoadedIsUsable /\ GraphIsWhatTheFilesSay /\ FirstFaultIsReported

-----------------------------------------------------------------------------
(***************************************************************************)
(* The rows of a file that grows.                                          *)
(***************************************************************************)
Longer(lines, line, more) ==
    /\ lines \in Seq(Lines) /\ line \in Lines /\ more \in Seq(Lines)
    /\ Len(more) = Len(lines) + 1
    /\ more[Len(lines) + 1] = line
    /\ \A i \in DOMAIN lines : more[i] = lines[i]

LEMMA AppendIsLonger ==
    ASSUME NEW lines \in Seq(Lines), NEW line \in Lines
    PROVE  Longer(lines, line, Append(lines, line))
BY DEF Longer

LEMMA LongerFile ==
    ASSUME NEW lines, NEW line, NEW more, Longer(lines, line, more)
    PROVE  /\ lines \in Seq(Lines) /\ more \in Seq(Lines)
           /\ Len(lines) \in Nat
           /\ DOMAIN lines = 1 .. Len(lines)
           /\ DOMAIN more = 1 .. Len(lines) + 1
           /\ more[Len(lines) + 1] = line
           /\ Shown(more)[Len(lines) + 1] = Content(line, Len(lines) + 1)
           /\ \A i \in DOMAIN lines :
                i \in DOMAIN more /\ more[i] = lines[i]
                /\ Shown(more)[i] = Shown(lines)[i]
<1>1. /\ lines \in Seq(Lines) /\ more \in Seq(Lines)
      /\ Len(more) = Len(lines) + 1
      /\ Len(lines) \in Nat
      /\ DOMAIN lines = 1 .. Len(lines)
      /\ DOMAIN more = 1 .. Len(lines) + 1
      /\ more[Len(lines) + 1] = line
      /\ \A i \in DOMAIN lines : more[i] = lines[i]
  BY DEF Longer
<1>2. QED
  BY <1>1 DEF Shown

LEMMA HeaderIsUnique ==
    ASSUME NEW lines \in Seq(Lines), NEW h \in DOMAIN lines, IsHeader(lines, h)
    PROVE  HeaderLine(lines) = h
<1>1. DOMAIN lines = 1 .. Len(lines) /\ Len(lines) \in Nat
  OBVIOUS
<1> DEFINE P(i) == /\ ~IsSkippable(Shown(lines)[i])
                   /\ \A j \in 1 .. i - 1 : IsSkippable(Shown(lines)[j])
<1>2. \A i \in DOMAIN lines : P(i) <=> IsHeader(lines, i)
  <2>1. \A j \in 1 .. Len(lines) : Shown(lines)[j] = Content(lines[j], j)
    BY <1>1 DEF Shown
  <2>2. QED
    BY <1>1, <2>1 DEF IsHeader
<1>3. \A i \in DOMAIN lines : IsHeader(lines, i) => i = h
  BY <1>1 DEF IsHeader
<1> HIDE DEF P
<1>4. HeaderLine(lines) = CHOOSE i \in DOMAIN lines : P(i)
  BY DEF HeaderLine, P
<1>5. QED
  BY <1>2, <1>3, <1>4

LEMMA DataLinesFacts ==
    ASSUME NEW lines \in Seq(Lines), HasHeader(lines)
    PROVE  \A i : i \in DataLines(lines) <=>
                /\ i \in DOMAIN lines
                /\ ~IsSkippable(Content(lines[i], i))
                /\ i > HeaderLine(lines)
BY DEF DataLines, Shown

LEMMA HeaderStays ==
    ASSUME NEW lines, NEW line, NEW more, Longer(lines, line, more),
           HasHeader(lines)
    PROVE  /\ HasHeader(more)
           /\ IsSkippable(Content(line, Len(lines) + 1)) =>
                DataLines(more) = DataLines(lines)
           /\ ~IsSkippable(Content(line, Len(lines) + 1)) =>
                DataLines(more) = DataLines(lines) \cup {Len(lines) + 1}
<1>1. PICK h \in DOMAIN lines : IsHeader(lines, h)
  BY DEF HasHeader
<1>2. /\ lines \in Seq(Lines) /\ more \in Seq(Lines) /\ Len(lines) \in Nat
      /\ DOMAIN lines = 1 .. Len(lines) /\ DOMAIN more = 1 .. Len(lines) + 1
      /\ more[Len(lines) + 1] = line
      /\ \A i \in DOMAIN lines : more[i] = lines[i]
  BY LongerFile
<1>3. h \in DOMAIN more /\ IsHeader(more, h)
  BY <1>1, <1>2 DEF IsHeader
<1>4. HeaderLine(lines) = h /\ HeaderLine(more) = h
  BY <1>1, <1>2, <1>3, HeaderIsUnique
<1>5. HasHeader(more)
  BY <1>3 DEF HasHeader
<1>6. \A i : i \in DataLines(more) <=>
                /\ i \in DOMAIN more
                /\ ~IsSkippable(Content(more[i], i)) /\ i > h
  BY <1>2, <1>4, <1>5, DataLinesFacts
<1>7. \A i : i \in DataLines(lines) <=>
                /\ i \in DOMAIN lines
                /\ ~IsSkippable(Content(lines[i], i)) /\ i > h
  BY <1>2, <1>4, DataLinesFacts
<1>8. \A i : i \in DataLines(more) <=>
                \/ i \in DataLines(lines)
                \/ i = Len(lines) + 1 /\ ~IsSkippable(Content(line, i))
  BY <1>1, <1>2, <1>6, <1>7
<1>9. QED
  BY <1>5, <1>8

LEMMA HeaderComes ==
    ASSUME NEW lines, NEW line, NEW more, Longer(lines, line, more),
           NoHeader(lines)
    PROVE  /\ IsSkippable(Content(line, Len(lines) + 1)) => NoHeader(more)
           /\ ~IsSkippable(Content(line, Len(lines) + 1)) =>
                HasHeader(more) /\ DataLines(more) = {}
<1>1. /\ lines \in Seq(Lines) /\ more \in Seq(Lines) /\ Len(lines) \in Nat
      /\ DOMAIN lines = 1 .. Len(lines) /\ DOMAIN more = 1 .. Len(lines) + 1
      /\ more[Len(lines) + 1] = line
      /\ \A i \in DOMAIN lines : more[i] = lines[i]
  BY LongerFile
<1>2. IsSkippable(Content(line, Len(lines) + 1)) => NoHeader(more)
  BY <1>1 DEF NoHeader
<1>3. ASSUME ~IsSkippable(Content(line, Len(lines) + 1))
      PROVE  HasHeader(more) /\ DataLines(more) = {}
  <2> DEFINE n == Len(lines) + 1
  <2>1. n \in DOMAIN more /\ IsHeader(more, n)
    BY <1>1, <1>3 DEF NoHeader, IsHeader
  <2>2. HasHeader(more)
    BY <2>1 DEF HasHeader
  <2>3. HeaderLine(more) = n
    BY <1>1, <2>1, HeaderIsUnique
  <2>4. \A i \in DOMAIN more : ~(i > n)
    BY <1>1
  <2>5. \A i : i \notin DataLines(more)
    BY <1>1, <2>2, <2>3, <2>4, DataLinesFacts
  <2>6. QED
    BY <2>2, <2>5
<1>4. QED
  BY <1>2, <1>3

-----------------------------------------------------------------------------
(***************************************************************************)
(* What makes a line good is before it, so good lines stay good.           *)
(***************************************************************************)
LEMMA NamesStay ==
    ASSUME NEW lines, NEW line, NEW more, Longer(lines, line, more),
           HasHeader(lines),
           NEW i \in 1 .. Len(lines) + 1, NEW token
    PROVE  NamesNode(token, more, i) <=> NamesNode(token, lines, i)
<1>1. /\ Len(lines) \in Nat /\ DOMAIN lines = 1 .. Len(lines)
      /\ \A j \in DOMAIN lines : Shown(more)[j] = Shown(lines)[j]
  BY LongerFile
<1>2. \A j : j \in DataLines(lines) => j \in DOMAIN lines
  BY DataLinesFacts, LongerFile
<1>3. \A j : j \in DataLines(more) =>
                j \in DataLines(lines) \/ j = Len(lines) + 1
  BY HeaderStays
<1>4. DataLines(lines) \subseteq DataLines(more)
  BY HeaderStays
<1>5. \A j : j \in DataLines(more) /\ j < i <=> j \in DataLines(lines) /\ j < i
  BY <1>1, <1>3, <1>4
<1>6. QED
  BY <1>1, <1>2, <1>5 DEF NamesNode

LEMMA GoodNodeLinesStay ==
    ASSUME NEW line, Longer(node_lines, line, node_lines'),
           HasHeader(node_lines),
           NEW i \in DataLines(node_lines)
    PROVE  GoodNodeLine(i)' <=> GoodNodeLine(i)
<1>1. i \in DOMAIN node_lines /\ i \in 1 .. Len(node_lines) + 1
  BY DataLinesFacts, LongerFile
<1>2. Shown(node_lines')[i] = Shown(node_lines)[i]
  BY <1>1, LongerFile
<1>3. \A token : NamesNode(token, node_lines', i) <=> NamesNode(token, node_lines, i)
  BY <1>1, NamesStay
<1>4. QED
  BY <1>2, <1>3 DEF GoodNodeLine

LEMMA GoodEdgeLinesStay ==
    ASSUME NEW line, Longer(edge_lines, line, edge_lines'),
           HasHeader(edge_lines), node_lines' = node_lines,
           NEW i \in DataLines(edge_lines)
    PROVE  GoodEdgeLine(i)' <=> GoodEdgeLine(i)
<1>1. i \in DOMAIN edge_lines
  BY DataLinesFacts, LongerFile
<1>2. Shown(edge_lines')[i] = Shown(edge_lines)[i]
  BY <1>1, LongerFile
<1>3. QED
  BY <1>2 DEF GoodEdgeLine

\* The index finds exactly the identifiers of the node file.
LEMMA IndexedNames ==
    ASSUME Indexed, NodeRows, phase \in AfterNodeHeader, NEW token
    PROVE  IdOf[token] \in DOMAIN index <=>
                NamesNode(token, node_lines, Len(node_lines) + 1)
<1>1. /\ DataLines(node_lines) = {records[i].line : i \in DOMAIN records}
      /\ \A i \in DOMAIN records :
            IsRecordOf(records[i], Shown(node_lines)[records[i].line])
  BY DEF NodeRows
<1>2. DOMAIN index = {records[i].external_id : i \in DOMAIN records}
  BY DEF Indexed
<1>3. \A j \in DataLines(node_lines) : j < Len(node_lines) + 1
  BY <1>1 DEF Indexed
<1>4. ASSUME IdOf[token] \in DOMAIN index
      PROVE  NamesNode(token, node_lines, Len(node_lines) + 1)
  <2>1. PICK i \in DOMAIN records : records[i].external_id = IdOf[token]
    BY <1>2, <1>4
  <2>2. records[i].line \in DataLines(node_lines)
    BY <1>1
  <2>3. QED
    BY <1>1, <1>3, <2>1, <2>2 DEF NamesNode, IsRecordOf
<1>5. ASSUME NamesNode(token, node_lines, Len(node_lines) + 1)
      PROVE  IdOf[token] \in DOMAIN index
  <2>1. PICK j \in DataLines(node_lines) :
            IdOf[Shown(node_lines)[j][1]] = IdOf[token]
    BY <1>5 DEF NamesNode
  <2>2. PICK i \in DOMAIN records : records[i].line = j
    BY <1>1, <2>1
  <2>3. QED
    BY <1>1, <1>2, <2>1, <2>2 DEF IsRecordOf
<1>6. QED
  BY <1>4, <1>5

-----------------------------------------------------------------------------
(***************************************************************************)
(* The initial states, and the steps that read the node file.              *)
(***************************************************************************)
LEMMA NothingYet ==
    ASSUME phase \notin {"loaded", "failed"}
    PROVE  LoadedIsUsable /\ GraphIsWhatTheFilesSay /\ FirstFaultIsReported
BY DEF LoadedIsUsable, GraphIsWhatTheFilesSay, FirstFaultIsReported

LEMMA NothingYetNext ==
    ASSUME phase' \notin {"loaded", "failed"}
    PROVE  LoadedIsUsable' /\ GraphIsWhatTheFilesSay' /\ FirstFaultIsReported'
BY DEF LoadedIsUsable, GraphIsWhatTheFilesSay, FirstFaultIsReported

\* A fault for which a line of a file is not to blame.
LEMMA LimitReported ==
    ASSUME phase' = "failed", failure'.why \in Limits
    PROVE  LoadedIsUsable' /\ GraphIsWhatTheFilesSay' /\ FirstFaultIsReported'
BY DEF LoadedIsUsable, GraphIsWhatTheFilesSay, FirstFaultIsReported

LEMMA InitLoad == LoadInit => LoadInv
<1>1. SUFFICES ASSUME LoadInit PROVE LoadInv
  OBVIOUS
<1>2. /\ phase = "open" /\ node_lines = <<>> /\ edge_lines = <<>>
      /\ records = <<>> /\ index = [id \in {} |-> 0] /\ Init
  BY <1>1 DEF LoadInit
<1>3. Indexed
  BY <1>2, LimitAssumption DEF Indexed, Phases
<1>4. Building
  <2>1. BuilderInv
    BY <1>2, InitBuilderInv
  <2>2. QED
    BY <1>2, <2>1 DEF Building, Init, Answer, HoldsBuilder
<1>5. NodeRows /\ EdgeRows
  BY <1>2 DEF NodeRows, EdgeRows, NoHeader, AfterNodeHeader
<1>6. QED
  BY <1>2, <1>3, <1>4, <1>5, NothingYet DEF LoadInv

\* While the builder rests, it stays as it is for.
LEMMA BuilderRests ==
    ASSUME Building, UNCHANGED <<vars, records>>,
           \/ phase' = phase
           \/ phase' = "failed"
           \/ phase' \in {"nodes_header", "nodes", "construct"} /\ ~alive
           \/ phase = "place" /\ phase' = "edges_header"
              /\ assigned_count = Len(records)
           \/ phase = "edges_header" /\ phase' = "edges"
           \/ phase = "edges" /\ phase' = "build"
    PROVE  Building'
<1>1. BuilderInv'
  BY ThrowKeepsInv DEF Building, vars, builder, BuilderInv, TypeOK
<1>2. QED
  BY <1>1 DEF Building, vars, HoldsBuilder

LEMMA OpenStep == LoadInv /\ Open => LoadInv'
<1>1. SUFFICES ASSUME LoadInv, Open PROVE LoadInv'
  OBVIOUS
<1>2. /\ phase = "open"
      /\ UNCHANGED <<vars, node_lines, edge_lines, records, index>>
      /\ \/ phase' = "failed" /\ failure'.why = "cannot_open"
         \/ phase' = "nodes_header"
  BY <1>1 DEF Open, Fail
<1>3. Indexed'
  BY <1>1, <1>2 DEF LoadInv, Indexed, Phases
<1>4. Building'
  <2>1. ~alive
    BY <1>1, <1>2 DEF LoadInv, Building
  <2>2. QED
    BY <1>1, <1>2, <2>1, BuilderRests DEF LoadInv
<1>5. NodeRows' /\ EdgeRows'
  BY <1>1, <1>2
  DEF LoadInv, NodeRows, EdgeRows, NoHeader, AfterNodeHeader
<1>6. LoadedIsUsable' /\ GraphIsWhatTheFilesSay' /\ FirstFaultIsReported'
  <2>1. CASE phase' = "failed" /\ failure'.why = "cannot_open"
    BY <2>1, LimitReported DEF Limits
  <2>2. CASE phase' = "nodes_header"
    BY <2>2, NothingYetNext
  <2>3. QED
    BY <1>2, <2>1, <2>2
<1>7. QED
  BY <1>3, <1>4, <1>5, <1>6 DEF LoadInv

LEMMA NodeHeaderStep ==
    ASSUME LoadInv, NEW line \in Lines, ReadNodeHeader(line)
    PROVE  LoadInv'
<1> DEFINE number == Len(node_lines) + 1
           fields == Content(line, number)
<1>1. /\ phase = "nodes_header" /\ Longer(node_lines, line, node_lines')
      /\ UNCHANGED <<vars, edge_lines, records, index>>
      /\ \/ IsSkippable(fields) /\ phase' = phase
         \/ ~IsSkippable(fields) /\ phase' = "nodes"
         \/ ~IsSkippable(fields) /\ phase' = "failed" /\ failure'.why = "header"
  BY AppendIsLonger
  DEF LoadInv, Indexed, ReadNodeHeader, DeliverNodeLine, Fail
<1>2. /\ node_lines \in Seq(Lines) /\ NoHeader(node_lines) /\ records = <<>>
      /\ NoHeader(edge_lines) /\ ~alive
  BY <1>1 DEF LoadInv, Indexed, NodeRows, EdgeRows, Building
<1>3. Indexed'
  BY <1>1, <1>2, LongerFile DEF LoadInv, Indexed, Phases
<1>4. Building'
  BY <1>1, <1>2, BuilderRests DEF LoadInv
<1>5. NodeRows'
  <2>1. /\ IsSkippable(fields) => NoHeader(node_lines')
        /\ ~IsSkippable(fields) =>
                HasHeader(node_lines') /\ DataLines(node_lines') = {}
    BY <1>1, <1>2, HeaderComes
  <2>2. DOMAIN records' = {}
    BY <1>1, <1>2
  <2>3. QED
    BY <1>1, <1>2, <2>1, <2>2 DEF NodeRows, AfterNodeHeader
<1>6. EdgeRows'
  BY <1>1, <1>2 DEF EdgeRows, NoHeader
<1>7. LoadedIsUsable' /\ GraphIsWhatTheFilesSay' /\ FirstFaultIsReported'
  <2>1. CASE phase' = "failed" /\ failure'.why = "header"
    BY <2>1, LimitReported DEF Limits
  <2>2. CASE phase' \in {"nodes_header", "nodes"}
    BY <2>2, NothingYetNext
  <2>3. QED
    BY <1>1, <2>1, <2>2
<1>8. QED
  BY <1>3, <1>4, <1>5, <1>6, <1>7 DEF LoadInv

\* A row of the node file that is accepted is the next record.
LEMMA NodeErrorTells ==
    ASSUME LoadInv, phase = "nodes", NEW line \in Lines,
           Longer(node_lines, line, node_lines'),
           NEW number, number = Len(node_lines) + 1,
           NodeError(Content(line, number)) # "too_many_nodes"
    PROVE  NodeError(Content(line, number)) = "none" <=> GoodNodeLine(number)'
<1> DEFINE fields == Content(line, number)
<1>1. /\ Shown(node_lines')[number] = fields
      /\ number \in 1 .. number
  BY LongerFile
<1>2. RowError(fields) = "none" <=> GoodFields(fields)
  BY DEF RowError, GoodFields
<1>3. HasHeader(node_lines) /\ Indexed /\ NodeRows /\ phase \in AfterNodeHeader
  BY DEF LoadInv, NodeRows, AfterNodeHeader, Phases
<1>4. NamesNode(fields[1], node_lines', number) <=>
            NamesNode(fields[1], node_lines, number)
  BY <1>1, <1>3, NamesStay
<1>5. IdOf[fields[1]] \in DOMAIN index <=>
            NamesNode(fields[1], node_lines, number)
  BY <1>3, IndexedNames
<1> HIDE DEF fields
<1>6. NodeError(fields) # "too_many_nodes" =>
        (NodeError(fields) = "none" <=>
            /\ RowError(fields) = "none"
            /\ fields[1] \in DOMAIN IdOf
            /\ IsFinite(fields[2]) /\ IsFinite(fields[3])
            /\ IdOf[fields[1]] \notin DOMAIN index)
  BY DEF NodeError
<1>7. GoodNodeLine(number)' <=>
            /\ GoodFields(fields)
            /\ fields[1] \in DOMAIN IdOf
            /\ IsFinite(fields[2]) /\ IsFinite(fields[3])
            /\ ~NamesNode(fields[1], node_lines', number)
  BY <1>1 DEF GoodNodeLine
<1>8. QED
  BY <1>2, <1>4, <1>5, <1>6, <1>7 DEF fields

LEMMA NodeRowsStay ==
    ASSUME LoadInv, phase = "nodes", NEW line,
           Longer(node_lines, line, node_lines')
    PROVE  /\ HasHeader(node_lines')
           /\ \A i \in DataLines(node_lines) : GoodNodeLine(i)'
           /\ DataLines(node_lines) = {records[i].line : i \in DOMAIN records}
           /\ \A i, j \in DOMAIN records :
                i < j => records[i].line < records[j].line
           /\ \A i \in DOMAIN records :
                IsRecordOf(records[i], Shown(node_lines')[records[i].line])
<1>1. /\ HasHeader(node_lines)
      /\ \A i \in DataLines(node_lines) : GoodNodeLine(i)
      /\ DataLines(node_lines) = {records[i].line : i \in DOMAIN records}
      /\ \A i, j \in DOMAIN records : i < j => records[i].line < records[j].line
      /\ \A i \in DOMAIN records :
            IsRecordOf(records[i], Shown(node_lines)[records[i].line])
  BY DEF LoadInv, NodeRows, AfterNodeHeader, Phases
<1>2. HasHeader(node_lines')
  BY <1>1, HeaderStays
<1>3. \A i \in DataLines(node_lines) : GoodNodeLine(i)'
  BY <1>1, GoodNodeLinesStay
<1>4. \A i \in DOMAIN records :
        Shown(node_lines')[records[i].line] = Shown(node_lines)[records[i].line]
  BY LongerFile DEF LoadInv, Indexed
<1>5. QED
  BY <1>1, <1>2, <1>3, <1>4

LEMMA NodeStep ==
    ASSUME LoadInv, NEW line \in Lines, ReadNode(line)
    PROVE  LoadInv'
<1>0. PICK number : number = Len(node_lines) + 1
  OBVIOUS
<1> DEFINE fields == Content(line, number)
           error == NodeError(fields)
           id == IdOf[fields[1]]
           record == [external_id |-> id,
                      coordinate |-> CoordOf(fields[2], fields[3]),
                      line |-> number]
<1>1. /\ phase = "nodes" /\ node_lines' = Append(node_lines, line)
      /\ UNCHANGED <<vars, edge_lines>>
  BY DEF ReadNode, DeliverNodeLine
<1>2. \/ /\ IsSkippable(fields)
         /\ UNCHANGED <<phase, failure, records, index>>
      \/ /\ ~IsSkippable(fields) /\ error # "none" /\ phase' = "failed"
         /\ failure' = [file |-> "nodes", line |-> number, why |-> error]
         /\ UNCHANGED <<records, index>>
      \/ /\ ~IsSkippable(fields) /\ error = "none"
         /\ index' = [i \in DOMAIN index \cup {id} |->
                        IF i = id THEN Len(records) ELSE index[i]]
         /\ records' = Append(records, record)
         /\ UNCHANGED <<phase, failure>>
  BY <1>0 DEF ReadNode, Fail
<1>3. Longer(node_lines, line, node_lines')
  BY <1>1, AppendIsLonger DEF LoadInv, Indexed
<1>4. /\ node_lines \in Seq(Lines) /\ node_lines' \in Seq(Lines)
      /\ Len(node_lines) \in Nat /\ number \in Nat
      /\ DOMAIN node_lines = 1 .. Len(node_lines)
      /\ DOMAIN node_lines' = 1 .. number
      /\ Shown(node_lines')[number] = fields
  BY <1>0, <1>3, LongerFile
<1>5. /\ IsSkippable(fields) => DataLines(node_lines') = DataLines(node_lines)
      /\ ~IsSkippable(fields) =>
            DataLines(node_lines') = DataLines(node_lines) \cup {number}
  BY <1>0, <1>1, <1>3, HeaderStays
  DEF LoadInv, NodeRows, AfterNodeHeader, Phases
<1>6. \A i \in DOMAIN records : records[i].line \in 1 .. Len(node_lines)
  BY <1>4 DEF LoadInv, Indexed
<1>7. ~alive /\ NoHeader(edge_lines)
  BY <1>1 DEF LoadInv, Building, EdgeRows
<1>8. EdgeRows'
  BY <1>1, <1>2, <1>7 DEF EdgeRows, NoHeader
<1>9. CASE /\ IsSkippable(fields)
           /\ UNCHANGED <<phase, failure, records, index>>
  <2>1. Indexed'
    BY <1>1, <1>4, <1>9 DEF LoadInv, Indexed
  <2>2. Building'
    BY <1>1, <1>9, BuilderRests DEF LoadInv
  <2>3. NodeRows'
    BY <1>1, <1>3, <1>5, <1>9, NodeRowsStay DEF NodeRows
  <2>4. QED
    BY <1>1, <1>8, <1>9, <2>1, <2>2, <2>3, NothingYetNext DEF LoadInv
<1>10. CASE /\ ~IsSkippable(fields) /\ error # "none" /\ phase' = "failed"
            /\ failure' = [file |-> "nodes", line |-> number, why |-> error]
            /\ UNCHANGED <<records, index>>
  <2>1. Indexed'
    BY <1>1, <1>4, <1>10 DEF LoadInv, Indexed, Phases
  <2>2. Building'
    BY <1>1, <1>7, <1>10, BuilderRests DEF LoadInv
  <2>3. NodeRows'
    BY <1>10 DEF NodeRows, AfterNodeHeader
  <2>4. FirstFaultIsReported' /\ GraphIsWhatTheFilesSay' /\ LoadedIsUsable'
    <3>1. CASE error = "too_many_nodes"
      BY <1>10, <3>1, LimitReported DEF Limits
    <3>2. CASE error # "too_many_nodes"
      <4>1. ~GoodNodeLine(number)'
        BY <1>0, <1>1, <1>3, <1>10, <3>2, NodeErrorTells
      <4>2. \A i \in DataLines(node_lines') :
                i < number => i \in DataLines(node_lines)
        BY <1>0, <1>4, <1>5
      <4>3. \A i \in DataLines(node_lines) : GoodNodeLine(i)'
        BY <1>1, <1>3, NodeRowsStay
      <4>4. \A i \in DataLines(node_lines') : i < number => GoodNodeLine(i)'
        BY <4>2, <4>3
      <4>5. phase' = "failed" /\ failure'.file = "nodes" /\ failure'.line = number
        BY <1>10
      <4>6. QED
        BY <4>1, <4>4, <4>5
        DEF FirstFaultIsReported, GraphIsWhatTheFilesSay, LoadedIsUsable
    <3>3. QED
      BY <3>1, <3>2
  <2>5. QED
    BY <1>8, <2>1, <2>2, <2>3, <2>4 DEF LoadInv
<1>11. CASE /\ ~IsSkippable(fields) /\ error = "none"
            /\ index' = [i \in DOMAIN index \cup {id} |->
                            IF i = id THEN Len(records) ELSE index[i]]
            /\ records' = Append(records, record)
            /\ UNCHANGED <<phase, failure>>
  <2>1. GoodNodeLine(number)' /\ Len(records) < MaxNodes
        /\ id \notin DOMAIN index
    <3>1. NodeError(fields) # "too_many_nodes" /\ id \notin DOMAIN index
          /\ ~(Len(records) >= MaxNodes)
      BY <1>11 DEF NodeError
    <3>2. Len(records) \in Nat /\ MaxNodes \in Nat
      BY LimitAssumption DEF LoadInv, Indexed
    <3>3. GoodNodeLine(number)'
      BY <1>0, <1>1, <1>3, <1>11, <3>1, NodeErrorTells
    <3>4. QED
      BY <3>1, <3>2, <3>3
  <2>2. /\ fields[1] \in DOMAIN IdOf
        /\ IsFinite(fields[2]) /\ IsFinite(fields[3])
    BY <1>4, <2>1 DEF GoodNodeLine
  <2>3. record \in Record
    BY <1>4, <2>2, LinesAssumption DEF Record, IsFinite
  <2>4. /\ records \in Seq(Record) /\ Len(records) \in Nat
        /\ DOMAIN records = 1 .. Len(records)
        /\ records' \in Seq(Record) /\ Len(records') = Len(records) + 1
        /\ DOMAIN records' = 1 .. Len(records) + 1
        /\ records'[Len(records) + 1] = record
        /\ \A i \in 1 .. Len(records) : records'[i] = records[i]
    BY <1>11, <2>3 DEF LoadInv, Indexed
  <2>5. Indexed'
    <3>1. DOMAIN index' = {records'[i].external_id : i \in DOMAIN records'}
      <4>1. DOMAIN index' = DOMAIN index \cup {id}
        BY <1>11
      <4>2. DOMAIN index = {records[i].external_id : i \in 1 .. Len(records)}
        BY <2>4 DEF LoadInv, Indexed
      <4>3. \A x : x \in DOMAIN index' <=>
                    \E i \in 1 .. Len(records) + 1 : x = records'[i].external_id
        BY <2>4, <4>1, <4>2
      <4>4. QED
        BY <2>4, <4>3
    <3>2. \A i \in DOMAIN records' :
            /\ records'[i].line \in DOMAIN node_lines'
            /\ index'[records'[i].external_id] = i - 1
      <4>1. ASSUME NEW i \in 1 .. Len(records)
            PROVE  /\ records'[i].line \in DOMAIN node_lines'
                   /\ index'[records'[i].external_id] = i - 1
        <5>1. records[i].external_id \in DOMAIN index
              /\ index[records[i].external_id] = i - 1
          BY <2>4 DEF LoadInv, Indexed
        <5>2. records[i].external_id # id
          BY <2>1, <5>1
        <5>3. index'[records[i].external_id] = i - 1
          BY <1>11, <5>1, <5>2
        <5>4. records[i].line \in 1 .. number
          <6>1. i \in DOMAIN records
            BY <2>4
          <6>2. records[i].line \in 1 .. Len(node_lines)
            BY <1>6, <6>1
          <6>3. QED
            BY <1>0, <1>4, <6>2
        <5>5. QED
          BY <1>4, <2>4, <5>3, <5>4
      <4>2. index'[id] = Len(records) /\ record.external_id = id
            /\ record.line \in DOMAIN node_lines'
        BY <1>0, <1>4, <1>11
      <4>3. QED
        BY <2>4, <4>1, <4>2
    <3>3. Len(records') <= MaxNodes
      BY <2>1, <2>4, LimitAssumption
    <3>4. QED
      BY <1>1, <1>4, <1>11, <2>4, <3>1, <3>2, <3>3 DEF LoadInv, Indexed
  <2>6. Building'
    BY <1>1, <1>7, <1>11, ThrowKeepsInv
    DEF LoadInv, Building, HoldsBuilder, vars, builder, BuilderInv, TypeOK
  <2>7. NodeRows'
    <3>1. DataLines(node_lines') = DataLines(node_lines) \cup {number}
      BY <1>5, <1>11
    <3>2. DataLines(node_lines') = {records'[i].line : i \in DOMAIN records'}
      <4>1. DataLines(node_lines) = {records[i].line : i \in 1 .. Len(records)}
        BY <1>1, <1>3, <2>4, NodeRowsStay
      <4>2. record.line = number
        OBVIOUS
      <4>3. \A x : x \in DataLines(node_lines') <=>
                    \E i \in 1 .. Len(records) + 1 : x = records'[i].line
        BY <2>4, <3>1, <4>1, <4>2
      <4>4. QED
        BY <2>4, <4>3
    <3>3. \A i \in DataLines(node_lines') : GoodNodeLine(i)'
      BY <1>1, <1>3, <2>1, <3>1, NodeRowsStay
    <3>4. \A i, j \in DOMAIN records' : i < j => records'[i].line < records'[j].line
      <4>1. \A i, j \in 1 .. Len(records) :
                i < j => records[i].line < records[j].line
        BY <1>1, <1>3, <2>4, NodeRowsStay
      <4>2. record.line = number
        OBVIOUS
      <4>3. \A i \in 1 .. Len(records) : records[i].line < record.line
        BY <1>0, <1>4, <1>6, <2>4, <4>2
      <4>4. QED
        BY <2>4, <4>1, <4>3
    <3>5. \A i \in DOMAIN records' :
            IsRecordOf(records'[i], Shown(node_lines')[records'[i].line])
      <4>1. \A i \in 1 .. Len(records) :
                IsRecordOf(records[i], Shown(node_lines')[records[i].line])
        BY <1>1, <1>3, <2>4, NodeRowsStay
      <4>2. IsRecordOf(record, fields)
        BY <2>2 DEF IsRecordOf
      <4>3. record.line = number
        OBVIOUS
      <4>4. IsRecordOf(record, Shown(node_lines')[record.line])
        BY <1>4, <4>2, <4>3
      <4>5. QED
        BY <2>4, <4>1, <4>4
    <3>6. HasHeader(node_lines')
      BY <1>1, <1>3, NodeRowsStay
    <3>7. phase' = "nodes"
      BY <1>1, <1>11
    <3>8. QED
      BY <3>2, <3>3, <3>4, <3>5, <3>6, <3>7 DEF NodeRows
  <2>8. QED
    BY <1>1, <1>8, <1>11, <2>5, <2>6, <2>7, NothingYetNext DEF LoadInv
<1>12. QED
  BY <1>2, <1>9, <1>10, <1>11

-----------------------------------------------------------------------------
(***************************************************************************)
(* The steps between the files: the end of the node file, and the calls of *)
(* the builder that the records ask for.                                   *)
(***************************************************************************)
LEMMA NodeFileRests ==
    ASSUME Indexed, NodeRows, UNCHANGED <<node_lines, records, index>>,
           edge_lines' \in Seq(Lines),
           \/ phase' \in {phase, "failed"}
           \/ phase \in AfterNodeHeader /\ phase' \in AfterNodeHeader
    PROVE  Indexed' /\ NodeRows'
<1>1. phase' \in Phases
  BY DEF Indexed, AfterNodeHeader, Phases
<1>2. Indexed'
  BY <1>1 DEF Indexed
<1>3. phase' \in AfterNodeHeader => phase \in AfterNodeHeader
  BY DEF AfterNodeHeader, Phases
<1>4. \A i : GoodNodeLine(i)' <=> GoodNodeLine(i)
  BY DEF GoodNodeLine
<1>5. NodeRows'
  BY <1>3, <1>4 DEF NodeRows, AfterNodeHeader
<1>6. QED
  BY <1>2, <1>5

LEMMA EndOfNodesStep == LoadInv /\ EndOfNodes => LoadInv'
<1>1. SUFFICES ASSUME LoadInv, EndOfNodes PROVE LoadInv'
  OBVIOUS
<1>2. /\ phase \in {"nodes_header", "nodes"}
      /\ UNCHANGED <<vars, node_lines, edge_lines, records, index>>
      /\ \/ phase' = "failed" /\ failure'.why = "empty_file"
         \/ phase = "nodes" /\ phase' = "construct"
  BY <1>1 DEF EndOfNodes, NoMoreLines, Fail
<1>3. Indexed' /\ NodeRows'
  BY <1>1, <1>2, NodeFileRests DEF LoadInv, Indexed, AfterNodeHeader, Phases
<1>4. Building'
  <2>1. ~alive
    BY <1>1, <1>2 DEF LoadInv, Building
  <2>2. QED
    BY <1>1, <1>2, <2>1, BuilderRests DEF LoadInv
<1>5. EdgeRows'
  BY <1>1, <1>2 DEF LoadInv, EdgeRows
<1>6. LoadedIsUsable' /\ GraphIsWhatTheFilesSay' /\ FirstFaultIsReported'
  <2>1. CASE phase' = "failed" /\ failure'.why = "empty_file"
    BY <2>1, LimitReported DEF Limits
  <2>2. CASE phase' = "construct"
    BY <2>2, NothingYetNext
  <2>3. QED
    BY <1>2, <2>1, <2>2
<1>7. QED
  BY <1>3, <1>4, <1>5, <1>6 DEF LoadInv

LEMMA BuilderFits ==
    ASSUME LoadInv, phase \in HoldsBuilder
    PROVE  /\ Len(records) \in 0 .. MaxNodes /\ MaxNodes \in Nat
           /\ Size = Len(records)
<1>1. Len(records) \in 0 .. MaxNodes /\ MaxNodes \in Nat
  BY LimitAssumption DEF LoadInv, Indexed
<1>2. DOMAIN coordinates = 0 .. Len(records) - 1
  BY DEF LoadInv, Building
<1>3. QED
  BY <1>1, <1>2, SizeFact

LEMMA MakeBuilderStep == LoadInv /\ MakeBuilder => LoadInv'
<1>1. SUFFICES ASSUME LoadInv, MakeBuilder PROVE LoadInv'
  OBVIOUS
<1> DEFINE n == Len(records)
<1>2. n \in 0 .. MaxNodes /\ MaxNodes \in Nat
  BY <1>1, LimitAssumption DEF LoadInv, Indexed
<1>3. /\ phase = "construct" /\ Construct(n)
      /\ UNCHANGED <<node_lines, edge_lines, records, index>>
      /\ reply'.error = "none" => phase' = "place"
  BY <1>1 DEF MakeBuilder
<1>4. /\ coordinates' = [i \in 0 .. n - 1 |-> Origin]
      /\ external_ids' = [i \in 0 .. n - 1 |-> ZeroId]
      /\ assigned' = [i \in 0 .. n - 1 |-> FALSE]
      /\ alive' /\ reply'.error = "none"
      /\ UNCHANGED <<consumed, assigned_count, staged>>
  BY <1>2, <1>3 DEF Construct, Answer
<1>5. BuilderInv'
  BY <1>1, <1>2, <1>3, ConstructKeepsInv DEF LoadInv, Building
<1>6. ~consumed /\ assigned_count = 0 /\ staged = <<>>
  BY <1>1, <1>3 DEF LoadInv, Building, BuilderInv, Unborn
<1>7. Building'
  <2>1. /\ coordinates' \in [0 .. n - 1 -> Coord]
        /\ external_ids' \in [0 .. n - 1 -> ExternalId]
        /\ assigned' \in [0 .. n - 1 -> BOOLEAN]
    BY <1>4, BuilderAssumption
  <2>2. /\ assigned_count' \in 0 .. n /\ staged' \in Seq(StagedArc(n))
        /\ \A i \in 0 .. n - 1 : ~assigned'[i] /\ ~(i < assigned_count')
    BY <1>2, <1>4, <1>6
  <2> HIDE DEF n
  <2>3. Len(records') = n /\ phase' = "place"
    BY <1>3, <1>4 DEF n
  <2>4. QED
    BY <1>4, <1>5, <1>6, <2>1, <2>2, <2>3 DEF Building
<1>8. Indexed' /\ NodeRows' /\ EdgeRows'
  <2>1. phase' = "place"
    BY <1>3, <1>4
  <2>2. Indexed' /\ NodeRows'
    BY <1>1, <1>3, <2>1, NodeFileRests
    DEF LoadInv, Indexed, AfterNodeHeader, Phases
  <2>3. QED
    BY <1>1, <1>3, <2>1, <2>2 DEF LoadInv, EdgeRows
<1>9. QED
  BY <1>3, <1>4, <1>7, <1>8, NothingYetNext DEF LoadInv

LEMMA PlaceNodeStep == LoadInv /\ PlaceNode => LoadInv'
<1>1. SUFFICES ASSUME LoadInv, PlaceNode PROVE LoadInv'
  OBVIOUS
<1>2. PICK n, id, record :
        n = Len(records) /\ id = assigned_count /\ record = records[id + 1]
  OBVIOUS
<1>3. /\ phase = "place" /\ id < n
      /\ SetNode(id, record.coordinate, record.external_id)
      /\ UNCHANGED <<node_lines, edge_lines, records, index>>
      /\ reply'.error = "none" => UNCHANGED <<phase, failure>>
  BY <1>1, <1>2 DEF PlaceNode
<1>4. n \in 0 .. MaxNodes /\ MaxNodes \in Nat /\ Size = n
  BY <1>1, <1>2, <1>3, BuilderFits DEF HoldsBuilder
<1>5. /\ alive /\ ~consumed
      /\ coordinates \in [0 .. n - 1 -> Coord]
      /\ external_ids \in [0 .. n - 1 -> ExternalId]
      /\ assigned \in [0 .. n - 1 -> BOOLEAN]
      /\ staged \in Seq(StagedArc(n)) /\ staged = <<>>
      /\ \A i \in 0 .. n - 1 :
            /\ assigned[i] => i < id
            /\ i < id => /\ coordinates[i] = records[i + 1].coordinate
                         /\ external_ids[i] = records[i + 1].external_id
  BY <1>1, <1>2, <1>3 DEF LoadInv, Building, HoldsBuilder
<1>6. id \in 0 .. n - 1
  BY <1>1, <1>2, <1>3, <1>4 DEF LoadInv, Building, HoldsBuilder
<1>7. record.coordinate \in Coord /\ record.external_id \in ExternalId
  <2>1. id + 1 \in 1 .. Len(records)
    BY <1>2, <1>4, <1>6
  <2>2. record \in Record
    BY <1>1, <1>2, <2>1 DEF LoadInv, Indexed
  <2>3. QED
    BY <2>2 DEF Record
<1>8. SetNodeError(id, record.coordinate) = "none"
  BY <1>4, <1>5, <1>6, <1>7, BuilderAssumption DEF SetNodeError
<1>9. /\ coordinates' = [coordinates EXCEPT ![id] = record.coordinate]
      /\ external_ids' = [external_ids EXCEPT ![id] = record.external_id]
      /\ assigned' = [assigned EXCEPT ![id] = TRUE]
      /\ assigned_count' = id + 1
      /\ reply'.error = "none"
      /\ UNCHANGED <<alive, consumed, staged>>
  BY <1>2, <1>3, <1>8 DEF SetNode, Answer
<1>10. BuilderInv'
  BY <1>1, <1>3, <1>4, <1>6, <1>7, SetNodeKeepsInv DEF LoadInv, Building
<1>11. phase' = "place" /\ UNCHANGED <<node_lines, edge_lines, records, index>>
  BY <1>3, <1>9
<1>12. Building'
  <2>1. /\ coordinates' \in [0 .. n - 1 -> Coord]
        /\ external_ids' \in [0 .. n - 1 -> ExternalId]
        /\ assigned' \in [0 .. n - 1 -> BOOLEAN]
        /\ assigned_count' \in 0 .. n
    BY <1>4, <1>5, <1>6, <1>7, <1>9
  <2>2. \A i \in 0 .. n - 1 :
            /\ assigned'[i] => i < assigned_count'
            /\ i < assigned_count' =>
                /\ coordinates'[i] = records[i + 1].coordinate
                /\ external_ids'[i] = records[i + 1].external_id
    BY <1>2, <1>4, <1>5, <1>6, <1>9
  <2>3. Len(records') = n /\ records' = records
    BY <1>2, <1>11
  <2>4. QED
    BY <1>5, <1>9, <1>10, <1>11, <2>1, <2>2, <2>3 DEF Building
<1>13. Indexed' /\ NodeRows' /\ EdgeRows'
  <2>1. Indexed' /\ NodeRows'
    BY <1>1, <1>3, <1>11, NodeFileRests DEF LoadInv, Indexed
  <2>2. QED
    BY <1>1, <1>3, <1>11, <2>1 DEF LoadInv, EdgeRows
<1>14. QED
  BY <1>11, <1>12, <1>13, NothingYetNext DEF LoadInv

LEMMA AllPlacedStep == LoadInv /\ AllPlaced => LoadInv'
<1>1. SUFFICES ASSUME LoadInv, AllPlaced PROVE LoadInv'
  OBVIOUS
<1>2. /\ phase = "place" /\ phase' = "edges_header"
      /\ assigned_count = Len(records)
      /\ UNCHANGED <<vars, node_lines, edge_lines, records, index>>
  BY <1>1 DEF AllPlaced
<1>3. Indexed' /\ NodeRows'
  BY <1>1, <1>2, NodeFileRests DEF LoadInv, Indexed, AfterNodeHeader, Phases
<1>4. Building'
  BY <1>1, <1>2, BuilderRests DEF LoadInv
<1>5. EdgeRows'
  BY <1>1, <1>2 DEF LoadInv, EdgeRows
<1>6. QED
  BY <1>2, <1>3, <1>4, <1>5, NothingYetNext DEF LoadInv

-----------------------------------------------------------------------------
(***************************************************************************)
(* The steps that read the edge file.                                      *)
(***************************************************************************)
LEMMA NoRowsStaged ==
    ASSUME NEW seq, seq = <<>>, NEW D, D = {}
    PROVE  \E lineOf \in Bijection(DOMAIN seq, D) : TRUE
<1> DEFINE f == [i \in {} |-> 0]
<1>1. DOMAIN seq = {}
  OBVIOUS
<1>2. f \in Bijection({}, {})
  <2>1. f \in [{} -> {}]
    OBVIOUS
  <2>2. QED
    BY <2>1 DEF Bijection, Injection, Surjection, IsInjective
<1>3. QED
  BY <1>1, <1>2

LEMMA EdgeHeaderStep ==
    ASSUME LoadInv, NEW line \in Lines, ReadEdgeHeader(line)
    PROVE  LoadInv'
<1> DEFINE number == Len(edge_lines) + 1
           fields == Content(line, number)
<1>1. /\ phase = "edges_header" /\ Longer(edge_lines, line, edge_lines')
      /\ UNCHANGED <<vars, node_lines, records, index>>
      /\ \/ IsSkippable(fields) /\ phase' = phase
         \/ ~IsSkippable(fields) /\ phase' = "edges"
         \/ ~IsSkippable(fields) /\ phase' = "failed" /\ failure'.why = "header"
  BY AppendIsLonger
  DEF LoadInv, Indexed, ReadEdgeHeader, DeliverEdgeLine, Fail
<1>2. NoHeader(edge_lines) /\ staged = <<>> /\ staged' = staged
  BY <1>1 DEF LoadInv, EdgeRows, Building, vars
<1>3. Indexed' /\ NodeRows'
  BY <1>1, NodeFileRests, LongerFile
  DEF LoadInv, Indexed, AfterNodeHeader, Phases
<1>4. Building'
  BY <1>1, BuilderRests DEF LoadInv
<1>5. EdgeRows'
  <2>1. /\ IsSkippable(fields) => NoHeader(edge_lines')
        /\ ~IsSkippable(fields) =>
                HasHeader(edge_lines') /\ DataLines(edge_lines') = {}
    BY <1>1, <1>2, HeaderComes
  <2>2. ~IsSkippable(fields) => StagedRows'
    <3>1. SUFFICES ASSUME ~IsSkippable(fields) PROVE StagedRows'
      OBVIOUS
    <3>2. PICK lineOf \in Bijection(DOMAIN staged', DataLines(edge_lines')) : TRUE
      BY <1>2, <2>1, <3>1, NoRowsStaged
    <3>3. DOMAIN staged' = {}
      BY <1>2
    <3>4. QED
      BY <3>2, <3>3 DEF StagedRows
  <2>3. QED
    BY <1>1, <2>1, <2>2 DEF EdgeRows
<1>6. LoadedIsUsable' /\ GraphIsWhatTheFilesSay' /\ FirstFaultIsReported'
  <2>1. CASE phase' = "failed" /\ failure'.why = "header"
    BY <2>1, LimitReported DEF Limits
  <2>2. CASE phase' \in {"edges_header", "edges"}
    BY <2>2, NothingYetNext
  <2>3. QED
    BY <1>1, <2>1, <2>2
<1>7. QED
  BY <1>3, <1>4, <1>5, <1>6 DEF LoadInv

\* A row of the edge file that is accepted is good, and one that is not is
\* at fault.
LEMMA EdgeErrorTells ==
    ASSUME LoadInv, phase = "edges", NEW line \in Lines,
           Longer(edge_lines, line, edge_lines'), node_lines' = node_lines,
           NEW number, number = Len(edge_lines) + 1
    PROVE  EdgeError(Content(line, number)) = "none" <=> GoodEdgeLine(number)'
<1> DEFINE fields == Content(line, number)
           upto == Len(node_lines) + 1
<1>1. Shown(edge_lines')[number] = fields
  BY LongerFile
<1>2. RowError(fields) = "none" <=> GoodFields(fields)
  BY DEF RowError, GoodFields
<1>3. Indexed /\ NodeRows /\ phase \in AfterNodeHeader
  BY DEF LoadInv, NodeRows, AfterNodeHeader, Phases
<1>4. /\ IdOf[fields[1]] \in DOMAIN index <=>
                NamesNode(fields[1], node_lines, upto)
      /\ IdOf[fields[2]] \in DOMAIN index <=>
                NamesNode(fields[2], node_lines, upto)
  BY <1>3, IndexedNames
<1>5. GoodEdgeLine(number)' <=>
            /\ GoodFields(fields)
            /\ fields[1] \in DOMAIN IdOf /\ fields[2] \in DOMAIN IdOf
            /\ IsFinite(fields[3]) /\ NumberOf[fields[3]] # Negative
            /\ NamesNode(fields[1], node_lines, upto)
            /\ NamesNode(fields[2], node_lines, upto)
  BY <1>1 DEF GoodEdgeLine
<1> HIDE DEF fields, upto
<1>6. EdgeError(fields) = "none" <=>
            /\ RowError(fields) = "none"
            /\ fields[1] \in DOMAIN IdOf /\ fields[2] \in DOMAIN IdOf
            /\ IsFinite(fields[3]) /\ NumberOf[fields[3]] # Negative
            /\ IdOf[fields[1]] \in DOMAIN index
            /\ IdOf[fields[2]] \in DOMAIN index
  BY DEF EdgeError
<1>7. QED
  BY <1>2, <1>4, <1>5, <1>6 DEF fields, upto

\* The builder has nothing to say against an arc between two known nodes,
\* save that it is one too many.
LEMMA ArcIsAccepted ==
    ASSUME LoadInv, phase = "edges", NEW fields,
           EdgeError(fields) = "none", AddEdge(fields),
           NEW n, n = Len(records),
           NEW arc, arc = [source |-> index[IdOf[fields[1]]],
                           target |-> index[IdOf[fields[2]]],
                           weight |-> NumberOf[fields[3]]]
    PROVE  /\ BuilderInv'
           /\ arc \in StagedArc(n) /\ IsArcOf(arc, fields)
           /\ \/ reply' = Answer("add_arc", "capacity") /\ UNCHANGED <<builder, graph>>
              \/ /\ reply'.error = "none"
                 /\ staged' = Append(staged, arc)
                 /\ UNCHANGED <<alive, consumed, coordinates, external_ids,
                                assigned, assigned_count, graph>>
<1> DEFINE s == index[IdOf[fields[1]]]
           t == index[IdOf[fields[2]]]
           w == NumberOf[fields[3]]
<1>1. /\ IsFinite(fields[3]) /\ w # Negative
      /\ IdOf[fields[1]] \in DOMAIN index /\ IdOf[fields[2]] \in DOMAIN index
  BY DEF EdgeError
<1>2. n \in 0 .. MaxNodes /\ MaxNodes \in Nat /\ Size = n
  BY BuilderFits DEF HoldsBuilder
<1>3. \A id \in DOMAIN index : index[id] \in 0 .. n - 1
  BY <1>2 DEF LoadInv, Indexed
<1>4. s \in 0 .. n - 1 /\ t \in 0 .. n - 1
  BY <1>1, <1>3
<1>5. w \in Weight /\ w # NonFinite
  BY <1>1, LinesAssumption DEF IsFinite
<1>6. AddArc(s, t, w)
  BY DEF AddEdge
<1>7. ~consumed
  BY DEF LoadInv, Building, HoldsBuilder
<1> HIDE DEF s, t, w
<1>8. BuilderInv'
  BY <1>2, <1>4, <1>5, <1>6, AddArcKeepsInv DEF LoadInv, Building
<1>9. AddArcError(s, t, w) \in {"none", "capacity"}
  BY <1>1, <1>2, <1>4, <1>5, <1>7 DEF AddArcError, w
<1>10. arc = [source |-> s, target |-> t, weight |-> w]
  BY DEF s, t, w
<1>11. arc \in StagedArc(n)
  BY <1>4, <1>5, <1>10 DEF StagedArc
<1>12. IsArcOf(arc, fields)
  BY <1>1 DEF IsArcOf
<1>13. \/ reply' = Answer("add_arc", "capacity") /\ UNCHANGED <<builder, graph>>
       \/ /\ reply'.error = "none"
          /\ staged' = Append(staged, arc)
          /\ UNCHANGED <<alive, consumed, coordinates, external_ids, assigned,
                         assigned_count, graph>>
  <2>1. CASE AddArcError(s, t, w) = "none"
    BY <1>6, <1>10, <2>1 DEF AddArc, Throws, Answer
  <2>2. CASE AddArcError(s, t, w) = "capacity"
    <3>1. Throws("add_arc", "capacity")
      BY <1>6, <2>2 DEF AddArc
    <3>2. QED
      BY <3>1 DEF Throws, Answer
  <2>3. QED
    BY <1>9, <2>1, <2>2
<1>14. QED
  BY <1>8, <1>11, <1>12, <1>13

LEMMA OneMoreRow ==
    ASSUME NEW m \in Nat, NEW D, NEW f \in Bijection(1 .. m, D),
           NEW x, x \notin D, NEW E, E = D \cup {x},
           NEW g, g = [i \in 1 .. m + 1 |-> IF i = m + 1 THEN x ELSE f[i]]
    PROVE  g \in Bijection(1 .. m + 1, E)
<1>1. /\ f \in [1 .. m -> D]
      /\ \A a, b \in 1 .. m : f[a] = f[b] => a = b
      /\ \A t \in D : \E s \in 1 .. m : f[s] = t
  BY Fun_BijectionProperties
<1>2. 1 .. m + 1 = (1 .. m) \cup {m + 1} /\ m + 1 \notin 1 .. m
  OBVIOUS
<1>3. /\ \A i \in 1 .. m : g[i] = f[i]
      /\ g[m + 1] = x
      /\ DOMAIN g = 1 .. m + 1
  BY <1>2
<1>4. g \in [1 .. m + 1 -> E]
  BY <1>1, <1>2, <1>3
<1>5. \A a, b \in 1 .. m + 1 : g[a] = g[b] => a = b
  BY <1>1, <1>2, <1>3
<1>6. \A t \in E : \E s \in 1 .. m + 1 : g[s] = t
  BY <1>1, <1>2, <1>3
<1>7. QED
  BY <1>4, <1>5, <1>6, Fun_IsBij

LEMMA EdgeRowsStay ==
    ASSUME LoadInv, phase = "edges", NEW line,
           Longer(edge_lines, line, edge_lines'), node_lines' = node_lines
    PROVE  /\ HasHeader(edge_lines')
           /\ \A i \in DataLines(edge_lines) :
                /\ GoodEdgeLine(i)'
                /\ i \in 1 .. Len(edge_lines)
                /\ Shown(edge_lines')[i] = Shown(edge_lines)[i]
           /\ \A i \in DataLines(node_lines) : GoodNodeLine(i)'
<1>1. /\ HasHeader(edge_lines)
      /\ \A i \in DataLines(edge_lines) : GoodEdgeLine(i)
      /\ \A i \in DataLines(node_lines) : GoodNodeLine(i)
  BY DEF LoadInv, NodeRows, EdgeRows, AfterNodeHeader, Phases
<1>2. HasHeader(edge_lines')
  BY <1>1, HeaderStays
<1>3. \A i \in DataLines(edge_lines) : GoodEdgeLine(i)'
  BY <1>1, GoodEdgeLinesStay
<1>4. \A i \in DataLines(edge_lines) :
        /\ i \in 1 .. Len(edge_lines)
        /\ Shown(edge_lines')[i] = Shown(edge_lines)[i]
  BY <1>1, LongerFile, DataLinesFacts
<1>5. \A i : GoodNodeLine(i)' <=> GoodNodeLine(i)
  BY DEF GoodNodeLine
<1>6. QED
  BY <1>1, <1>2, <1>3, <1>4, <1>5

LEMMA RowStaged ==
    ASSUME LoadInv, phase = "edges", NEW line,
           Longer(edge_lines, line, edge_lines'),
           UNCHANGED <<node_lines, index>>,
           NEW number, number = Len(edge_lines) + 1,
           DataLines(edge_lines') = DataLines(edge_lines) \cup {number},
           NEW n, NEW arc \in StagedArc(n), staged \in Seq(StagedArc(n)),
           staged' = Append(staged, arc),
           IsArcOf(arc, Shown(edge_lines')[number])
    PROVE  StagedRows'
<1> DEFINE m == Len(staged)
<1>1. /\ m \in Nat /\ DOMAIN staged = 1 .. m /\ DOMAIN staged' = 1 .. m + 1
      /\ staged'[m + 1] = arc
      /\ \A i \in 1 .. m : staged'[i] = staged[i]
  OBVIOUS
<1>2. PICK lineOf \in Bijection(1 .. m, DataLines(edge_lines)) :
        \A i \in 1 .. m : IsArcOf(staged[i], Shown(edge_lines)[lineOf[i]])
  BY <1>1 DEF LoadInv, EdgeRows, StagedRows
<1> HIDE DEF m
<1>3. number \notin DataLines(edge_lines)
  BY EdgeRowsStay, LongerFile
<1>4. PICK f : f = [i \in 1 .. m + 1 |-> IF i = m + 1 THEN number ELSE lineOf[i]]
  OBVIOUS
<1>5. f \in Bijection(1 .. m + 1, DataLines(edge_lines'))
  BY <1>1, <1>2, <1>3, <1>4, OneMoreRow
<1>6. index' = index
  OBVIOUS
<1>7. \A i \in 1 .. m :
        /\ f[i] = lineOf[i] /\ lineOf[i] \in DataLines(edge_lines)
  BY <1>1, <1>2, <1>4, Fun_BijectionProperties
<1>8. \A i \in 1 .. m + 1 : IsArcOf(staged'[i], Shown(edge_lines')[f[i]])
  <2>1. ASSUME NEW i \in 1 .. m
        PROVE  IsArcOf(staged'[i], Shown(edge_lines')[f[i]])
    <3>1. Shown(edge_lines')[lineOf[i]] = Shown(edge_lines)[lineOf[i]]
      BY <1>7, EdgeRowsStay
    <3>2. QED
      BY <1>1, <1>2, <1>7, <3>1
  <2>2. IsArcOf(staged'[m + 1], Shown(edge_lines')[f[m + 1]])
    BY <1>1, <1>4
  <2>3. \A i \in 1 .. m + 1 : i \in 1 .. m \/ i = m + 1
    BY <1>1
  <2>4. QED
    BY <2>1, <2>2, <2>3
<1>9. StagedRows' <=>
        \E of \in Bijection(DOMAIN staged', DataLines(edge_lines')) :
            \A i \in DOMAIN staged' :
                IsArcOf(staged'[i], Shown(edge_lines')[of[i]])
  BY <1>6 DEF StagedRows, IsArcOf
<1>10. QED
  <2>1. f \in Bijection(DOMAIN staged', DataLines(edge_lines'))
    BY <1>1, <1>5
  <2>2. \A i \in DOMAIN staged' : IsArcOf(staged'[i], Shown(edge_lines')[f[i]])
    BY <1>1, <1>8
  <2>3. QED
    BY <1>9, <2>1, <2>2, Zenon

LEMMA EdgeStep ==
    ASSUME LoadInv, NEW line \in Lines, ReadEdge(line)
    PROVE  LoadInv'
<1>0. PICK number, n : number = Len(edge_lines) + 1 /\ n = Len(records)
  OBVIOUS
<1> DEFINE fields == Content(line, number)
           error == EdgeError(fields)
           arc == [source |-> index[IdOf[fields[1]]],
                   target |-> index[IdOf[fields[2]]],
                   weight |-> NumberOf[fields[3]]]
<1>1. /\ phase = "edges" /\ edge_lines' = Append(edge_lines, line)
      /\ UNCHANGED <<node_lines, records, index>>
  BY DEF ReadEdge, DeliverEdgeLine
<1>2. \/ IsSkippable(fields) /\ UNCHANGED <<vars, phase, failure>>
      \/ /\ ~IsSkippable(fields) /\ error # "none" /\ phase' = "failed"
         /\ failure' = [file |-> "edges", line |-> number, why |-> error]
         /\ UNCHANGED vars
      \/ /\ ~IsSkippable(fields) /\ error = "none" /\ AddEdge(fields)
         /\ IF reply'.error = "none" THEN UNCHANGED <<phase, failure>>
            ELSE phase' = "failed" /\ failure'.why = reply'.error
  BY <1>0 DEF ReadEdge, Fail
<1>3. Longer(edge_lines, line, edge_lines') /\ edge_lines' \in Seq(Lines)
  BY <1>1, AppendIsLonger, LongerFile DEF LoadInv, Indexed
<1>4. Shown(edge_lines')[number] = fields
  BY <1>0, <1>3, LongerFile
<1>5. /\ IsSkippable(fields) => DataLines(edge_lines') = DataLines(edge_lines)
      /\ ~IsSkippable(fields) =>
            DataLines(edge_lines') = DataLines(edge_lines) \cup {number}
  BY <1>0, <1>1, <1>3, HeaderStays DEF LoadInv, EdgeRows
<1>6. Indexed' /\ NodeRows'
  BY <1>1, <1>2, <1>3, NodeFileRests DEF LoadInv, Indexed
<1>7. phase' \in {"edges", "failed"}
  BY <1>1, <1>2
<1> HIDE DEF fields
<1>8. CASE IsSkippable(fields) /\ UNCHANGED <<vars, phase, failure>>
  <2>1. Building'
    BY <1>1, <1>8, BuilderRests DEF LoadInv
  <2>2. /\ HasHeader(edge_lines')
        /\ \A i \in DataLines(edge_lines') : GoodEdgeLine(i)'
    BY <1>1, <1>3, <1>5, <1>8, EdgeRowsStay
  <2>3. StagedRows'
    <3>1. PICK of \in Bijection(DOMAIN staged, DataLines(edge_lines)) :
            \A i \in DOMAIN staged :
                IsArcOf(staged[i], Shown(edge_lines)[of[i]])
      BY <1>1 DEF LoadInv, EdgeRows, StagedRows
    <3>2. staged' = staged
      BY <1>8 DEF vars
    <3>3. \A i \in DOMAIN staged :
            IsArcOf(staged[i], Shown(edge_lines')[of[i]])
      <4>1. SUFFICES ASSUME NEW i \in DOMAIN staged
                     PROVE  Shown(edge_lines')[of[i]] = Shown(edge_lines)[of[i]]
        BY <3>1
      <4>2. of[i] \in DataLines(edge_lines)
        BY <3>1, Fun_BijectionProperties
      <4>3. QED
        BY <1>1, <1>3, <4>2, EdgeRowsStay
    <3>4. QED
      BY <1>1, <1>5, <1>8, <3>1, <3>2, <3>3 DEF StagedRows, IsArcOf
  <2>4. QED
    BY <1>1, <1>6, <1>8, <2>1, <2>2, <2>3, NothingYetNext DEF LoadInv, EdgeRows
<1>9. CASE /\ ~IsSkippable(fields) /\ error # "none" /\ phase' = "failed"
           /\ failure' = [file |-> "edges", line |-> number, why |-> error]
           /\ UNCHANGED vars
  <2>1. Building'
    BY <1>1, <1>9, BuilderRests DEF LoadInv
  <2>2. EdgeRows'
    BY <1>9 DEF EdgeRows
  <2>3. ~GoodEdgeLine(number)'
    BY <1>0, <1>1, <1>3, <1>9, EdgeErrorTells DEF fields
  <2>4. \A i \in DataLines(edge_lines') : i < number => GoodEdgeLine(i)'
    <3>1. number \in Nat
      BY <1>0 DEF LoadInv, Indexed
    <3>2. \A i \in DataLines(edge_lines') :
            i < number => i \in DataLines(edge_lines)
      BY <1>5, <1>9, <3>1
    <3>3. QED
      BY <1>1, <1>3, <3>2, EdgeRowsStay
  <2>5. \A i \in DataLines(node_lines') : GoodNodeLine(i)'
    BY <1>1, <1>3, EdgeRowsStay
  <2>6. phase' = "failed" /\ failure'.file = "edges" /\ failure'.line = number
    BY <1>9
  <2>7. FirstFaultIsReported' /\ GraphIsWhatTheFilesSay' /\ LoadedIsUsable'
    BY <2>3, <2>4, <2>5, <2>6
    DEF FirstFaultIsReported, GraphIsWhatTheFilesSay, LoadedIsUsable
  <2>8. QED
    BY <1>6, <2>1, <2>2, <2>7 DEF LoadInv
<1>10. CASE /\ ~IsSkippable(fields) /\ error = "none" /\ AddEdge(fields)
            /\ IF reply'.error = "none" THEN UNCHANGED <<phase, failure>>
               ELSE phase' = "failed" /\ failure'.why = reply'.error
  <2>1. /\ BuilderInv'
        /\ arc \in StagedArc(n) /\ IsArcOf(arc, fields)
        /\ \/ reply' = Answer("add_arc", "capacity") /\ UNCHANGED <<builder, graph>>
           \/ /\ reply'.error = "none"
              /\ staged' = Append(staged, arc)
              /\ UNCHANGED <<alive, consumed, coordinates, external_ids,
                             assigned, assigned_count, graph>>
    BY <1>0, <1>1, <1>10, ArcIsAccepted
  <2> HIDE DEF arc
  <2>2. CASE reply' = Answer("add_arc", "capacity") /\ UNCHANGED <<builder, graph>>
    <3>1. phase' = "failed" /\ failure'.why = "capacity"
      BY <1>10, <2>2 DEF Answer
    <3>2. Building'
      BY <2>1, <2>2, <3>1 DEF Building, HoldsBuilder
    <3>3. EdgeRows'
      BY <3>1 DEF EdgeRows
    <3>4. QED
      BY <1>6, <3>1, <3>2, <3>3, LimitReported DEF LoadInv, Limits
  <2>3. CASE /\ reply'.error = "none"
             /\ staged' = Append(staged, arc)
             /\ UNCHANGED <<alive, consumed, coordinates, external_ids,
                            assigned, assigned_count, graph>>
    <3>1. phase' = "edges"
      BY <1>1, <1>10, <2>3
    <3>2. staged \in Seq(StagedArc(n)) /\ staged' \in Seq(StagedArc(n))
      BY <1>0, <1>1, <2>1, <2>3 DEF LoadInv, Building, HoldsBuilder
    <3>3. Building'
      <4>1. /\ alive /\ ~consumed
            /\ coordinates \in [0 .. n - 1 -> Coord]
            /\ external_ids \in [0 .. n - 1 -> ExternalId]
            /\ assigned \in [0 .. n - 1 -> BOOLEAN]
            /\ assigned_count \in 0 .. n /\ assigned_count = n
            /\ \A i \in 0 .. n - 1 :
                /\ assigned[i] => i < assigned_count
                /\ i < assigned_count =>
                    /\ coordinates[i] = records[i + 1].coordinate
                    /\ external_ids[i] = records[i + 1].external_id
        BY <1>0, <1>1 DEF LoadInv, Building, HoldsBuilder
      <4>2. Len(records') = n /\ records' = records
        BY <1>0, <1>1
      <4>3. UNCHANGED <<alive, consumed, coordinates, external_ids, assigned,
                        assigned_count>>
        BY <2>3
      <4>4. BuilderInv' /\ reply'.error = "none"
        BY <2>1, <2>3
      <4>5. QED
        BY <3>1, <3>2, <4>1, <4>2, <4>3, <4>4 DEF Building
    <3>4. StagedRows'
      BY <1>0, <1>1, <1>3, <1>4, <1>5, <1>10, <2>1, <2>3, <3>2, RowStaged
    <3>5. EdgeRows'
      <4>1. GoodEdgeLine(number)'
        BY <1>0, <1>1, <1>3, <1>10, EdgeErrorTells DEF fields
      <4>2. /\ HasHeader(edge_lines')
            /\ \A i \in DataLines(edge_lines') : GoodEdgeLine(i)'
        BY <1>1, <1>3, <1>5, <1>10, <4>1, EdgeRowsStay
      <4>3. QED
        BY <3>1, <3>4, <4>2 DEF EdgeRows
    <3>6. QED
      BY <1>6, <3>1, <3>3, <3>5, NothingYetNext DEF LoadInv
  <2>4. QED
    BY <2>1, <2>2, <2>3
<1>11. QED
  BY <1>2, <1>8, <1>9, <1>10

LEMMA EndOfEdgesStep == LoadInv /\ EndOfEdges => LoadInv'
<1>1. SUFFICES ASSUME LoadInv, EndOfEdges PROVE LoadInv'
  OBVIOUS
<1>2. /\ phase \in {"edges_header", "edges"}
      /\ UNCHANGED <<vars, node_lines, edge_lines, records, index>>
      /\ \/ phase' = "failed" /\ failure'.why = "empty_file"
         \/ phase = "edges" /\ phase' = "build"
  BY <1>1 DEF EndOfEdges, NoMoreLines, Fail
<1>3. Indexed' /\ NodeRows'
  BY <1>1, <1>2, NodeFileRests DEF LoadInv, Indexed, AfterNodeHeader, Phases
<1>4. Building'
  BY <1>1, <1>2, BuilderRests DEF LoadInv
<1>5. CASE phase' = "failed" /\ failure'.why = "empty_file"
  <2>1. EdgeRows'
    BY <1>5 DEF EdgeRows
  <2>2. QED
    BY <1>3, <1>4, <1>5, <2>1, LimitReported DEF LoadInv, Limits
<1>6. CASE phase = "edges" /\ phase' = "build"
  <2>1. StagedRows'
    BY <1>1, <1>2, <1>6 DEF LoadInv, EdgeRows, StagedRows, IsArcOf, vars
  <2>2. \A i : GoodEdgeLine(i)' <=> GoodEdgeLine(i)
    BY <1>2 DEF GoodEdgeLine
  <2>3. EdgeRows'
    BY <1>1, <1>2, <1>6, <2>1, <2>2 DEF LoadInv, EdgeRows
  <2>4. QED
    BY <1>3, <1>4, <1>6, <2>3, NothingYetNext DEF LoadInv
<1>7. QED
  BY <1>2, <1>5, <1>6

-----------------------------------------------------------------------------
(***************************************************************************)
(* The step that builds the graph.  First the counting it needs: what is   *)
(* paired off is equal in number, and the rows of a file are numbered by   *)
(* the rows before them.                                                   *)
(***************************************************************************)
LEMMA PairedCount ==
    ASSUME NEW D, NEW E, IsFiniteSet(D), NEW f \in Bijection(D, E),
           NEW S \in SUBSET D, NEW T \in SUBSET E,
           \A k \in D : k \in S <=> f[k] \in T
    PROVE  Cardinality(S) = Cardinality(T)
<1>1. /\ f \in [D -> E]
      /\ \A a, b \in D : f[a] = f[b] => a = b
      /\ \A t \in E : \E s \in D : f[s] = t
  BY Fun_BijectionProperties
<1>2. PICK h : h = [k \in S |-> f[k]]
  OBVIOUS
<1>3. h \in [S -> T] /\ \A k \in S : h[k] = f[k]
  BY <1>1, <1>2
<1>4. \A a, b \in S : h[a] = h[b] => a = b
  BY <1>1, <1>3
<1>5. \A t \in T : \E s \in S : h[s] = t
  BY <1>1, <1>3
<1>6. h \in Bijection(S, T)
  BY <1>3, <1>4, <1>5, Fun_IsBij
<1>7. ExistsBijection(S, T) /\ IsFiniteSet(S)
  BY <1>6, Fun_ExistsBij, FS_Subset
<1>8. QED
  BY <1>7, FS_Bijection

LEMMA CountedImage ==
    ASSUME NEW S, NEW D, NEW h \in [S -> D], IsFiniteSet(S),
           \A i, j \in S : h[i] = h[j] => i = j,
           \A t \in D : \E i \in S : h[i] = t
    PROVE  IsFiniteSet(D) /\ Cardinality(D) = Cardinality(S)
<1>1. h \in Bijection(S, D)
  BY Fun_IsBij
<1>2. QED
  BY <1>1, Fun_ExistsBij, FS_Bijection

\* The n-th of a set of lines; and a sequence that lists the set in order.
RowAt(D, n) == CHOOSE i \in D : Cardinality({j \in D : j < i}) = n - 1

Lists(f, n, D) ==
    /\ n \in Nat
    /\ \A i \in 1 .. n : f[i] \in Nat
    /\ \A i, j \in 1 .. n : i < j => f[i] < f[j]
    /\ \A x : x \in D <=> \E i \in 1 .. n : x = f[i]

LEMMA NumberedRows ==
    ASSUME NEW f, NEW n, NEW D, Lists(f, n, D)
    PROVE  /\ IsFiniteSet(D) /\ Cardinality(D) = n
           /\ \A i \in 1 .. n : RowAt(D, i) = f[i]
<1>0. /\ n \in Nat
      /\ \A i \in 1 .. n : f[i] \in Nat
      /\ \A i, j \in 1 .. n : i < j => f[i] < f[j]
      /\ \A x : x \in D <=> \E i \in 1 .. n : x = f[i]
  BY DEF Lists
<1>1. \A i, j \in 1 .. n : /\ f[i] = f[j] => i = j
                           /\ f[i] < f[j] => i < j
  BY <1>0
<1>2. IsFiniteSet(D) /\ Cardinality(D) = n
  <2>1. PICK S : S = 1 .. n
    OBVIOUS
  <2>2. PICK h : h = [i \in S |-> f[i]]
    OBVIOUS
  <2>3. h \in [S -> D] /\ \A i \in S : h[i] = f[i]
    BY <1>0, <2>1, <2>2
  <2>4. \A i, j \in S : h[i] = h[j] => i = j
    BY <1>0, <1>1, <2>1, <2>3
  <2>5. \A t \in D : \E i \in S : h[i] = t
    BY <1>0, <2>1, <2>3
  <2>6. QED
    <3>1. IsFiniteSet(1 .. n) /\ Cardinality(1 .. n) = n
      BY <1>0, FS_Interval
    <3>2. IsFiniteSet(S) /\ Cardinality(S) = n
      BY <2>1, <3>1
    <3>3. QED
      BY <2>3, <2>4, <2>5, <3>2, CountedImage
<1>3. ASSUME NEW i \in 1 .. n
      PROVE  Cardinality({j \in D : j < f[i]}) = i - 1
  <2>1. i - 1 \in Nat /\ \A k \in 1 .. i - 1 : k \in 1 .. n /\ k < i
    BY <1>0
  <2>2. \A k \in 1 .. n : f[k] < f[i] <=> k \in 1 .. i - 1
    BY <1>0, <1>1, <2>1
  <2>3. PICK B : B = {j \in D : j < f[i]}
    OBVIOUS
  <2>4. \A x \in B : \E k \in 1 .. i - 1 : x = f[k]
    BY <1>0, <2>2, <2>3
  <2>5. Cardinality(B) = i - 1
    <3>1. PICK S : S = 1 .. i - 1
      OBVIOUS
    <3>2. PICK h : h = [k \in S |-> f[k]]
      OBVIOUS
    <3>3. h \in [S -> B] /\ \A k \in S : h[k] = f[k]
      <4>1. \A k \in S : f[k] \in B
        BY <1>0, <2>1, <2>2, <2>3, <3>1
      <4>2. QED
        BY <3>2, <4>1
    <3>4. \A k, l \in S : h[k] = h[l] => k = l
      BY <1>1, <2>1, <3>1, <3>3
    <3>5. \A t \in B : \E k \in S : h[k] = t
      BY <2>4, <3>1, <3>3
    <3>6. QED
      <4>1. IsFiniteSet(1 .. i - 1) /\ Cardinality(1 .. i - 1) = i - 1
        BY <1>0, <2>1, FS_Interval
      <4>2. IsFiniteSet(S) /\ Cardinality(S) = i - 1
        BY <3>1, <4>1
      <4>3. QED
        BY <3>3, <3>4, <3>5, <4>2, CountedImage
  <2>6. QED
    BY <2>3, <2>5
<1>4. ASSUME NEW i \in 1 .. n
      PROVE  RowAt(D, i) = f[i]
  <2>1. f[i] \in D /\ Cardinality({j \in D : j < f[i]}) = i - 1
    BY <1>0, <1>3
  <2>2. ASSUME NEW x \in D, Cardinality({j \in D : j < x}) = i - 1
        PROVE  x = f[i]
    <3>1. PICK k \in 1 .. n : x = f[k]
      BY <1>0, <2>2
    <3>2. k - 1 = i - 1
      BY <1>0, <1>3, <2>2, <3>1
    <3>3. QED
      BY <1>0, <3>1, <3>2
  <2>3. QED
    BY <2>1, <2>2 DEF RowAt
<1>5. QED
  BY <1>2, <1>4

LEMMA BuildSucceeds ==
    ASSUME LoadInv, phase = "build"
    PROVE  BuildError = "none"
<1>1. Size = Len(records)
  BY BuilderFits DEF HoldsBuilder
<1>2. ~consumed /\ assigned_count = Len(records)
  BY DEF LoadInv, Building, HoldsBuilder
<1>3. Len(staged) \in Nat /\ Len(staged) <= MaxArcs /\ MaxArcs \in Nat
  BY LimitAssumption, LenProperties
  DEF LoadInv, Building, BuilderInv, TypeOK, HoldsBuilder
<1>4. ~(Len(staged) > MaxArcs)
  BY <1>3
<1>5. QED
  BY <1>1, <1>2, <1>4 DEF BuildError

LEMMA IdsAreUnique ==
    ASSUME Indexed
    PROVE  \A i, j \in DOMAIN records :
                records[i].external_id = records[j].external_id => i = j
<1>1. \A i \in DOMAIN records : i \in Nat
  BY DEF Indexed
<1>2. \A i \in DOMAIN records : index[records[i].external_id] = i - 1
  BY DEF Indexed
<1>3. QED
  BY <1>1, <1>2

LEMMA IndexedIds ==
    ASSUME LoadInv, phase = "build", NEW n, n = Len(records),
           NEW id \in DOMAIN index
    PROVE  index[id] \in 0 .. n - 1 /\ external_ids[index[id]] = id
<1>1. n \in Nat /\ DOMAIN records = 1 .. n
  BY DEF LoadInv, Indexed
<1>2. PICK i \in 1 .. n : id = records[i].external_id /\ index[id] = i - 1
  BY <1>1 DEF LoadInv, Indexed
<1>3. i - 1 \in 0 .. n - 1 /\ i - 1 + 1 = i /\ i - 1 < n
  BY <1>1
<1>4. \A k \in 0 .. n - 1 :
        k < n => external_ids[k] = records[k + 1].external_id
  BY DEF LoadInv, Building, HoldsBuilder
<1>5. QED
  BY <1>2, <1>3, <1>4

LEMMA NodesSayTheFile ==
    ASSUME LoadInv, phase = "build", NEW n, n = Len(records)
    PROVE  /\ Cardinality(DataLines(node_lines)) = n
           /\ IsFiniteSet(DataLines(node_lines))
           /\ \A v \in 0 .. n - 1 :
                LET row == Shown(node_lines)[NthData(node_lines, v + 1)] IN
                /\ external_ids[v] = IdOf[row[1]]
                /\ coordinates[v] = CoordOf(row[2], row[3])
<1>1. /\ n \in Nat /\ DOMAIN records = 1 .. n
      /\ \A i \in 1 .. n : records[i].line \in Nat
  <2>1. records \in Seq(Record)
    BY DEF LoadInv, Indexed
  <2>2. n \in Nat /\ DOMAIN records = 1 .. n
    BY <2>1, LenProperties
  <2>3. \A i \in 1 .. n : records[i] \in Record
    BY <2>1, <2>2, ElementOfSeq
  <2>4. QED
    BY <2>2, <2>3 DEF Record
<1>2. /\ DataLines(node_lines) = {records[i].line : i \in 1 .. n}
      /\ \A i, j \in 1 .. n : i < j => records[i].line < records[j].line
      /\ \A i \in 1 .. n :
            IsRecordOf(records[i], Shown(node_lines)[records[i].line])
  BY <1>1 DEF LoadInv, NodeRows, AfterNodeHeader, Phases
<1>3. \A v \in 0 .. n - 1 :
        /\ external_ids[v] = records[v + 1].external_id
        /\ coordinates[v] = records[v + 1].coordinate
  <2>1. /\ assigned_count = n
        /\ \A i \in 0 .. n - 1 : i < assigned_count =>
                /\ coordinates[i] = records[i + 1].coordinate
                /\ external_ids[i] = records[i + 1].external_id
    BY DEF LoadInv, Building, HoldsBuilder
  <2>2. QED
    BY <1>1, <2>1
<1>4. PICK D : D = DataLines(node_lines)
  OBVIOUS
<1>5. PICK f : f = [i \in 1 .. n |-> records[i].line]
  OBVIOUS
<1>6. \A i \in 1 .. n : f[i] = records[i].line
  BY <1>5
<1>7. \A x : x \in D <=> \E i \in 1 .. n : x = f[i]
  BY <1>2, <1>4, <1>6
<1>8. /\ \A i \in 1 .. n : f[i] \in Nat
      /\ \A i, j \in 1 .. n : i < j => f[i] < f[j]
  BY <1>1, <1>2, <1>6
<1>9. /\ IsFiniteSet(D) /\ Cardinality(D) = n
      /\ \A i \in 1 .. n : RowAt(D, i) = f[i]
  <2>1. Lists(f, n, D)
    BY <1>1, <1>7, <1>8 DEF Lists
  <2>2. QED
    BY <2>1, NumberedRows
<1>10. ASSUME NEW v \in 0 .. n - 1
       PROVE  NthData(node_lines, v + 1) = f[v + 1]
  <2>1. v + 1 \in 1 .. n
    BY <1>1
  <2>2. NthData(node_lines, v + 1) = RowAt(DataLines(node_lines), v + 1)
    BY DEF NthData, RowAt
  <2>3. QED
    BY <1>4, <1>9, <2>1, <2>2
<1>11. ASSUME NEW v \in 0 .. n - 1
       PROVE  /\ external_ids[v] =
                    IdOf[Shown(node_lines)[NthData(node_lines, v + 1)][1]]
              /\ coordinates[v] =
                    CoordOf(Shown(node_lines)[NthData(node_lines, v + 1)][2],
                            Shown(node_lines)[NthData(node_lines, v + 1)][3])
  <2>1. v + 1 \in 1 .. n
    BY <1>1
  <2>2. NthData(node_lines, v + 1) = records[v + 1].line
    BY <1>6, <1>10, <2>1
  <2>3. IsRecordOf(records[v + 1], Shown(node_lines)[records[v + 1].line])
    BY <1>2, <2>1
  <2>4. QED
    BY <1>3, <2>2, <2>3 DEF IsRecordOf
<1>12. QED
  BY <1>4, <1>9, <1>11

\* The arc array pairs off with the rows of the edge file: the sort pairs it
\* with the staged arcs, and those came from the rows.
LEMMA ArcsPairOff ==
    ASSUME LoadInv, phase = "build", NEW n, n = Len(records),
           NEW p, SortedBy(p, staged),
           NEW sorted, sorted = Reordered(staged, p),
           NEW m, m = Len(staged), NEW K, K = 0 .. m - 1
    PROVE  \E of \in Bijection(K, DataLines(edge_lines)) :
                \A k \in K :
                    IsArcOf(sorted[k + 1], Shown(edge_lines)[of[k]])
<1>1. n \in 0 .. MaxNodes /\ staged \in Seq(StagedArc(n))
  BY BuilderFits DEF LoadInv, Building, HoldsBuilder
<1>2. /\ m \in Nat /\ DOMAIN staged = 1 .. m
      /\ \A i \in 1 .. m : sorted[i] = staged[p[i]]
  BY <1>1, ReorderedType
<1>3. PICK lineOf \in Bijection(1 .. m, DataLines(edge_lines)) :
        \A i \in 1 .. m : IsArcOf(staged[i], Shown(edge_lines)[lineOf[i]])
  BY <1>2 DEF LoadInv, EdgeRows, StagedRows
<1>4. PICK E : E = DataLines(edge_lines)
  OBVIOUS
<1>5. /\ lineOf \in [1 .. m -> E]
      /\ \A a, b \in 1 .. m : lineOf[a] = lineOf[b] => a = b
      /\ \A t \in E : \E i \in 1 .. m : lineOf[i] = t
  BY <1>3, <1>4, Fun_BijectionProperties
<1>6. PICK I : I = DOMAIN staged
  OBVIOUS
<1>7. /\ p \in [1 .. m -> 1 .. m]
      /\ \A a, b \in 1 .. m : p[a] = p[b] => a = b
      /\ \A t \in 1 .. m : \E i \in 1 .. m : p[i] = t
  <2>1. p \in Bijection(I, I)
    BY <1>6 DEF SortedBy
  <2>2. /\ p \in [I -> I]
        /\ \A a, b \in I : p[a] = p[b] => a = b
        /\ \A t \in I : \E i \in I : p[i] = t
    BY <2>1, Fun_BijectionProperties
  <2>3. I = 1 .. m
    BY <1>2, <1>6
  <2>4. QED
    BY <2>2, <2>3
<1>8. /\ \A k \in K : k + 1 \in 1 .. m /\ k \in Int
      /\ \A i \in 1 .. m : i - 1 \in K /\ i - 1 + 1 = i
  BY <1>2
<1>9. PICK f : f = [k \in K |-> lineOf[p[k + 1]]]
  OBVIOUS
<1>10. f \in [K -> E] /\ \A k \in K : f[k] = lineOf[p[k + 1]]
  BY <1>5, <1>7, <1>8, <1>9
<1>11. \A a, b \in K : f[a] = f[b] => a = b
  <2>1. SUFFICES ASSUME NEW a \in K, NEW b \in K, f[a] = f[b] PROVE a = b
    OBVIOUS
  <2>2. p[a + 1] = p[b + 1]
    <3>1. a + 1 \in 1 .. m /\ b + 1 \in 1 .. m
      BY <1>8
    <3>2. p[a + 1] \in 1 .. m /\ p[b + 1] \in 1 .. m
      BY <1>7, <3>1
    <3>3. lineOf[p[a + 1]] = lineOf[p[b + 1]]
      BY <1>10, <2>1
    <3>4. QED
      BY <1>5, <3>2, <3>3
  <2>3. a + 1 = b + 1
    BY <1>7, <1>8, <2>2
  <2>4. QED
    BY <1>8, <2>3
<1>12. \A t \in E : \E k \in K : f[k] = t
  <2>1. SUFFICES ASSUME NEW t \in E PROVE \E k \in K : f[k] = t
    OBVIOUS
  <2>2. PICK i \in 1 .. m : lineOf[i] = t
    BY <1>5
  <2>3. PICK j \in 1 .. m : p[j] = i
    BY <1>7
  <2>4. j - 1 \in K /\ f[j - 1] = t
    BY <1>8, <1>10, <2>2, <2>3
  <2>5. QED
    BY <2>4
<1>13. f \in Bijection(K, E)
  BY <1>10, <1>11, <1>12, Fun_IsBij
<1>14. ASSUME NEW k \in K
       PROVE  IsArcOf(sorted[k + 1], Shown(edge_lines)[f[k]])
  <2>1. k + 1 \in 1 .. m /\ p[k + 1] \in 1 .. m
    BY <1>7, <1>8
  <2>2. sorted[k + 1] = staged[p[k + 1]]
    BY <1>2, <2>1
  <2>3. QED
    BY <1>3, <1>10, <2>1, <2>2
<1>15. QED
  BY <1>4, <1>13, <1>14

\* The arcs and the rows from one identifier to another with one weight.
ArcsBetween(g, s, t, w) ==
    {k \in Arcs(g) : \E v \in Nodes(g) :
        /\ k \in ArcsFrom(g, v)
        /\ g.external_id[v] = s
        /\ g.external_id[g.arc[k].target] = t
        /\ g.arc[k].weight = w}

RowsSaying(lines, s, t, w) ==
    {i \in DataLines(lines) :
        LET row == Shown(lines)[i] IN
        IdOf[row[1]] = s /\ IdOf[row[2]] = t /\ NumberOf[row[3]] = w}

LEMMA ArcsSayTheFile ==
    ASSUME LoadInv, phase = "build", NEW n, n = Len(records),
           NEW p, SortedBy(p, staged),
           NEW sorted, sorted = Reordered(staged, p),
           NEW g, BuiltFrom(g, n, staged, sorted),
           NEW s, NEW t, NEW w
    PROVE  Cardinality(ArcsBetween(g, s, t, w))
           = Cardinality(RowsSaying(edge_lines, s, t, w))
<1>1. /\ n \in 0 .. MaxNodes /\ n \in Nat /\ staged \in Seq(StagedArc(n))
  BY BuilderFits DEF LoadInv, Building, HoldsBuilder
<1>2. PICK m, K : m = Len(staged) /\ K = 0 .. m - 1
  OBVIOUS
<1>3. m \in Nat /\ sorted \in [1 .. m -> StagedArc(n)]
  BY <1>1, <1>2, ReorderedType
<1>4. Arcs(g) = K /\ Nodes(g) = 0 .. n - 1 /\ g.external_id = external_ids
  BY <1>2 DEF BuiltFrom, NewGraph, Arcs, Nodes
<1>5. PICK of \in Bijection(K, DataLines(edge_lines)) :
        \A k \in K : IsArcOf(sorted[k + 1], Shown(edge_lines)[of[k]])
  BY <1>2, ArcsPairOff
<1> DEFINE row(k) == Shown(edge_lines)[of[k]]
           IsOne(k) == \E v \in 0 .. n - 1 :
                /\ k \in ArcsFrom(g, v)
                /\ external_ids[v] = s
                /\ external_ids[g.arc[k].target] = t
                /\ g.arc[k].weight = w
           Says(i) == /\ IdOf[Shown(edge_lines)[i][1]] = s
                      /\ IdOf[Shown(edge_lines)[i][2]] = t
                      /\ NumberOf[Shown(edge_lines)[i][3]] = w
<1>6. ASSUME NEW k \in K PROVE IsOne(k) <=> Says(of[k])
  <2>1. PICK a : a = sorted[k + 1]
    OBVIOUS
  <2>2. /\ k + 1 \in 1 .. m /\ a \in StagedArc(n)
        /\ g.arc[k].target = a.target /\ g.arc[k].weight = a.weight
        /\ \A v \in 0 .. n - 1 : k \in ArcsFrom(g, v) <=> a.source = v
    <3>1. k \in 0 .. Len(staged) - 1 /\ k + 1 \in 1 .. m
      BY <1>2, <1>3
    <3>2. a \in StagedArc(n)
      BY <1>3, <2>1, <3>1
    <3>3. a.source \in 0 .. n - 1
      BY <1>1, <3>2, StagedArcFacts
    <3>4. ASSUME NEW v \in 0 .. n - 1
          PROVE  /\ g.arc[k] = [target |-> a.target, weight |-> a.weight]
                 /\ k \in ArcsFrom(g, v) <=> a.source = v
      BY <1>1, <2>1, <3>1, BuiltArcs
    <3>5. QED
      BY <3>1, <3>2, <3>3, <3>4
  <2>3. a.source \in 0 .. n - 1
    BY <1>1, <2>2, StagedArcFacts
  <2>4. IsArcOf(a, row(k))
    BY <1>5, <2>1
  <2>5. /\ IdOf[row(k)[1]] \in DOMAIN index /\ IdOf[row(k)[2]] \in DOMAIN index
        /\ a.source = index[IdOf[row(k)[1]]] /\ a.target = index[IdOf[row(k)[2]]]
        /\ a.weight = NumberOf[row(k)[3]]
    BY <2>4 DEF IsArcOf
  <2>6. /\ external_ids[a.source] = IdOf[row(k)[1]]
        /\ external_ids[a.target] = IdOf[row(k)[2]]
    BY <2>5, IndexedIds
  <2>7. IsOne(k) <=> /\ external_ids[a.source] = s
                     /\ external_ids[a.target] = t
                     /\ a.weight = w
    BY <2>2, <2>3
  <2>8. QED
    BY <2>5, <2>6, <2>7
<1>7. PICK S, T : /\ S = {k \in K : IsOne(k)}
                  /\ T = {i \in DataLines(edge_lines) : Says(i)}
  OBVIOUS
<1>8. Cardinality(S) = Cardinality(T)
  <2>1. IsFiniteSet(K)
    BY <1>2, <1>3, FS_Interval
  <2>2. \A k \in K : of[k] \in DataLines(edge_lines)
    BY <1>5, Fun_BijectionProperties
  <2>3. \A k \in K : k \in S <=> of[k] \in T
    BY <1>6, <1>7, <2>2
  <2>4. S \in SUBSET K /\ T \in SUBSET DataLines(edge_lines)
    BY <1>7
  <2> HIDE DEF IsOne, Says
  <2>5. QED
    BY <1>5, <2>1, <2>3, <2>4, PairedCount
<1>9. QED
  BY <1>4, <1>7, <1>8 DEF ArcsBetween, RowsSaying

LEMMA BuildGraphStep == LoadInv /\ BuildGraph => LoadInv'
<1>1. SUFFICES ASSUME LoadInv, BuildGraph PROVE LoadInv'
  OBVIOUS
<1>2. phase = "build" /\ BuildError = "none"
  BY <1>1, BuildSucceeds DEF BuildGraph
<1>3. PICK n : n = Len(records)
  OBVIOUS
<1>4. /\ n \in 0 .. MaxNodes /\ Size = n
      /\ coordinates \in [0 .. n - 1 -> Coord]
      /\ external_ids \in [0 .. n - 1 -> ExternalId]
      /\ staged \in Seq(StagedArc(n)) /\ Len(staged) <= MaxArcs
  BY <1>1, <1>2, <1>3, BuilderFits
  DEF LoadInv, Building, HoldsBuilder, BuilderInv, TypeOK
<1>5. PICK p \in Orders(staged) :
        /\ SortedBy(p, staged)
        /\ graph' = NewGraph(n, coordinates, external_ids,
                             RowOffsets(Reordered(staged, p), n),
                             Len(staged), ArcArray(Reordered(staged, p)))
  BY <1>1, <1>2, <1>4 DEF BuildGraph, Build
<1>6. PICK g, sorted : g = graph' /\ sorted = Reordered(staged, p)
  OBVIOUS
<1>7. BuiltFrom(g, n, staged, sorted)
  BY <1>5, <1>6 DEF BuiltFrom
<1>8. /\ g.node_count = n /\ Nodes(g) = 0 .. n - 1
      /\ g.external_id = external_ids /\ g.coordinate = coordinates
  BY <1>7 DEF BuiltFrom, NewGraph, Nodes
<1>9. /\ phase' = "loaded" /\ reply'.error = "none"
      /\ UNCHANGED <<node_lines, edge_lines, records, index>>
  BY <1>1, <1>2 DEF BuildGraph, Build, Answer, Throws
<1>10. IsGraph(g)
  <2>1. IsCsr(g)
    BY <1>4, <1>5, <1>6, <1>7, BuiltIsCsr
  <2>2. IsCanonical(g)
    BY <1>4, <1>5, <1>6, <1>7, <2>1, BuiltIsCanonical
  <2>3. ReportIsRight(g)
    BY <1>7 DEF BuiltFrom, NewGraph, ReportIsRight
  <2>4. QED
    BY <2>1, <2>2, <2>3 DEF IsGraph
<1>11. \A u, v \in Nodes(g) : g.external_id[u] = g.external_id[v] => u = v
  <2>1. /\ n \in Nat /\ DOMAIN records = 1 .. n /\ assigned_count = n
        /\ \A i \in 0 .. n - 1 :
            i < assigned_count => external_ids[i] = records[i + 1].external_id
    BY <1>1, <1>2, <1>3 DEF LoadInv, Indexed, Building, HoldsBuilder
  <2>2. \A i \in 0 .. n - 1 :
            i + 1 \in 1 .. n /\ external_ids[i] = records[i + 1].external_id
    BY <2>1
  <2>3. SUFFICES ASSUME NEW u \in 0 .. n - 1, NEW v \in 0 .. n - 1,
                        external_ids[u] = external_ids[v]
                 PROVE  u = v
    BY <1>8
  <2>4. u + 1 = v + 1
    BY <1>1, <2>1, <2>2, <2>3, IdsAreUnique DEF LoadInv
  <2>5. QED
    BY <2>1, <2>4
<1>12. Indexed' /\ NodeRows'
  BY <1>1, <1>2, <1>9, NodeFileRests
  DEF LoadInv, Indexed, AfterNodeHeader, Phases
<1>13. Building'
  <2>1. BuilderInv'
    BY <1>1, BuildKeepsInv DEF LoadInv, Building, BuildGraph
  <2>2. QED
    BY <1>9, <2>1 DEF Building, HoldsBuilder
<1>14. /\ \A i : GoodEdgeLine(i)' <=> GoodEdgeLine(i)
       /\ \A i : GoodNodeLine(i)' <=> GoodNodeLine(i)
  BY <1>9 DEF GoodEdgeLine, GoodNodeLine
<1>15. EdgeRows'
  BY <1>1, <1>2, <1>9, <1>14 DEF LoadInv, EdgeRows
<1>16. FirstFaultIsReported'
  BY <1>9, <1>12, <1>15
  DEF FirstFaultIsReported, NodeRows, EdgeRows, AfterNodeHeader, Phases
<1>17. LoadedIsUsable'
  BY <1>6, <1>10, <1>11 DEF LoadedIsUsable
<1>18. GraphIsWhatTheFilesSay'
  <2>1. /\ g.node_count = Cardinality(DataLines(node_lines))
        /\ \A v \in Nodes(g) :
            LET row == Shown(node_lines)[NthData(node_lines, v + 1)] IN
            /\ g.external_id[v] = IdOf[row[1]]
            /\ g.coordinate[v] = CoordOf(row[2], row[3])
    BY <1>1, <1>2, <1>3, <1>8, NodesSayTheFile
  <2>2. ASSUME NEW s \in ExternalId, NEW t \in ExternalId, NEW w \in Weight
        PROVE  Cardinality(ArcsBetween(g, s, t, w))
               = Cardinality(RowsSaying(edge_lines, s, t, w))
    BY <1>1, <1>2, <1>3, <1>5, <1>6, <1>7, ArcsSayTheFile
  <2>3. QED
    BY <1>6, <1>9, <1>10, <2>1, <2>2
    DEF GraphIsWhatTheFilesSay, ArcsBetween, RowsSaying
<1>19. QED
  BY <1>12, <1>13, <1>15, <1>16, <1>17, <1>18 DEF LoadInv

-----------------------------------------------------------------------------
(***************************************************************************)
(* The invariant and what it says.                                         *)
(***************************************************************************)
LEMMA NextLoad == LoadInv /\ [LoadNext]_<<vars, loaderVars>> => LoadInv'
<1>1. CASE UNCHANGED <<vars, loaderVars>>
  <2>1. ASSUME LoadInv PROVE LoadInv'
    <3>1. UNCHANGED <<vars, node_lines, edge_lines, records, index>>
          /\ phase' = phase /\ failure' = failure /\ graph' = graph
      BY <1>1 DEF vars, loaderVars
    <3>2. Indexed' /\ NodeRows'
      BY <2>1, <3>1, NodeFileRests DEF LoadInv, Indexed
    <3>3. Building'
      BY <2>1, <3>1, BuilderRests DEF LoadInv
    <3>4. /\ \A i : GoodEdgeLine(i)' <=> GoodEdgeLine(i)
          /\ \A i : GoodNodeLine(i)' <=> GoodNodeLine(i)
      BY <3>1 DEF GoodEdgeLine, GoodNodeLine
    <3>5. StagedRows' <=> StagedRows
      BY <3>1 DEF StagedRows, IsArcOf, vars
    <3>6. EdgeRows'
      BY <2>1, <3>1, <3>4, <3>5 DEF LoadInv, EdgeRows
    <3>7. LoadedIsUsable' /\ GraphIsWhatTheFilesSay'
      BY <2>1, <3>1 DEF LoadInv, LoadedIsUsable, GraphIsWhatTheFilesSay
    <3>8. FirstFaultIsReported'
      BY <2>1, <3>1, <3>4 DEF LoadInv, FirstFaultIsReported
    <3>9. QED
      BY <3>2, <3>3, <3>6, <3>7, <3>8 DEF LoadInv
  <2>2. QED
    BY <2>1
<1>2. ASSUME LoadInv, NEW line \in Lines,
             \/ ReadNodeHeader(line) \/ ReadNode(line)
             \/ ReadEdgeHeader(line) \/ ReadEdge(line)
      PROVE  LoadInv'
  BY <1>2, NodeHeaderStep, NodeStep, EdgeHeaderStep, EdgeStep
<1>3. QED
  BY <1>1, <1>2, OpenStep, EndOfNodesStep, EndOfEdgesStep, MakeBuilderStep,
     PlaceNodeStep, AllPlacedStep, BuildGraphStep
  DEF LoadNext

(***************************************************************************)
(* While load_graph runs, its records are the rows read so far, its index  *)
(* finds exactly their identifiers, the builder holds the first            *)
(* assigned_count_ of them, and the staged arcs pair off with the rows of  *)
(* the edge file.                                                          *)
(***************************************************************************)
THEOREM LoadInvariant == LoadSpec => []LoadInv
<1>1. LoadInit => LoadInv
  BY InitLoad
<1>2. LoadInv /\ [LoadNext]_<<vars, loaderVars>> => LoadInv'
  BY NextLoad
<1>3. QED
  BY <1>1, <1>2, PTL DEF LoadSpec

(***************************************************************************)
(* The variables of load_graph and of its builder keep their types, each   *)
(* record has its line, and the index has one entry for each.              *)
(***************************************************************************)
THEOREM LoaderTypeCorrect == LoadSpec => []LoaderTypeOK
<1>1. ASSUME LoadInv PROVE LoaderTypeOK
  <2>1. TypeOK
    BY <1>1 DEF LoadInv, Building, BuilderInv
  <2>2. records \in Seq(Record) /\ Indexed
    BY <1>1 DEF LoadInv, Indexed
  <2>3. PICK n : n = Len(records)
    OBVIOUS
  <2>4. /\ n \in Nat /\ DOMAIN records = 1 .. n
        /\ \A i \in 1 .. n : records[i] \in Record
    BY <2>2, <2>3, LenProperties, ElementOfSeq
  <2>5. \A i \in 1 .. n : records[i].coordinate \in Coord
    BY <2>4 DEF Record
  <2>6. Cardinality(DOMAIN index) = n
    <3>1. PICK S, D : S = 1 .. n /\ D = DOMAIN index
      OBVIOUS
    <3>2. PICK h : h = [i \in S |-> records[i].external_id]
      OBVIOUS
    <3>3. \A x : x \in D <=> \E i \in S : x = records[i].external_id
      BY <2>2, <2>4, <3>1 DEF Indexed
    <3>4. h \in [S -> D] /\ \A i \in S : h[i] = records[i].external_id
      BY <3>2, <3>3
    <3>5. \A i, j \in S : h[i] = h[j] => i = j
      BY <2>2, <2>4, <3>1, <3>4, IdsAreUnique
    <3>6. \A t \in D : \E i \in S : h[i] = t
      BY <3>3, <3>4
    <3>7. IsFiniteSet(1 .. n) /\ Cardinality(1 .. n) = n
      BY <2>4, FS_Interval
    <3>8. IsFiniteSet(S) /\ Cardinality(S) = n
      BY <3>1, <3>7
    <3>9. Cardinality(D) = n
      BY <3>4, <3>5, <3>6, <3>8, CountedImage
    <3>10. QED
      BY <3>1, <3>9
  <2>7. QED
    BY <2>1, <2>2, <2>3, <2>4, <2>5, <2>6 DEF LoaderTypeOK, Indexed, Phases
<1>2. QED
  BY <1>1, LoadInvariant, PTL

(***************************************************************************)
(* The builder refuses nothing that load_graph hands it, save the arc that *)
(* is one too many: its constructor, set_node and build() never throw, and *)
(* the one refusal comes from the call inside the try block of read_edges. *)
(***************************************************************************)
THEOREM BuilderIsNeverMisused == LoadSpec => []BuilderNeverObjects
<1>1. LoadInv => BuilderNeverObjects
  BY DEF LoadInv, Building, BuilderNeverObjects
<1>2. QED
  BY <1>1, LoadInvariant, PTL

(***************************************************************************)
(* "The first problem encountered aborts the load": a file with a fault    *)
(* never loads, and the line that a failure names is the first at fault.   *)
(***************************************************************************)
THEOREM FirstFaultComesFirst == LoadSpec => []FirstFaultIsReported
<1>1. LoadInv => FirstFaultIsReported
  BY DEF LoadInv
<1>2. QED
  BY <1>1, LoadInvariant, PTL

(***************************************************************************)
(* A loaded graph says what the files say: its nodes are the rows of the   *)
(* node file in their order, and between any two identifiers it has as many*)
(* arcs of a weight as there are rows that say so.                         *)
(***************************************************************************)
THEOREM LoadedGraphSaysTheFiles == LoadSpec => []GraphIsWhatTheFilesSay
<1>1. LoadInv => GraphIsWhatTheFilesSay
  BY DEF LoadInv
<1>2. QED
  BY <1>1, LoadInvariant, PTL

(***************************************************************************)
(* What load_graph returns is a graph with no identifier in it twice: what *)
(* the assumptions of Search, Benchmark and CommandLine ask of the graphs  *)
(* they are given.                                                         *)
(***************************************************************************)
THEOREM LoadedGraphsAreUsable == LoadSpec => []LoadedIsUsable
<1>1. LoadInv => LoadedIsUsable
  BY DEF LoadInv
<1>2. QED
  BY <1>1, LoadInvariant, PTL
=============================================================================
