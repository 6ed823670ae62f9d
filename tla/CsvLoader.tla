----------------------------- MODULE CsvLoader ------------------------------
(***************************************************************************)
(* load_graph (csv.cpp): reads the node file, then the edge file, line by  *)
(* line, checks every line, and drives a GraphBuilder of its own.          *)
(*                                                                         *)
(* A file is whatever the stream delivers: any line, the end of the input, *)
(* or a failed read.  Lines come trimmed and split at the commas, without  *)
(* their CR; a token is one field.                                         *)
(***************************************************************************)
EXTENDS GraphBuilder

CONSTANTS Lines,         \* the lines a file may hold
          MaxLines,      \* bound on the lines of one file
          IdOf,          \* from_chars to uint64: the tokens it accepts, to ids
          NumberOf,      \* from_chars to double: tokens to weights
          CoordOf(_, _)  \* two number tokens to the point they name

ASSUME LinesAssumption ==
    /\ \A line \in Lines : line.bom \in BOOLEAN /\ line.fields # <<>>
    /\ \A token \in DOMAIN IdOf : IdOf[token] \in ExternalId
    /\ \A token \in DOMAIN NumberOf :
            NumberOf[token] \in Weight \cup {NonFinite, Negative}
    /\ \A x, y \in DOMAIN NumberOf :
        NonFinite \notin {NumberOf[x], NumberOf[y]} => CoordOf(x, y) \in Coord

VARIABLES phase,        \* where load_graph is
          node_lines,   \* what the node stream has delivered
          edge_lines,   \* what the edge stream has delivered
          read_failed,  \* a stream went bad, for reasons of its own
          records,      \* NodeRecord, in file order
          index,        \* external id to dense index
          failure       \* GraphLoadError: the file, the line, the reason

loaderVars == <<phase, node_lines, edge_lines, read_failed, records, index,
                failure>>

NoFailure == [file |-> "none", line |-> 0, why |-> "none"]

LoadInit ==
    /\ Init
    /\ phase = "open"
    /\ node_lines = <<>> /\ edge_lines = <<>>
    /\ read_failed = FALSE
    /\ records = <<>>
    /\ index = [id \in {} |-> 0]
    /\ failure = NoFailure

Fail(file, line, why) ==
    /\ phase' = "failed"
    /\ failure' = [file |-> file, line |-> line, why |-> why]

\* load_graph(paths): both files are opened before either is read.
Open ==
    /\ phase = "open"
    /\ \/ \E file \in {"nodes", "edges"} : Fail(file, 0, "cannot_open")
       \/ phase' = "nodes_header" /\ UNCHANGED failure
    /\ UNCHANGED <<vars, node_lines, edge_lines, read_failed, records, index>>

-----------------------------------------------------------------------------
(***************************************************************************)
(* Lines.  A byte-order mark is taken off line 1 only; anywhere else it is *)
(* part of the first field, which then is no id, no word of a header and no*)
(* comment.                                                                *)
(***************************************************************************)
Garbled == "junk"

Content(line, number) ==
    IF line.bom /\ number # 1
    THEN [line.fields EXCEPT ![1] = Garbled]
    ELSE line.fields

\* Blank, or a comment.
IsSkippable(fields) == fields = <<"">> \/ fields[1] = "#"

NodeHeader == <<"id", "x", "y">>
EdgeHeader == <<"source", "target", "weight">>

IsFinite(token) == token \in DOMAIN NumberOf /\ NumberOf[token] # NonFinite

RowError(fields) ==
    IF Len(fields) # 3 THEN "field_count"
    ELSE IF \E i \in 1 .. 3 : fields[i] = "" THEN "empty_field"
    ELSE "none"

\* The stream delivers a line of the node file, or of the edge file.
DeliverNodeLine(line) ==
    /\ Len(node_lines) < MaxLines
    /\ node_lines' = Append(node_lines, line)
    /\ UNCHANGED <<edge_lines, read_failed>>

DeliverEdgeLine(line) ==
    /\ Len(edge_lines) < MaxLines
    /\ edge_lines' = Append(edge_lines, line)
    /\ UNCHANGED <<node_lines, read_failed>>

\* getline is false: at the end of the file, and after a failed read, which
\* read_line does not tell apart.
NoMoreLines ==
    /\ read_failed' \in {read_failed, TRUE}
    /\ UNCHANGED <<node_lines, edge_lines>>

-----------------------------------------------------------------------------
(***************************************************************************)
(* read_nodes.                                                             *)
(***************************************************************************)
ReadNodeHeader(line) ==
    LET number == Len(node_lines) + 1
        fields == Content(line, number)
    IN  /\ phase = "nodes_header"
        /\ DeliverNodeLine(line)
        /\ \/ IsSkippable(fields) /\ UNCHANGED <<phase, failure>>
           \/ ~IsSkippable(fields) /\ fields = NodeHeader
                /\ phase' = "nodes" /\ UNCHANGED failure
           \/ ~IsSkippable(fields) /\ fields # NodeHeader
                /\ Fail("nodes", number, "header")
        /\ UNCHANGED <<vars, records, index>>

Bug_DuplicateByToken(fields) ==
    IF RowError(fields) # "none" THEN RowError(fields)
    ELSE IF fields[1] \notin DOMAIN IdOf THEN "id"
    ELSE IF ~IsFinite(fields[2]) \/ ~IsFinite(fields[3]) THEN "coordinate"
    ELSE IF Len(records) >= MaxNodes THEN "too_many_nodes"
    ELSE IF \E i \in DOMAIN node_lines : node_lines[i].fields[1] = fields[1]
         THEN "duplicate"
    ELSE "none"

Bug_NodesUnlimited(fields) ==
    IF RowError(fields) # "none" THEN RowError(fields)
    ELSE IF fields[1] \notin DOMAIN IdOf THEN "id"
    ELSE IF ~IsFinite(fields[2]) \/ ~IsFinite(fields[3]) THEN "coordinate"
    ELSE IF IdOf[fields[1]] \in DOMAIN index THEN "duplicate"
    ELSE "none"

NodeError(fields) ==
    IF RowError(fields) # "none" THEN RowError(fields)
    ELSE IF fields[1] \notin DOMAIN IdOf THEN "id"
    ELSE IF ~IsFinite(fields[2]) \/ ~IsFinite(fields[3]) THEN "coordinate"
    ELSE IF Len(records) >= MaxNodes THEN "too_many_nodes"
    ELSE IF IdOf[fields[1]] \in DOMAIN index THEN "duplicate"
    ELSE "none"

ReadNode(line) ==
    LET number == Len(node_lines) + 1
        fields == Content(line, number)
        error == NodeError(fields)
    IN  /\ phase = "nodes"
        /\ DeliverNodeLine(line)
        /\ \/ /\ IsSkippable(fields)
              /\ UNCHANGED <<phase, failure, records, index>>
           \/ /\ ~IsSkippable(fields) /\ error # "none"
              /\ Fail("nodes", number, error)
              /\ UNCHANGED <<records, index>>
           \/ /\ ~IsSkippable(fields) /\ error = "none"
              /\ index' = [id \in DOMAIN index \cup {IdOf[fields[1]]} |->
                    IF id = IdOf[fields[1]] THEN Len(records) ELSE index[id]]
              /\ records' = Append(records,
                    [external_id |-> IdOf[fields[1]],
                     coordinate |-> CoordOf(fields[2], fields[3]),
                     line |-> number])
              /\ UNCHANGED <<phase, failure>>
        /\ UNCHANGED vars

EndOfNodes ==
    /\ phase \in {"nodes_header", "nodes"}
    /\ NoMoreLines
    /\ IF phase = "nodes_header" THEN Fail("nodes", 0, "empty_file")
       ELSE phase' = "construct" /\ UNCHANGED failure
    /\ UNCHANGED <<vars, records, index>>

-----------------------------------------------------------------------------
(***************************************************************************)
(* The builder: made for the number of records, then one set_node each.    *)
(***************************************************************************)
MakeBuilder ==
    /\ phase = "construct"
    /\ Construct(Len(records))
    /\ IF reply'.error = "none"
       THEN phase' = "place" /\ UNCHANGED failure
       ELSE Fail("none", 0, reply'.error)
    /\ UNCHANGED <<node_lines, edge_lines, read_failed, records, index>>

PlaceNode ==
    LET record == records[assigned_count + 1] IN
    /\ phase = "place"
    /\ assigned_count < Len(records)
    /\ SetNode(assigned_count, record.coordinate, record.external_id)
    /\ IF reply'.error = "none" THEN UNCHANGED <<phase, failure>>
       ELSE Fail("nodes", record.line, reply'.error)
    /\ UNCHANGED <<node_lines, edge_lines, read_failed, records, index>>

AllPlaced ==
    /\ phase = "place"
    /\ assigned_count = Len(records)
    /\ phase' = "edges_header"
    /\ UNCHANGED <<vars, node_lines, edge_lines, read_failed, records, index,
                   failure>>

-----------------------------------------------------------------------------
(***************************************************************************)
(* read_edges.                                                             *)
(***************************************************************************)
ReadEdgeHeader(line) ==
    LET number == Len(edge_lines) + 1
        fields == Content(line, number)
    IN  /\ phase = "edges_header"
        /\ DeliverEdgeLine(line)
        /\ \/ IsSkippable(fields) /\ UNCHANGED <<phase, failure>>
           \/ ~IsSkippable(fields) /\ fields = EdgeHeader
                /\ phase' = "edges" /\ UNCHANGED failure
           \/ ~IsSkippable(fields) /\ fields # EdgeHeader
                /\ Fail("edges", number, "header")
        /\ UNCHANGED <<vars, records, index>>

EdgeError(fields) ==
    IF RowError(fields) # "none" THEN RowError(fields)
    ELSE IF fields[1] \notin DOMAIN IdOf THEN "source"
    ELSE IF fields[2] \notin DOMAIN IdOf THEN "target"
    ELSE IF ~IsFinite(fields[3]) THEN "weight"
    ELSE IF NumberOf[fields[3]] = Negative THEN "negative_weight"
    ELSE IF IdOf[fields[1]] \notin DOMAIN index THEN "unknown_source"
    ELSE IF IdOf[fields[2]] \notin DOMAIN index THEN "unknown_target"
    ELSE "none"

Bug_EdgeByRecordLine(fields) ==
    AddArc(index[IdOf[fields[2]]], index[IdOf[fields[1]]], NumberOf[fields[3]])

\* The arc between the nodes that two external ids name.
AddEdge(fields) ==
    AddArc(index[IdOf[fields[1]]], index[IdOf[fields[2]]], NumberOf[fields[3]])

ReadEdge(line) ==
    LET number == Len(edge_lines) + 1
        fields == Content(line, number)
        error == EdgeError(fields)
    IN  /\ phase = "edges"
        /\ DeliverEdgeLine(line)
        /\ \/ /\ IsSkippable(fields)
              /\ UNCHANGED <<vars, phase, failure>>
           \/ /\ ~IsSkippable(fields) /\ error # "none"
              /\ Fail("edges", number, error)
              /\ UNCHANGED vars
           \/ /\ ~IsSkippable(fields) /\ error = "none"
              /\ AddEdge(fields)
              /\ IF reply'.error = "none" THEN UNCHANGED <<phase, failure>>
                 ELSE Fail("edges", number, reply'.error)
        /\ UNCHANGED <<records, index>>

EndOfEdges ==
    /\ phase \in {"edges_header", "edges"}
    /\ NoMoreLines
    /\ IF phase = "edges_header" THEN Fail("edges", 0, "empty_file")
       ELSE phase' = "build" /\ UNCHANGED failure
    /\ UNCHANGED <<vars, records, index>>

BuildGraph ==
    /\ phase = "build"
    /\ Build
    /\ IF reply'.error = "none" THEN phase' = "loaded" /\ UNCHANGED failure
       ELSE Fail("edges", 0, reply'.error)
    /\ UNCHANGED <<node_lines, edge_lines, read_failed, records, index>>

LoadNext ==
    \/ Open
    \/ \E line \in Lines : \/ ReadNodeHeader(line) \/ ReadNode(line)
                           \/ ReadEdgeHeader(line) \/ ReadEdge(line)
    \/ EndOfNodes \/ EndOfEdges
    \/ MakeBuilder \/ PlaceNode \/ AllPlaced
    \/ BuildGraph

LoadSpec == LoadInit /\ [][LoadNext]_<<vars, loaderVars>>

-----------------------------------------------------------------------------
(***************************************************************************)
(* The type invariant of the loader; the builder's is TypeOK.              *)
(***************************************************************************)
LoaderTypeOK ==
    /\ TypeOK
    /\ phase \in {"open", "nodes_header", "nodes", "construct", "place",
                  "edges_header", "edges", "build", "loaded", "failed"}
    /\ node_lines \in Seq(Lines) /\ edge_lines \in Seq(Lines)
    /\ Len(records) <= MaxNodes
    /\ \A i \in DOMAIN records :
        /\ records[i].coordinate \in Coord
        /\ records[i].line \in DOMAIN node_lines
        /\ index[records[i].external_id] = i - 1
    /\ Cardinality(DOMAIN index) = Len(records)

(***************************************************************************)
(* What a file says, read off its lines without the loader's state: the    *)
(* data rows are the lines after the header that are not skipped.          *)
(***************************************************************************)
Shown(lines) == [i \in DOMAIN lines |-> Content(lines[i], i)]

HeaderLine(lines) ==
    CHOOSE i \in DOMAIN lines :
        /\ ~IsSkippable(Shown(lines)[i])
        /\ \A j \in 1 .. i - 1 : IsSkippable(Shown(lines)[j])

DataLines(lines) ==
    {i \in DOMAIN lines : ~IsSkippable(Shown(lines)[i]) /\ i > HeaderLine(lines)}

\* The n-th data row has n - 1 data rows before it.
NthData(lines, n) ==
    CHOOSE i \in DataLines(lines) :
        Cardinality({j \in DataLines(lines) : j < i}) = n - 1

(***************************************************************************)
(* A loaded graph says what the files say: node i is the i-th row of the   *)
(* node file, and for every pair of external ids and every weight there are*)
(* as many arcs as there are rows of the edge file.                        *)
(***************************************************************************)
GraphIsWhatTheFilesSay ==
    phase = "loaded" =>
        /\ IsGraph(graph)
        /\ graph.node_count = Cardinality(DataLines(node_lines))
        /\ \A v \in Nodes(graph) :
            LET row == Shown(node_lines)[NthData(node_lines, v + 1)] IN
            /\ graph.external_id[v] = IdOf[row[1]]
            /\ graph.coordinate[v] = CoordOf(row[2], row[3])
        /\ \A s, t \in ExternalId, w \in Weight :
            Cardinality({k \in Arcs(graph) : \E v \in Nodes(graph) :
                /\ k \in ArcsFrom(graph, v)
                /\ graph.external_id[v] = s
                /\ graph.external_id[graph.arc[k].target] = t
                /\ graph.arc[k].weight = w})
            = Cardinality({i \in DataLines(edge_lines) :
                LET row == Shown(edge_lines)[i] IN
                IdOf[row[1]] = s /\ IdOf[row[2]] = t /\ NumberOf[row[3]] = w})

(***************************************************************************)
(* "The first problem encountered aborts the load": a reported line is at  *)
(* fault and no line before it is, and a file with a fault never loads.    *)
(***************************************************************************)
GoodFields(row) == Len(row) = 3 /\ \A i \in 1 .. 3 : row[i] # ""

NamesNode(token, lines, i) ==
    \E j \in DataLines(lines) :
        /\ j < i
        /\ Shown(lines)[j][1] \in DOMAIN IdOf
        /\ IdOf[Shown(lines)[j][1]] = IdOf[token]

GoodNodeLine(i) ==
    LET row == Shown(node_lines)[i] IN
    /\ GoodFields(row)
    /\ row[1] \in DOMAIN IdOf
    /\ IsFinite(row[2]) /\ IsFinite(row[3])
    /\ ~NamesNode(row[1], node_lines, i)

GoodEdgeLine(i) ==
    LET row == Shown(edge_lines)[i] IN
    /\ GoodFields(row)
    /\ row[1] \in DOMAIN IdOf /\ row[2] \in DOMAIN IdOf
    /\ IsFinite(row[3]) /\ NumberOf[row[3]] # Negative
    /\ NamesNode(row[1], node_lines, Len(node_lines) + 1)
    /\ NamesNode(row[2], node_lines, Len(node_lines) + 1)

Limits == {"too_many_nodes", "capacity", "cannot_open", "empty_file", "header"}

FirstFaultIsReported ==
    /\ phase = "loaded" =>
        /\ \A i \in DataLines(node_lines) : GoodNodeLine(i)
        /\ \A i \in DataLines(edge_lines) : GoodEdgeLine(i)
    /\ phase = "failed" /\ failure.why \notin Limits =>
        IF failure.file = "nodes"
        THEN /\ ~GoodNodeLine(failure.line)
             /\ \A i \in DataLines(node_lines) : i < failure.line => GoodNodeLine(i)
        ELSE /\ ~GoodEdgeLine(failure.line)
             /\ \A i \in DataLines(node_lines) : GoodNodeLine(i)
             /\ \A i \in DataLines(edge_lines) : i < failure.line => GoodEdgeLine(i)

(***************************************************************************)
(* The loader hands the builder nothing that it refuses, except one arc too*)
(* many: the other errors that load_graph converts cannot occur, and the   *)
(* constructor, which is called outside every try block, never throws.     *)
(***************************************************************************)
BuilderNeverObjects ==
    reply.error = "none" \/ reply = Answer("add_arc", "capacity")

(***************************************************************************)
(* csv.hpp: "The first problem encountered aborts the load; no partial     *)
(* graph is produced."  A read that fails half way does not abort it.      *)
(***************************************************************************)
FailedReadAborts == phase = "loaded" => ~read_failed
=============================================================================
