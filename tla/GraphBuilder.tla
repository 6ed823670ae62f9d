---------------------------- MODULE GraphBuilder ----------------------------
(***************************************************************************)
(* GraphBuilder (builder.hpp, builder.cpp): accumulates nodes and directed *)
(* arcs in any order, validates every call, and is consumed by build().    *)
(*                                                                         *)
(* The client is any program: it may make any call at any time with any    *)
(* argument.  A call that throws leaves the builder as it was; `reply`     *)
(* holds what the last call answered, which error included.                *)
(***************************************************************************)
EXTENDS Graph, Sequences, Functions

CONSTANTS Origin,      \* Coord{}, the coordinate of a node not yet set
          ZeroId,      \* ExternalId{0}
          NonFinite,   \* a NaN or infinite coordinate or weight
          Negative,    \* a finite negative weight
          NoGraph,     \* build() has not returned
          Orders(_)    \* Orders(arcs): the rearrangements to try in a sort

ASSUME BuilderAssumption ==
    /\ Origin \in Coord /\ NonFinite \notin Coord
    /\ ZeroId \in ExternalId
    /\ NonFinite \notin Cost /\ Negative \notin Cost /\ NonFinite # Negative

VARIABLES
    alive,           \* the constructor returned
    consumed,        \* consumed_
    coordinates,     \* coordinates_: the vector, indexed from 0
    external_ids,    \* external_ids_
    assigned,        \* assigned_
    assigned_count,  \* assigned_count_
    staged,          \* staged_
    graph,           \* the graph that build() returned
    reply            \* what the last call answered

vars == <<alive, consumed, coordinates, external_ids, assigned,
          assigned_count, staged, graph, reply>>

builder == <<alive, consumed, coordinates, external_ids, assigned,
             assigned_count, staged>>

StagedArc(n) == [source : 0 .. n - 1, target : 0 .. n - 1, weight : Weight]

NoVector == [i \in {} |-> Origin]

\* coordinates_.size(): every loop and check of the builder measures this.
Size == Cardinality(DOMAIN coordinates)

Answer(call, error) == [call |-> call, error |-> error]

Errors == {"none", "consumed", "out_of_range", "already_set", "non_finite",
           "negative", "capacity", "unset_node"}

Init ==
    /\ alive = FALSE
    /\ consumed = FALSE
    /\ coordinates = NoVector
    /\ external_ids = NoVector
    /\ assigned = NoVector
    /\ assigned_count = 0
    /\ staged = <<>>
    /\ graph = NoGraph
    /\ reply = Answer("nothing", "none")

\* A call that ends in `throw`: nothing but the answer changes.
Throws(call, error) ==
    /\ reply' = Answer(call, error)
    /\ UNCHANGED <<builder, graph>>

-----------------------------------------------------------------------------
(***************************************************************************)
(* The constructor.                                                        *)
(***************************************************************************)
Construct(n) ==
    /\ ~alive
    /\ \/ n > MaxNodes /\ Throws("construct", "capacity")
       \/ /\ n <= MaxNodes
          /\ alive' = TRUE
          /\ coordinates' = [i \in 0 .. n - 1 |-> Origin]
          /\ external_ids' = [i \in 0 .. n - 1 |-> ZeroId]
          /\ assigned' = [i \in 0 .. n - 1 |-> FALSE]
          /\ reply' = Answer("construct", "none")
          /\ UNCHANGED <<consumed, assigned_count, staged, graph>>

(***************************************************************************)
(* set_node: the checks in the order of the code, then the assignment.     *)
(***************************************************************************)
Bug_SetNodeAgain(id, coordinate) ==
    IF consumed THEN "consumed"
    ELSE IF id >= Size THEN "out_of_range"
    ELSE IF coordinate = NonFinite THEN "non_finite"
    ELSE "none"

SetNodeError(id, coordinate) ==
    IF consumed THEN "consumed"
    ELSE IF id >= Size THEN "out_of_range"
    ELSE IF assigned[id] THEN "already_set"
    ELSE IF coordinate = NonFinite THEN "non_finite"
    ELSE "none"

SetNode(id, coordinate, externalId) ==
    LET error == SetNodeError(id, coordinate) IN
    /\ alive
    /\ \/ error # "none" /\ Throws("set_node", error)
       \/ /\ error = "none"
          /\ coordinates' = [coordinates EXCEPT ![id] = coordinate]
          /\ external_ids' = [external_ids EXCEPT ![id] = externalId]
          /\ assigned' = [assigned EXCEPT ![id] = TRUE]
          /\ assigned_count' = assigned_count + 1
          /\ reply' = Answer("set_node", "none")
          /\ UNCHANGED <<alive, consumed, staged, graph>>

(***************************************************************************)
(* add_arc: the NaN test comes before the sign test.                       *)
(***************************************************************************)
Bug_TargetUnchecked(source, target, weight) ==
    IF consumed THEN "consumed"
    ELSE IF source >= Size THEN "out_of_range"
    ELSE IF weight = NonFinite THEN "non_finite"
    ELSE IF weight = Negative THEN "negative"
    ELSE IF Len(staged) + 1 > MaxArcs THEN "capacity"
    ELSE "none"

AddArcError(source, target, weight) ==
    IF consumed THEN "consumed"
    ELSE IF source >= Size \/ target >= Size THEN "out_of_range"
    ELSE IF weight = NonFinite THEN "non_finite"
    ELSE IF weight = Negative THEN "negative"
    ELSE IF Len(staged) + 1 > MaxArcs THEN "capacity"
    ELSE "none"

AddArc(source, target, weight) ==
    LET error == AddArcError(source, target, weight) IN
    /\ alive
    /\ \/ error # "none" /\ Throws("add_arc", error)
       \/ /\ error = "none"
          /\ staged' = Append(staged, [source |-> source, target |-> target,
                                       weight |-> weight])
          /\ reply' = Answer("add_arc", "none")
          /\ UNCHANGED <<alive, consumed, coordinates, external_ids, assigned,
                         assigned_count, graph>>

-----------------------------------------------------------------------------
(***************************************************************************)
(* build().  std::sort is not stable and promises only a permutation with  *)
(* no pair out of order, so any such permutation may come out.  Orders     *)
(* bounds the permutations that are tried: all there are on small graphs,  *)
(* one where only one is sorted, which a large graph needs to be checkable.*)
(***************************************************************************)
Before(a, b) ==
    \/ a.source < b.source
    \/ a.source = b.source /\ a.target < b.target
    \/ a.source = b.source /\ a.target = b.target /\ a.weight < b.weight

InOrder(arcs) ==
    \A i, j \in DOMAIN arcs : i < j => ~Before(arcs[j], arcs[i])

Reordered(arcs, p) == [i \in DOMAIN arcs |-> arcs[p[i]]]

Bug_SortedBySource(p, arcs) ==
    /\ p \in Bijection(DOMAIN arcs, DOMAIN arcs)
    /\ \A i, j \in DOMAIN arcs : i < j => arcs[p[i]].source <= arcs[p[j]].source

SortedBy(p, arcs) ==
    /\ p \in Bijection(DOMAIN arcs, DOMAIN arcs)
    /\ InOrder(Reordered(arcs, p))

Bug_CountedAtSource(arcs, row) ==
    Cardinality({i \in DOMAIN arcs : arcs[i].source = row})

\* A row's arcs are counted one place to the right of it; adding the places up
\* from the left then leaves in each the number of arcs of the rows before.
Counted(arcs, row) ==
    Cardinality({i \in DOMAIN arcs : arcs[i].source + 1 = row})

RowOffsets(arcs, n) ==
    LET offsets[row \in 0 .. n] ==
            IF row = 0 THEN Counted(arcs, row)
            ELSE offsets[row - 1] + Counted(arcs, row)
    IN  offsets

ArcArray(arcs) ==
    [k \in 0 .. Len(arcs) - 1 |->
        [target |-> arcs[k + 1].target, weight |-> arcs[k + 1].weight]]

BuildError ==
    IF consumed THEN "consumed"
    ELSE IF assigned_count # Size THEN "unset_node"
    ELSE IF Len(staged) > MaxArcs THEN "capacity"
    ELSE "none"

Build ==
    /\ alive
    /\ \/ BuildError # "none" /\ Throws("build", BuildError)
       \/ /\ BuildError = "none"
          /\ \E p \in Orders(staged) :
                LET arcs == Reordered(staged, p) IN
                /\ SortedBy(p, staged)
                /\ graph' = NewGraph(Size, coordinates, external_ids,
                                     RowOffsets(arcs, Size), Len(staged),
                                     ArcArray(arcs))
          /\ consumed' = TRUE
          /\ coordinates' = NoVector
          /\ external_ids' = NoVector
          /\ assigned' = NoVector
          /\ staged' = <<>>
          /\ reply' = Answer("build", "none")
          /\ UNCHANGED <<alive, assigned_count>>

(***************************************************************************)
(* node_count, assigned_node_count, staged_arc_count: noexcept reads.      *)
(***************************************************************************)
ReadCounts ==
    /\ alive
    /\ Throws("read_counts", "none")

Next ==
    \/ \E n \in 0 .. MaxNodes + 1 : Construct(n)
    \/ \E id \in 0 .. MaxNodes, c \in Coord \cup {NonFinite}, e \in ExternalId :
            SetNode(id, c, e)
    \/ \E s, t \in 0 .. MaxNodes, w \in Weight \cup {NonFinite, Negative} :
            AddArc(s, t, w)
    \/ Build
    \/ ReadCounts

Spec == Init /\ [][Next]_vars

-----------------------------------------------------------------------------
(***************************************************************************)
(* The type invariant: the three vectors have one size until build() moves *)
(* or clears them, and no staged arc names a node outside them.            *)
(***************************************************************************)
TypeOK ==
    /\ alive \in BOOLEAN /\ consumed \in BOOLEAN
    /\ \E n \in 0 .. MaxNodes :
        /\ coordinates \in [0 .. n - 1 -> Coord]
        /\ external_ids \in [0 .. n - 1 -> ExternalId]
        /\ assigned \in [0 .. n - 1 -> BOOLEAN]
        /\ staged \in Seq(StagedArc(n))
    /\ assigned_count \in 0 .. MaxNodes
    /\ Len(staged) <= MaxArcs
    /\ reply.error \in Errors

(***************************************************************************)
(* Whatever the calls and their order, what build() returns is a graph as  *)
(* every reader assumes it: offsets that partition the arc array, every    *)
(* arc in range and in canonical order, a truthful metric report.          *)
(***************************************************************************)
BuiltGraphIsSound == graph # NoGraph => IsGraph(graph)

(***************************************************************************)
(* build() refuses while a node was never set: it counts calls instead of  *)
(* looking at the nodes, which is right only because set_node accepts each *)
(* node once.                                                              *)
(***************************************************************************)
OnlyCompleteNodesAreBuilt ==
    [][graph' # graph => \A i \in DOMAIN assigned : assigned[i]]_vars

(***************************************************************************)
(* The graph does not depend on the order in which arcs were added         *)
(* (builder.cpp: "the sorted sequence is unique").  A value a of the staged*)
(* arcs fills exactly the indices between the number of arcs before it and *)
(* the number of arcs not after it, both of which no reordering changes;   *)
(* so no arc is lost, invented or moved to another row.                    *)
(***************************************************************************)
SlotsOf(a, arcs) ==
    LET below == Cardinality({i \in DOMAIN arcs : Before(arcs[i], a)})
        equal == Cardinality({i \in DOMAIN arcs : arcs[i] = a})
    IN  below .. below + equal - 1

InsertionOrderIsInvisible ==
    [][graph' # graph =>
        /\ graph'.arc_count = Len(staged)
        /\ graph'.coordinate = coordinates
        /\ graph'.external_id = external_ids
        /\ \A i \in DOMAIN staged : \A k \in SlotsOf(staged[i], staged) :
            /\ graph'.arc[k] = [target |-> staged[i].target,
                                weight |-> staged[i].weight]
            /\ k \in ArcsFrom(graph', staged[i].source)]_vars

(***************************************************************************)
(* A node that was set keeps its coordinate and its external id until they *)
(* are handed to the graph, and after build() no call changes anything.    *)
(***************************************************************************)
NothingIsSetTwice ==
    [][/\ consumed => UNCHANGED <<builder, graph>>
       /\ consumed \/ consumed' \/
            \A i \in DOMAIN assigned : assigned[i] =>
                /\ coordinates'[i] = coordinates[i]
                /\ external_ids'[i] = external_ids[i]]_vars
=============================================================================
