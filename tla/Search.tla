------------------------------- MODULE Search -------------------------------
(***************************************************************************)
(* The search core (search.cpp) behind dijkstra, astar_zero and            *)
(* astar_euclidean: one best-first search with lazy deletion over an       *)
(* immutable graph, parameterised by a heuristic.                          *)
(*                                                                         *)
(* One step is one turn of a loop: a pop, one arc of the scan, one node of *)
(* the walk back along the parents.  The caller asks any query at any time *)
(* it is not waiting for an answer; Return ends the call, and with it the  *)
(* life of every local variable.                                           *)
(*                                                                         *)
(* Here and in the other modules a definition named Bug_... is a faulty    *)
(* variant of the one that follows it.  No specification uses it: it is    *)
(* there to try whether the properties notice.                             *)
(***************************************************************************)
EXTENDS Routes

VARIABLES
    graph,      \* the graph, fixed
    pc,         \* which loop the call is in
    algorithm, source, target,   \* the query
    distance,   \* tentative cost per node
    parent,     \* node that last improved a node
    settled,    \* the nodes whose flag is set
    queue,      \* the priority queue, stale entries included
    current,    \* the node being expanded
    cursor,     \* index of the next arc to scan
    stats,      \* SearchStats
    at,         \* the node the walk back has come to
    result      \* SearchResult, or the exception

query == <<algorithm, source, target>>
tables == <<distance, parent, settled, queue>>
vars == <<graph, pc, algorithm, source, target, distance, parent, settled,
          queue, current, cursor, stats, at, result>>

\* kNoParent: the highest 32-bit value, which is also the node-count limit and
\* therefore no node's index.
NoParent == MaxNodes

(***************************************************************************)
(* A queue entry.  `push` tells apart entries that compare equal, so that  *)
(* the queue is a set here and a multiset in the code.                     *)
(***************************************************************************)
Entry(priority, node, push) ==
    [priority |-> priority, node |-> node, push |-> push]

Bug_ComesBeforeByNode(a, b) == a.node < b.node

\* HigherPriorityFirst, as the order in which entries leave the queue.
ComesBefore(a, b) ==
    \/ a.priority < b.priority
    \/ a.priority = b.priority /\ a.node < b.node

Tops == {e \in queue : \A f \in queue : ~ComesBefore(f, e)}

Bug_EstimateTwice(node) ==
    IF algorithm = "astar_euclidean"
    THEN Plus(Hypot(graph.coordinate[node], graph.coordinate[target]),
              Hypot(graph.coordinate[node], graph.coordinate[target]))
    ELSE 0

\* ZeroHeuristic and EuclideanHeuristic.
Estimate(node) ==
    IF algorithm = "astar_euclidean"
    THEN Hypot(graph.coordinate[node], graph.coordinate[target])
    ELSE 0

\* SearchStats, and counting one more of some of them.
Counters == {"pq_pushes", "pq_pops", "stale_pops", "nodes_expanded",
             "arcs_examined", "relaxations", "max_queue_size"}

NoStats == [c \in Counters |-> 0]

Count(counted) ==
    [c \in Counters |-> IF c \in counted THEN stats[c] + 1 ELSE stats[c]]

NoResult == [status |-> "none", cost |-> Infinity, path |-> <<>>]

Larger(a, b) == IF a < b THEN b ELSE a

\* What the locals hold while no call is running: nothing.
Idle ==
    /\ pc = "idle"
    /\ algorithm = "dijkstra" /\ source = 0 /\ target = 0
    /\ distance = [v \in Nodes(graph) |-> Infinity]
    /\ parent = [v \in Nodes(graph) |-> NoParent]
    /\ settled = {} /\ queue = {}
    /\ current = 0 /\ cursor = 0 /\ at = 0
    /\ stats = NoStats
    /\ result = NoResult

Init == graph \in Graphs /\ Idle

-----------------------------------------------------------------------------
(***************************************************************************)
(* run_search calls an entry point with any ids, the first one past the end*)
(* included: require_valid on both ends, then, for astar_euclidean, the    *)
(* stored metric report, then the initialisation of the core.              *)
(***************************************************************************)
Valid(id) == id < graph.node_count

Bug_NeverRefused == FALSE

Refused == algorithm = "astar_euclidean" /\ ~graph.metric.passes

Ask(a, s, t) ==
    /\ pc = "idle"
    /\ algorithm' = a /\ source' = s /\ target' = t
    /\ pc' = "check"
    /\ UNCHANGED <<graph, tables, current, cursor, stats, at, result>>

Throw(why) ==
    /\ pc = "check"
    /\ pc' = "done"
    /\ result' = [result EXCEPT !.status = why]
    /\ UNCHANGED <<graph, query, tables, current, cursor, stats, at>>

RejectId == ~(Valid(source) /\ Valid(target)) /\ Throw("out_of_range")

RefuseHeuristic ==
    Valid(source) /\ Valid(target) /\ Refused /\ Throw("contract_error")

Begin ==
    /\ pc = "check"
    /\ Valid(source) /\ Valid(target) /\ ~Refused
    /\ distance' = [distance EXCEPT ![source] = 0]
    /\ queue' = {Entry(Estimate(source), source, 1)}
    /\ stats' = Count({"pq_pushes", "max_queue_size"})
    /\ pc' = "loop"
    /\ UNCHANGED <<graph, query, parent, settled, current, cursor, at, result>>

-----------------------------------------------------------------------------
(***************************************************************************)
(* The main loop: pop, discard a superseded entry, or settle the node and  *)
(* either stop at the target or scan its arcs.                             *)
(***************************************************************************)
Pop(e) ==
    /\ pc = "loop"
    /\ e \in Tops
    /\ queue' = queue \ {e}

Bug_PopStaleUncounted(e) ==
    /\ Pop(e)
    /\ e.node \in settled
    /\ stats' = Count({"pq_pops"})
    /\ UNCHANGED <<graph, pc, query, distance, parent, settled, current,
                   cursor, at, result>>

PopStale(e) ==
    /\ Pop(e)
    /\ e.node \in settled
    /\ stats' = Count({"pq_pops", "stale_pops"})
    /\ UNCHANGED <<graph, pc, query, distance, parent, settled, current,
                   cursor, at, result>>

Settle(e) ==
    /\ Pop(e)
    /\ e.node \notin settled
    /\ settled' = settled \cup {e.node}
    /\ stats' = Count({"pq_pops", "nodes_expanded"})
    /\ UNCHANGED <<graph, query, distance, parent>>

ReachTarget(e) ==
    /\ Settle(e)
    /\ e.node = target
    /\ pc' = "walk"
    /\ at' = target
    /\ result' = [status |-> "found", cost |-> distance[target], path |-> <<>>]
    /\ UNCHANGED <<current, cursor>>

Expand(e) ==
    /\ Settle(e)
    /\ e.node # target
    /\ pc' = "scan"
    /\ current' = e.node
    /\ cursor' = graph.offset[e.node]
    /\ UNCHANGED <<at, result>>

Bug_ExhaustWhenAllSettled ==
    /\ pc = "loop"
    /\ queue = {} /\ settled = Nodes(graph)
    /\ pc' = "done"
    /\ result' = [result EXCEPT !.status = "unreachable"]
    /\ UNCHANGED <<graph, query, tables, current, cursor, stats, at>>

Exhaust ==
    /\ pc = "loop"
    /\ queue = {}
    /\ pc' = "done"
    /\ result' = [result EXCEPT !.status = "unreachable"]
    /\ UNCHANGED <<graph, query, tables, current, cursor, stats, at>>

-----------------------------------------------------------------------------
(***************************************************************************)
(* The arc scan of the current node.                                       *)
(***************************************************************************)
Bug_ScanBackwards ==
    graph.arc[graph.offset[current] + graph.offset[current + 1] - 1 - cursor]

arc == graph.arc[cursor]

next == arc.target

candidate == Plus(distance[current], arc.weight)

Bug_ImprovesOrEquals == candidate <= distance[next]

Improves == candidate < distance[next]

Scan ==
    /\ pc = "scan"
    /\ cursor \in ArcsFrom(graph, current)
    /\ cursor' = cursor + 1
    /\ UNCHANGED <<graph, pc, query, settled, current, at, result>>

\* A settled neighbour, or one this arc does not improve.
PassArc ==
    /\ Scan
    /\ next \in settled \/ ~Improves
    /\ stats' = Count({"arcs_examined"})
    /\ UNCHANGED <<distance, parent, queue>>

CountRelaxation ==
    stats' = [Count({"arcs_examined", "relaxations", "pq_pushes"}) EXCEPT
                !["max_queue_size"] = Larger(@, Cardinality(queue) + 1)]

Bug_RelaxKeepsFirstParent ==
    /\ Scan
    /\ next \notin settled
    /\ Improves
    /\ distance' = [distance EXCEPT ![next] = candidate]
    /\ parent' = [parent EXCEPT ![next] = IF @ = NoParent THEN current ELSE @]
    /\ queue' = queue \cup
            {Entry(Plus(candidate, Estimate(next)), next, stats.pq_pushes + 1)}
    /\ CountRelaxation

Bug_RelaxPushesOnce ==
    /\ Scan
    /\ next \notin settled
    /\ Improves
    /\ distance' = [distance EXCEPT ![next] = candidate]
    /\ parent' = [parent EXCEPT ![next] = current]
    /\ queue' = IF \E e \in queue : e.node = next THEN queue
                ELSE queue \cup {Entry(Plus(candidate, Estimate(next)), next,
                                       stats.pq_pushes + 1)}
    /\ CountRelaxation

Relax ==
    /\ Scan
    /\ next \notin settled
    /\ Improves
    /\ distance' = [distance EXCEPT ![next] = candidate]
    /\ parent' = [parent EXCEPT ![next] = current]
    /\ queue' = queue \cup
            {Entry(Plus(candidate, Estimate(next)), next, stats.pq_pushes + 1)}
    /\ CountRelaxation

EndScan ==
    /\ pc = "scan"
    /\ cursor \notin ArcsFrom(graph, current)
    /\ pc' = "loop"
    /\ UNCHANGED <<graph, query, tables, current, cursor, stats, at, result>>

-----------------------------------------------------------------------------
(***************************************************************************)
(* The walk from the target back to the source; the path is collected in   *)
(* reverse and reversed at the end, which is prepending here.              *)
(***************************************************************************)
Bug_WalkBackPastSource ==
    /\ pc = "walk"
    /\ result' = [result EXCEPT !.path = <<at>> \o @]
    /\ IF at = NoParent
       THEN pc' = "done" /\ UNCHANGED at
       ELSE at' = parent[at] /\ UNCHANGED pc
    /\ UNCHANGED <<graph, query, tables, current, cursor, stats>>

WalkBack ==
    /\ pc = "walk"
    /\ result' = [result EXCEPT !.path = <<at>> \o @]
    /\ IF at = source
       THEN pc' = "done" /\ UNCHANGED at
       ELSE at' = parent[at] /\ UNCHANGED pc
    /\ UNCHANGED <<graph, query, tables, current, cursor, stats>>

\* The call returns or throws; its locals are gone.
Return ==
    /\ pc = "done"
    /\ UNCHANGED graph
    /\ pc' = "idle"
    /\ algorithm' = "dijkstra" /\ source' = 0 /\ target' = 0
    /\ distance' = [v \in Nodes(graph) |-> Infinity]
    /\ parent' = [v \in Nodes(graph) |-> NoParent]
    /\ settled' = {} /\ queue' = {}
    /\ current' = 0 /\ cursor' = 0 /\ at' = 0
    /\ stats' = NoStats
    /\ result' = NoResult

-----------------------------------------------------------------------------
Step ==
    \/ RejectId \/ RefuseHeuristic \/ Begin
    \/ \E e \in queue : PopStale(e) \/ ReachTarget(e) \/ Expand(e)
    \/ Exhaust
    \/ PassArc \/ Relax \/ EndScan
    \/ WalkBack
    \/ Return

Next ==
    \/ \E a \in Algorithms, s, t \in 0 .. graph.node_count : Ask(a, s, t)
    \/ Step

\* A call that runs is never suspended; nobody has to ask a query.
Fairness == WF_vars(Step)

Spec == Init /\ [][Next]_vars /\ Fairness

-----------------------------------------------------------------------------
(***************************************************************************)
(* The type invariant.  The graph itself never changes.                    *)
(***************************************************************************)
Statuses == {"none", "found", "unreachable", "out_of_range", "contract_error"}

TypeOK ==
    /\ pc \in {"idle", "check", "loop", "scan", "walk", "done"}
    /\ algorithm \in AllAlgorithms
    /\ source \in 0 .. graph.node_count /\ target \in 0 .. graph.node_count
    /\ pc \in {"loop", "scan", "walk"} => Valid(source) /\ Valid(target)
    /\ distance \in [Nodes(graph) -> Cost]
    /\ parent \in [Nodes(graph) -> Nodes(graph) \cup {NoParent}]
    /\ settled \subseteq Nodes(graph)
    /\ queue \subseteq [priority : Cost, node : Nodes(graph), push : Nat]
    /\ current \in 0 .. graph.node_count
    /\ pc = "scan" => /\ current \in settled
                      /\ cursor \in graph.offset[current] ..
                                    graph.offset[current + 1]
    /\ cursor \in Nat
    /\ at \in 0 .. graph.node_count
    /\ pc = "walk" => at \in Nodes(graph)
    /\ stats \in [Counters -> Nat]
    /\ result \in [status : Statuses, cost : Cost, path : Seq(Nodes(graph))]

-----------------------------------------------------------------------------
Answered == pc = "done"

\* The cost of "unreachable" is +infinity: it says that every walk overflows.
NoCheaperWalk ==
    Answered /\ result.status \in {"found", "unreachable"} =>
        NoWalkBeats(graph, source, target, result.cost)

(***************************************************************************)
(* Dijkstra and zero-heuristic A* return a route that no other route beats,*)
(* however additions round: costs are compared as the program itself would *)
(* add them up along each route.  "Unreachable" is answered only when every*)
(* route there is, if any, overflows; it is never the fault of an early    *)
(* exit or of a skipped node.                                              *)
(***************************************************************************)
ZeroHeuristicIsCheapest == algorithm # "astar_euclidean" => NoCheaperWalk

(***************************************************************************)
(* README, "The metric contract": where it holds, the straight-line        *)
(* heuristic is consistent, which "licenses never re-expanding a settled   *)
(* node", and the result is optimal.                                       *)
(***************************************************************************)
EuclideanIsCheapest == algorithm = "astar_euclidean" => NoCheaperWalk

(***************************************************************************)
(* The returned path is a route of the graph from source to target along   *)
(* real arcs, visits no node twice, and its arcs add up to exactly the     *)
(* reported cost.                                                          *)
(***************************************************************************)
RouteIsReal ==
    Answered /\ result.status = "found" =>
        LET walk == [i \in DOMAIN result.path |->
                        [node |-> result.path[i],
                         cost |-> distance[result.path[i]]]]
        IN  /\ IsWalk(graph, source, target, walk)
            /\ CostOf(walk) = result.cost
            /\ \A i, j \in DOMAIN result.path :
                    result.path[i] = result.path[j] => i = j

(***************************************************************************)
(* What a node is queued by: priority_queue entries hold it as it was when *)
(* they were pushed.                                                       *)
(***************************************************************************)
Priority(v) == Plus(distance[v], Estimate(v))

(***************************************************************************)
(* The scan skips a settled neighbour without looking at its distance.  In *)
(* no state of the scan does that lose a better route to it, unless the    *)
(* priority of the current node is +infinity: such nodes come last and in  *)
(* any order, and no route through them to the target is finite.           *)
(***************************************************************************)
SkipLosesNothing ==
    /\ pc = "scan" /\ cursor \in ArcsFrom(graph, current)
    /\ next \in settled
    /\ Priority(current) < Infinity
    => ~Improves

(***************************************************************************)
(* Nodes are settled in order of priority: nothing still queued, and       *)
(* nothing pushed later, comes before a node already settled.  Lazy        *)
(* deletion rests on it.                                                   *)
(***************************************************************************)
SettledInOrder ==
    \A v \in settled : \A e \in queue : Priority(v) <= e.priority

(***************************************************************************)
(* No entry that is still needed is lost among the stale ones: each node   *)
(* that was reached and not settled has one entry with its latest priority,*)
(* and no entry of it is better than that.                                 *)
(***************************************************************************)
EveryFrontierNodeIsQueued ==
    pc \in {"loop", "scan"} =>
        \A v \in Nodes(graph) \ settled : distance[v] < Infinity =>
            /\ \E e \in queue : e.node = v /\ e.priority = Priority(v)
            /\ \A e \in queue : e.node = v => Priority(v) <= e.priority

(***************************************************************************)
(* search.cpp, of the order of the queue: "Because a node is pushed only on*)
(* a strict improvement, the (priority, node) pairs held in the queue are  *)
(* distinct", so that the pop order is a total order and the search        *)
(* deterministic.  Stated for the zero heuristic: where the straight line  *)
(* is added, two different costs may round to one priority.                *)
(***************************************************************************)
EntriesAreDistinct ==
    algorithm # "astar_euclidean" =>
        \A e, f \in queue :
            e.priority = f.priority /\ e.node = f.node => e = f

(***************************************************************************)
(* The counters agree with each other and with the queue at every step, so *)
(* what stats says of lazy deletion is what happened: every push is the    *)
(* first one or a relaxation, every pop settles a node or is stale, and a  *)
(* node is expanded and an arc examined at most once.                      *)
(***************************************************************************)
CountersAgree ==
    pc \in {"loop", "scan", "walk"} =>
        /\ stats.pq_pushes = stats.relaxations + 1
        /\ stats.pq_pushes = stats.pq_pops + Cardinality(queue)
        /\ stats.pq_pops = stats.nodes_expanded + stats.stale_pops
        /\ stats.nodes_expanded = Cardinality(settled)
        /\ stats.relaxations <= stats.arcs_examined
        /\ stats.arcs_examined <= graph.arc_count
        /\ stats.max_queue_size >= Cardinality(queue)
        /\ stats.max_queue_size <= stats.pq_pushes

(***************************************************************************)
(* Parallel arcs are stored cheapest first, so one expansion improves a    *)
(* neighbour at most once and leaves no stale entry of its own making.     *)
(***************************************************************************)
OneImprovementPerScan ==
    [][Relax => parent[next] # current]_vars

(***************************************************************************)
(* Every query is answered: the queue drains although stale entries are    *)
(* added to it, and the walk along the parents arrives at the source.      *)
(***************************************************************************)
EveryQueryIsAnswered == pc = "check" ~> pc = "done"

-----------------------------------------------------------------------------
(***************************************************************************)
(* The search keeps the promise of its interface: seen from the caller,    *)
(* the loops are stuttering steps and the last one is the right answer.    *)
(***************************************************************************)
Question ==
    IF pc = "idle" THEN [algorithm |-> "none", source |-> 0, target |-> 0]
    ELSE [algorithm |-> algorithm, source |-> source, target |-> target]

Answer == IF pc = "done" THEN result ELSE NoResult

Promise == INSTANCE RouteQuery WITH question <- Question, answer <- Answer

KeepsThePromise == Promise!Spec
=============================================================================
