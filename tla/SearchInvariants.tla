-------------------------- MODULE SearchInvariants --------------------------
(***************************************************************************)
(* Why the search is right: the inductive invariants behind its theorems.  *)
(*                                                                         *)
(* TypeInv keeps the tables well-formed, OrderInv is the argument that a   *)
(* settled node need not be looked at again, PathInv is the argument that  *)
(* the parents lead back to the source along real arcs, and CountInv and   *)
(* ScanInv account for every entry of the queue and every arc of a scan.   *)
(***************************************************************************)
EXTENDS Search

(***************************************************************************)
(* Types.  TypeOK is not inductive: the walk back must never step onto     *)
(* NoParent.  Whatever has a finite distance was given it by a node that   *)
(* has one, or is the source.                                              *)
(***************************************************************************)
Fresh ==
    pc \in {"idle", "check"} =>
        /\ distance = [v \in Nodes(graph) |-> Infinity]
        /\ parent = [v \in Nodes(graph) |-> NoParent]
        /\ settled = {} /\ queue = {}

HasParent(v) == parent[v] \in Nodes(graph) /\ distance[parent[v]] < Infinity

Reached ==
    pc \in {"loop", "scan", "walk"} =>
        /\ distance[source] = 0
        /\ \A v \in Nodes(graph) :
            distance[v] < Infinity /\ v # source => HasParent(v)
        /\ \A v \in settled : distance[v] < Infinity
        /\ \A e \in queue : distance[e.node] < Infinity
        /\ pc = "walk" => distance[at] < Infinity

Unanswered == pc \in {"idle", "check", "loop", "scan"} => result = NoResult

\* A search runs, and has an answer, only for a query that passed the checks.
Accepted ==
    pc \in {"loop", "scan", "walk"} \/ result.status \in {"found", "unreachable"}
        => Valid(source) /\ Valid(target) /\ ~Refused

\* The query being served is one the caller can ask, and a call that is over
\* has an answer.
Served ==
    /\ pc # "idle" => algorithm \in Algorithms
    /\ pc = "done" => result.status # "none"
    /\ pc = "walk" => result.status = "found"

TypeInv ==
    /\ graph \in Graphs /\ IsFiniteSet(queue)
    /\ TypeOK /\ Fresh /\ Reached /\ Unanswered

-----------------------------------------------------------------------------
(***************************************************************************)
(* Order.  What matters of the rounding of a query is what it does to the  *)
(* costs that the routes from its source really have, as the program adds  *)
(* them up.  The heuristic can be trusted for a query when, added to these *)
(* costs, it is consistent along every arc and does not hide which of two  *)
(* is less.  The zero heuristic always can; the straight line can as far as*)
(* these sums come out in the right order, exact or not.                   *)
(***************************************************************************)
RouteCosts(v) ==
    {c \in Cost : \E walk \in Seq([node : Nodes(graph), cost : Cost]) :
                    IsWalk(graph, source, v, walk) /\ c = CostOf(walk)}

Consistent ==
    \A u \in Nodes(graph) : \A d \in RouteCosts(u), k \in ArcsFrom(graph, u) :
        Plus(d, Estimate(u))
            <= Plus(Plus(d, graph.arc[k].weight), Estimate(graph.arc[k].target))

Cancels ==
    \A v \in Nodes(graph) : \A a, b \in RouteCosts(v) :
        /\ Plus(a, Estimate(v)) < Infinity
        /\ Plus(a, Estimate(v)) <= Plus(b, Estimate(v))
        => a <= b

Trusted == Valid(source) /\ Valid(target) /\ Consistent /\ Cancels

\* A distance is what some route costs.
DistancesAreCosts ==
    pc \in {"loop", "scan", "walk"} =>
        \A v \in Nodes(graph) : distance[v] < Infinity => distance[v] \in RouteCosts(v)

\* A stale entry is never better than the node's latest one.
EntriesAreLate == \A e \in queue : Priority(e.node) <= e.priority

CurrentIsLast ==
    pc = "scan" => \A v \in settled : Priority(v) <= Priority(current)

\* The arcs of a node whose expansion is over give its neighbours nothing
\* better.  Nodes that the overflow of the estimate sent to the end of the
\* queue are not on a route that could matter.
Scanned(u, k) == pc = "scan" /\ u = current => k < cursor

Relaxed ==
    pc \in {"loop", "scan"} =>
        \A u \in settled : Priority(u) < Infinity =>
            \A k \in ArcsFrom(graph, u) : Scanned(u, k) =>
                distance[graph.arc[k].target]
                    <= Plus(distance[u], graph.arc[k].weight)

TargetIsOpen == pc \in {"loop", "scan"} => target \notin settled

AnswerStands ==
    result.status \in {"found", "unreachable"} =>
        NoWalkBeats(graph, source, target, result.cost)

OrderInv ==
    Trusted =>
        /\ EveryFrontierNodeIsQueued /\ EntriesAreLate
        /\ SettledInOrder /\ CurrentIsLast /\ Relaxed
        /\ TargetIsOpen /\ AnswerStands

-----------------------------------------------------------------------------
(***************************************************************************)
(* Paths.  A parent is settled, so its distance is final, and the arc that *)
(* made it the parent accounts for the whole difference.                   *)
(***************************************************************************)
ComesFrom(v, u) ==
    \E k \in ArcsFrom(graph, u) :
        /\ graph.arc[k].target = v
        /\ distance[v] = Plus(distance[u], graph.arc[k].weight)

Found == result.status = "found"

ParentsAccount ==
    pc \in {"loop", "scan", "walk"} \/ Found =>
        \A v \in Nodes(graph) : distance[v] < Infinity /\ v # source =>
            parent[v] \in settled /\ ComesFrom(v, parent[v])

\* The nodes can be numbered so that numbers grow away from the source.
Grows(depth) ==
    \A v \in Nodes(graph) : distance[v] < Infinity /\ v # source =>
        depth[parent[v]] < depth[v]

ParentsAreAcyclic ==
    pc \in {"loop", "scan", "walk"} \/ Found =>
        \E depth \in [Nodes(graph) -> Nat] : Grows(depth)

\* The part of the route that the walk back has collected.
Collected(path) ==
    /\ path # <<>>
    /\ path[Len(path)] = target
    /\ \A i \in DOMAIN path :
        distance[path[i]] <= result.cost
    /\ \A i \in 1 .. Len(path) - 1 :
        path[i + 1] # source /\ path[i] = parent[path[i + 1]]

PathIsCollected ==
    Found =>
        /\ pc \in {"walk", "done"}
        /\ distance[source] = 0
        /\ result.cost = distance[target] /\ result.cost < Infinity
        /\ pc = "walk" =>
            \/ result.path = <<>> /\ at = target
            \/ /\ Collected(result.path)
               /\ result.path[1] # source /\ at = parent[result.path[1]]
        /\ pc = "done" => Collected(result.path) /\ result.path[1] = source

PathInv == ParentsAccount /\ ParentsAreAcyclic /\ PathIsCollected

-----------------------------------------------------------------------------
(***************************************************************************)
(* The queue and the counters.  None of this depends on the heuristic or   *)
(* the arithmetic.  Entries are numbered by push, so that a push really    *)
(* adds one; the arcs counted are the arcs of settled nodes that the scan  *)
(* has come past, each once because rows do not overlap.                   *)
(***************************************************************************)
Running == pc \in {"loop", "scan", "walk"}

Uncounted == pc \in {"idle", "check"} => stats = NoStats

PushesAreNumbered == \A e \in queue : e.push <= stats.pq_pushes

Examined ==
    {k \in Arcs(graph) :
        \E u \in settled \ {target} : k \in ArcsFrom(graph, u) /\ Scanned(u, k)}

\* The target is settled but not expanded.
ArcsAreCounted ==
    /\ Running => stats.arcs_examined = Cardinality(Examined)
    /\ pc = "scan" => current # target

\* A query that was refused left the tables alone.
RefusedIsClean ==
    result.status \in {"out_of_range", "contract_error"} =>
        settled = {} /\ queue = {}

CountInv == CountersAgree /\ Uncounted /\ PushesAreNumbered /\ ArcsAreCounted

-----------------------------------------------------------------------------
(***************************************************************************)
(* One scan.  Only settled nodes are parents; where the current node is    *)
(* one, an arc that the scan has passed made it so.                        *)
(***************************************************************************)
ParentsAreSettled ==
    \A v \in Nodes(graph) : parent[v] # NoParent => parent[v] \in settled

RowMadeIt ==
    pc = "scan" =>
        \A v \in Nodes(graph) : parent[v] = current =>
            \E k \in ArcsFrom(graph, current) :
                /\ k < cursor
                /\ graph.arc[k].target = v
                /\ distance[v] <= Plus(distance[current], graph.arc[k].weight)

ScanInv == ParentsAreSettled /\ RowMadeIt
=============================================================================
