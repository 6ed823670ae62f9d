----------------------------- MODULE RouteQuery -----------------------------
(***************************************************************************)
(* What the three entry points of search.hpp promise, without saying how:  *)
(* a caller asks, and gets an exception or a cheapest route or the answer  *)
(* that there is none of finite cost.                                      *)
(***************************************************************************)
EXTENDS Routes

VARIABLES graph,      \* the caller's graph, whichever it is, fixed
          question,   \* the query being served, or NoQuestion
          answer      \* SearchResult or exception, or NoAnswer

vars == <<graph, question, answer>>

NoQuestion == [algorithm |-> "none", source |-> 0, target |-> 0]

NoAnswer == [status |-> "none", cost |-> Infinity, path |-> <<>>]

Init == question = NoQuestion /\ answer = NoAnswer

Ask ==
    /\ question = NoQuestion
    /\ question' \in [algorithm : Algorithms, source : 0 .. graph.node_count,
                      target : 0 .. graph.node_count]
    /\ UNCHANGED <<graph, answer>>

ValidIds ==
    question.source < graph.node_count /\ question.target < graph.node_count

Refused ==
    question.algorithm = "astar_euclidean" /\ ~graph.metric.passes

Throw(why) == answer' = [NoAnswer EXCEPT !.status = why]

\* The returned path is one of the cheapest ways of getting there.
Route(c, path) ==
    /\ answer' = [status |-> "found", cost |-> c, path |-> path]
    /\ c < Infinity
    /\ \E cost \in [DOMAIN path -> {x \in Cost : x <= c}] :
        LET walk == [i \in DOMAIN path |->
                        [node |-> path[i], cost |-> cost[i]]]
        IN  /\ IsWalk(graph, question.source, question.target, walk)
            /\ CostOf(walk) = c
    /\ NoWalkBeats(graph, question.source, question.target, c)

NoRoute ==
    /\ answer' = [NoAnswer EXCEPT !.status = "unreachable"]
    /\ NoWalkBeats(graph, question.source, question.target, Infinity)

Reply ==
    /\ question # NoQuestion /\ answer = NoAnswer
    /\ UNCHANGED <<graph, question>>
    /\ \/ ~ValidIds /\ Throw("out_of_range")
       \/ ValidIds /\ Refused /\ Throw("contract_error")
       \/ ValidIds /\ ~Refused /\ (Route(answer'.cost, answer'.path) \/ NoRoute)

Forget ==
    /\ answer # NoAnswer
    /\ question' = NoQuestion /\ answer' = NoAnswer
    /\ UNCHANGED graph

Next == Ask \/ Reply \/ Forget

Spec == Init /\ [][Next]_vars
=============================================================================
