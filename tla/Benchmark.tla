----------------------------- MODULE Benchmark -----------------------------
(***************************************************************************)
(* The benchmark harness (benchmark.cpp: make_query_pairs, run_benchmark): *)
(* a query set drawn from a seed, a pass in which the three algorithms must*)
(* agree, and measured repetitions whose counters must not change.         *)
(*                                                                         *)
(* The harness exists because a search might go wrong, so a search may     *)
(* answer anything here, another thing each time: one step is one turn of  *)
(* the loop in next_below or one search.                                   *)
(***************************************************************************)
EXTENDS Graph, SplitMix64

CONSTANTS
    Graphs,      \* the graphs a benchmark may be run on
    Requests,    \* seed, count and repetitions of the calls
    MaxQueries,  \* how many queries a vector can hold
    Replies,     \* costs that a search may report, Infinity for "no route"
    Efforts,     \* counters that a search may report
    One,         \* 1.0 on the scale of the costs
    Precision    \* 1 / 1e-9, one over the tolerance of costs_agree

ASSUME BenchmarkAssumption ==
    /\ \A g \in Graphs : IsGraph(g)
    /\ MaxNodes \in Words
    /\ \A r \in Requests : r.seed \in Words /\ {r.count, r.repetitions} \subseteq Nat
    /\ MaxQueries \in Nat
    /\ Replies \subseteq Cost
    /\ Efforts \subseteq [work : Nat, largest : Nat]
    /\ One \in Nat \ {0} /\ Precision \in Nat \ {0}

VARIABLES
    graph,        \* the caller's graph, fixed
    request,      \* the arguments of the two calls
    stage,        \* which loop runs
    rng,          \* the state of the generator
    source,       \* the source drawn for the next query, or NoSource
    queries,      \* the query set
    reference,    \* what Dijkstra answered in the warm-up
    position,     \* how many queries of the pass are done
    repetition,   \* how many repetitions are done
    step,         \* how many algorithms of the repetition, or the warm-up
    total,        \* the counters of the pass
    summary,      \* report.algorithms
    failure       \* why a call threw

\* What has been seen so far; the program does not keep it.
VARIABLES
    answers,      \* of the warm-up, by algorithm and query
    efforts,      \* of the searches of this pass
    passes        \* the measured passes, in their order

seen == <<answers, efforts, passes>>

benchmarkVars == <<graph, request, stage, rng, source, queries, reference,
                   position, repetition, step, total, summary, failure, seen>>

-----------------------------------------------------------------------------
\* kBenchmarkAlgorithms, as the places of the array.
Slots == 0 .. 2

NoSource == -1

NoEffort == [work |-> 0, largest |-> 0]

NoSummary == [total |-> NoEffort, seconds |-> <<>>]

Found(cost) == cost < Infinity

Apart(a, b) == IF a < b THEN b - a ELSE a - b

Greatest(S) == CHOOSE x \in S : \A y \in S : y <= x

\* Relative to the larger cost, and to 1.0 at least.
CostsAgree(a, b) ==
    IF Infinity \in {a, b} THEN a = b
    ELSE Apart(a, b) * Precision <= Greatest({One, a, b})

\* Six counters are added up, which `work` stands for; the seventh is the
\* largest queue of any query.
Accumulate(sum, effort) ==
    [work |-> sum.work + effort.work,
     largest |-> Greatest({sum.largest, effort.largest})]

Bug_CountersMatchInWork(a, b) == a.work = b.work

CountersMatch(a, b) == a = b

-----------------------------------------------------------------------------
BenchmarkIdle ==
    /\ stage = "call"
    /\ rng = 0 /\ source = NoSource
    /\ queries = <<>> /\ reference = <<>>
    /\ position = 0 /\ repetition = 0 /\ step = 0
    /\ total = NoEffort
    /\ summary = [slot \in Slots |-> NoSummary]
    /\ failure = "none"
    /\ answers = [slot \in Slots |-> <<>>] /\ efforts = <<>> /\ passes = <<>>

BenchmarkInit ==
    /\ graph \in Graphs
    /\ request \in Requests
    /\ BenchmarkIdle

(***************************************************************************)
(* make_query_pairs: the checks and the reserve(), then for each query a   *)
(* source and an offset from it.                                           *)
(***************************************************************************)
QueriesError ==
    IF graph.node_count < 2 THEN "too_few_nodes"
    ELSE IF request.count = 0 THEN "no_queries"
    ELSE IF request.count > MaxQueries THEN "no_memory"
    ELSE "none"

CallMakeQueries ==
    /\ stage = "call"
    /\ failure' = QueriesError
    /\ stage' = IF QueriesError = "none" THEN "draw" ELSE "threw"
    /\ rng' = request.seed
    /\ UNCHANGED <<graph, request, source, queries, reference, position,
                   repetition, step, total, summary, seen>>

Drawing ==
    /\ stage = "draw" /\ Len(queries) < request.count
    /\ rng' = Advance(rng)
    /\ UNCHANGED <<graph, request, stage, reference, position, repetition, step,
                   total, summary, failure, seen>>

Draws(bound) == Candidate(rng', bound) < bound

DrawSource ==
    /\ source = NoSource
    /\ Drawing
    /\ source' = IF Draws(graph.node_count)
                 THEN Candidate(rng', graph.node_count) ELSE NoSource
    /\ UNCHANGED queries

Bug_TargetWithoutOne(n, drawn) == (source + drawn) % n

Target(n, drawn) == (source + (1 + drawn)) % n

DrawTarget ==
    LET n == graph.node_count IN
    /\ source # NoSource
    /\ Drawing
    /\ IF Draws(n - 1)
       THEN /\ queries' = Append(queries,
                    [source |-> source,
                     target |-> Target(n, Candidate(rng', n - 1))])
            /\ source' = NoSource
       ELSE UNCHANGED <<source, queries>>

-----------------------------------------------------------------------------
(***************************************************************************)
(* run_benchmark: the checks, the reference pass of Dijkstra, and then the *)
(* other two against it.                                                   *)
(***************************************************************************)
RunError ==
    IF ~graph.metric.passes THEN "contract"
    ELSE IF queries = <<>> THEN "no_queries"
    ELSE IF request.repetitions = 0 THEN "no_repetitions"
    ELSE "none"

CallRun ==
    /\ stage = "draw" /\ Len(queries) = request.count
    /\ failure' = RunError
    /\ stage' = IF RunError = "none" THEN "reference" ELSE "threw"
    /\ UNCHANGED <<graph, request, rng, source, queries, reference, position,
                   repetition, step, total, summary, seen>>

Recorded(cost) == answers' = [answers EXCEPT ![step] = Append(@, cost)]

\* The last query of a pass begins the next pass.
NextQuery ==
    IF position + 1 < Len(queries)
    THEN position' = position + 1 /\ UNCHANGED step
    ELSE position' = 0 /\ step' = step + 1

SearchReference(cost) ==
    /\ stage = "reference"
    /\ reference' = Append(reference, cost)
    /\ Recorded(cost)
    /\ NextQuery
    /\ stage' = IF step' = 1 THEN "agreement" ELSE stage
    /\ UNCHANGED <<graph, request, rng, source, queries, repetition, total,
                   summary, failure, efforts, passes>>

Bug_DisagreeOnCost(cost, expected) ==
    Found(cost) /\ Found(expected) /\ ~CostsAgree(cost, expected)

Disagree(cost, expected) ==
    \/ Found(cost) # Found(expected)
    \/ Found(cost) /\ ~CostsAgree(cost, expected)

SearchAndCompare(cost) ==
    /\ stage = "agreement" /\ step \in Slots
    /\ Recorded(cost)
    /\ IF Disagree(cost, reference[position + 1])
       THEN /\ stage' = "threw" /\ failure' = "disagreement"
            /\ UNCHANGED <<position, step>>
       ELSE NextQuery /\ UNCHANGED <<stage, failure>>
    /\ UNCHANGED <<graph, request, rng, source, queries, reference, repetition,
                   total, summary, efforts, passes>>

BeginMeasuring ==
    /\ stage = "agreement" /\ step \notin Slots
    /\ stage' = "measure"
    /\ step' = 0
    /\ UNCHANGED <<graph, request, rng, source, queries, reference, position,
                   repetition, total, summary, failure, seen>>

-----------------------------------------------------------------------------
(***************************************************************************)
(* The measured repetitions.  A pass searches every query and then counts: *)
(* in the first repetition it becomes the summary, in a later one it must  *)
(* repeat it.  The elapsed time is the number of its repetition here.      *)
(***************************************************************************)
Bug_SlotUnrotated == step

Slot == (repetition + step) % 3

Measuring == stage = "measure" /\ repetition < request.repetitions

SearchTimed(effort) ==
    /\ Measuring /\ position < Len(queries)
    /\ total' = Accumulate(total, effort)
    /\ position' = position + 1
    /\ efforts' = Append(efforts, effort)
    /\ UNCHANGED <<graph, request, stage, rng, source, queries, reference,
                   repetition, step, summary, failure, answers, passes>>

Timed(before, counters) ==
    [total |-> counters, seconds |-> Append(before.seconds, repetition)]

EndPass ==
    /\ Measuring /\ position = Len(queries)
    /\ passes' = Append(passes, [repetition |-> repetition, slot |-> Slot,
                                 efforts |-> efforts])
    /\ efforts' = <<>>
    /\ IF repetition > 0 /\ ~CountersMatch(summary[Slot].total, total)
       THEN /\ stage' = "threw" /\ failure' = "counters"
            /\ UNCHANGED <<position, repetition, step, total, summary>>
       ELSE /\ summary' = [summary EXCEPT ![Slot] = Timed(@,
                    IF repetition = 0 THEN total ELSE @.total)]
            /\ position' = 0 /\ total' = NoEffort
            /\ step' = (step + 1) % 3
            /\ repetition' = IF step = 2 THEN repetition + 1 ELSE repetition
            /\ UNCHANGED <<stage, failure>>
    /\ UNCHANGED <<graph, request, rng, source, queries, reference, answers>>

Report ==
    /\ stage = "measure" /\ repetition = request.repetitions
    /\ stage' = "report"
    /\ UNCHANGED <<graph, request, rng, source, queries, reference, position,
                   repetition, step, total, summary, failure, seen>>

BenchmarkStep ==
    \/ CallMakeQueries \/ DrawSource \/ DrawTarget
    \/ CallRun
    \/ \E cost \in Replies : SearchReference(cost) \/ SearchAndCompare(cost)
    \/ BeginMeasuring
    \/ \E effort \in Efforts : SearchTimed(effort)
    \/ EndPass
    \/ Report

\* The calls are over, with a report or an exception.
BenchmarkOver == stage \in {"report", "threw"} /\ UNCHANGED benchmarkVars

BenchmarkNext == BenchmarkStep \/ BenchmarkOver

\* Every search returns, and nothing suspends the loops.
BenchmarkSpec ==
    BenchmarkInit /\ [][BenchmarkNext]_benchmarkVars
        /\ WF_benchmarkVars(BenchmarkStep)

-----------------------------------------------------------------------------
(***************************************************************************)
(* The type invariant.  No query goes from a node to itself or out of the  *)
(* graph.                                                                  *)
(***************************************************************************)
BenchmarkTypeOK ==
    /\ stage \in {"call", "draw", "reference", "agreement", "measure", "report",
                  "threw"}
    /\ failure \in {"none", "too_few_nodes", "no_queries", "no_memory",
                    "contract", "no_repetitions", "disagreement", "counters"}
    /\ (failure # "none") = (stage = "threw")
    /\ rng \in Words
    /\ source \in Nodes(graph) \cup {NoSource}
    /\ Len(queries) <= request.count
    /\ \A i \in DOMAIN queries :
        /\ {queries[i].source, queries[i].target} \subseteq Nodes(graph)
        /\ queries[i].source # queries[i].target
    /\ position \in 0 .. Len(queries) /\ step \in 0 .. 3
    /\ repetition \in 0 .. request.repetitions

(***************************************************************************)
(* random.hpp: next_below is "unbiased", and "each attempt succeeds with   *)
(* probability greater than 1/2".  Wherever the generator stands, over its *)
(* whole period ahead every node is the source of as many attempts as any  *)
(* other node, and, once a source is drawn, every node but the source is   *)
(* the target of as many; more than half of the attempts succeed.          *)
(***************************************************************************)
Period == 2^WordBits

\* The states to come, from the present one on.
Coming[k \in 0 .. Period] == IF k = 0 THEN rng ELSE Advance(Coming[k - 1])

Attempts(bound, v) ==
    Cardinality({k \in 1 .. Period : Candidate(Coming[k], bound) = v})

AttemptsAt(target) ==
    LET n == graph.node_count
    IN  Cardinality({k \in 1 .. Period :
            LET c == Candidate(Coming[k], n - 1)
            IN  c < n - 1 /\ Target(n, c) = target})

NodesAreDrawnAlike ==
    stage = "draw" =>
        LET n == graph.node_count
            each == Attempts(n, 0)
            rest == Attempts(n - 1, 0)
        IN  /\ \A s \in Nodes(graph) : Attempts(n, s) = each
            /\ 2 * n * each > Period
            /\ source # NoSource =>
                /\ \A t \in Nodes(graph) \ {source} : AttemptsAt(t) = rest
                /\ 2 * (n - 1) * rest > Period

(***************************************************************************)
(* Nothing is measured or reported unless every algorithm answered every   *)
(* query and found a route exactly where Dijkstra did, of the same cost up *)
(* to the tolerance; so no two of them differ by more than twice that.     *)
(***************************************************************************)
RoutesFound == Cardinality({i \in DOMAIN reference : Found(reference[i])})

Within(times, a, b, scale) == Apart(a, b) * Precision <= times * scale

AgreeOn(i) ==
    LET cost == [slot \in Slots |-> answers[slot][i]]
        largest == Greatest({One} \cup {cost[slot] : slot \in Slots})
    IN  \/ \A slot \in Slots : cost[slot] = Infinity
        \/ \A slot, other \in Slots :
            /\ Found(cost[slot])
            /\ Within(2, cost[slot], cost[other], largest)
            /\ Within(1, cost[slot], cost[0], Greatest({One, cost[slot], cost[0]}))

ReportMeansAgreement ==
    stage \in {"measure", "report"} =>
        \A slot \in Slots :
            /\ DOMAIN answers[slot] = DOMAIN queries
            /\ RoutesFound = Cardinality({i \in DOMAIN queries :
                                            Found(answers[slot][i])})
            /\ \A i \in DOMAIN queries : AgreeOn(i)

(***************************************************************************)
(* benchmark.hpp: the reported counters "are exact and identical in every  *)
(* repetition, so they are recorded once".  They are the sums, and the     *)
(* largest queue, of every single pass of their algorithm, and there is one*)
(* elapsed time for each pass.                                             *)
(***************************************************************************)
IsSumOf(sum, list) ==
    \E upTo \in [0 .. Len(list) -> 0 .. sum] :
        /\ upTo[0] = 0 /\ upTo[Len(list)] = sum
        /\ \A i \in DOMAIN list : upTo[i] = upTo[i - 1] + list[i].work

IsTotalOf(sum, list) ==
    /\ IsSumOf(sum.work, list)
    /\ \A i \in DOMAIN list : list[i].largest <= sum.largest
    /\ \E i \in DOMAIN list : list[i].largest = sum.largest

SummaryIsEveryPass ==
    stage = "report" =>
        \A slot \in Slots :
            /\ summary[slot].seconds = [r \in 1 .. request.repetitions |-> r - 1]
            /\ \A i \in DOMAIN passes :
                passes[i].slot = slot =>
                    /\ DOMAIN passes[i].efforts = DOMAIN queries
                    /\ IsTotalOf(summary[slot].total, passes[i].efforts)

(***************************************************************************)
(* benchmark.hpp: the order of the algorithms rotates "so none of them     *)
(* always runs first".  Each runs once in a repetition, and at any time no *)
(* algorithm has had a place in the order more than once oftener than      *)
(* another one.                                                            *)
(***************************************************************************)
TimesAt(place, slot) ==
    Cardinality({i \in DOMAIN passes :
                    (i - 1) % 3 = place /\ passes[i].slot = slot})

NoneIsAlwaysFirst ==
    /\ \A i, j \in DOMAIN passes :
        i # j /\ passes[i].slot = passes[j].slot =>
            passes[i].repetition # passes[j].repetition
    /\ \A place \in 0 .. 2, slot, other \in Slots :
        TimesAt(place, slot) <= TimesAt(place, other) + 1

(***************************************************************************)
(* Both calls end, next_below included: the loop of rejections has no      *)
(* bound, and ends because the generator comes around to every word.       *)
(***************************************************************************)
EveryBenchmarkEnds == <>(stage \in {"report", "threw"})
=============================================================================
