------------------------- MODULE CommandLineProofs -------------------------
(***************************************************************************)
(* The program as a whole: what its exit code says, which route it prints, *)
(* and what it takes the arguments for, for any arguments, graphs, searches*)
(* that keep their promise, and answers and counters of the benchmark.     *)
(***************************************************************************)
EXTENDS CommandLine, FiniteSetTheorems, SequenceTheorems,
        WellFoundedInduction, TLAPS

-----------------------------------------------------------------------------
(***************************************************************************)
(* The inductive invariant.  Where the program is tells its command, and   *)
(* whether a graph is loaded.                                              *)
(***************************************************************************)
Labels == {"start", "parse", "check", "load", "find", "search", "generate",
           "judge", "benchmark", "caught", "exited"}

Placed ==
    /\ pc \in Labels
    /\ graph \in Graphs \cup {NoGraph}
    /\ pc \in {"start", "parse", "check", "load", "generate"} => ~Loaded
    /\ pc \in {"find", "search", "judge", "benchmark"} => Loaded
    /\ pc \notin {"start", "exited"} => arguments # <<>> /\ command \in Commands
    /\ pc \in {"find", "search"} => command = "route"
    /\ pc = "generate" => command = "generate"
    /\ pc = "load" => command # "generate"
    /\ pc \in {"judge", "benchmark"} => command = "benchmark"

\* A question has been asked, and of the nodes that the options name.
Questioned ==
    /\ pc \notin {"search", "caught", "exited"} => question = Query!NoQuestion
    /\ pc = "search" \/ question # Query!NoQuestion =>
        /\ Loaded /\ command = "route" /\ arguments # <<>>
        /\ question.source \in Named("--from")
        /\ question.target \in Named("--to")

Outcomes == {"none", "contract_error", "found", "unreachable"}

Answered ==
    /\ answer.status \in Outcomes
    /\ pc \notin {"caught", "exited"} =>
        answer = Query!NoAnswer /\ thrown = "none"
    /\ pc = "caught" => answer.status \notin {"found", "unreachable"}

\* What the benchmark may have thrown.  The program has looked at the contract
\* before, so that is not a reason.
Failing ==
    /\ failure \in {"none", "too_few_nodes", "no_queries", "no_memory",
                    "no_repetitions", "disagreement", "counters"}
    /\ (failure # "none") = (stage = "threw")
    /\ pc \notin {"benchmark", "caught", "exited"} => failure = "none"
    /\ pc = "benchmark" => graph.node_count >= 2 /\ graph.metric.passes

Refusal == arguments # <<>> /\ NeedsTheContract /\ ~graph.metric.passes

Disagreement == failure \in {"disagreement", "counters"}

\* The exception on its way says what has happened.
Thrown ==
    pc = "caught" =>
        /\ (thrown = "HeuristicContractError") = Refusal
        /\ (thrown = "BenchmarkAgreementError") = Disagreement
        /\ command = "route" /\ Loaded => Refusal

ProgramInv ==
    /\ Placed /\ Questioned /\ Answered /\ Failing /\ Thrown
    /\ ExitCodeTellsTheOutcome /\ RouteIsTheOneAsked

-----------------------------------------------------------------------------
(***************************************************************************)
(* Lemmas about the nodes with an identifier, and the labels.              *)
(***************************************************************************)
LEMMA NamesAreUnique ==
    ASSUME NEW g \in Graphs, NEW id,
           NEW u \in Nodes(g), NEW v \in Nodes(g),
           g.external_id[u] = id, g.external_id[v] = id
    PROVE  u = v
  BY ProgramAssumption

\* find_node returns a node of that name, if there is one.
LEMMA FirstIsNamed ==
    ASSUME graph \in Graphs, NEW id, NodesNamed(id) # {}
    PROVE  FirstOf(NodesNamed(id)) \in NodesNamed(id)
  <1>1. PICK v \in NodesNamed(id) : TRUE
    OBVIOUS
  <1>2. v \in Int
    BY <1>1, BenchmarkAssumption DEF NodesNamed, Nodes, IsGraph, IsCsr
  <1>3. \A w \in NodesNamed(id) : w = v
    BY <1>1, NamesAreUnique DEF NodesNamed
  <1>4. \A w \in NodesNamed(id) : v <= w
    BY <1>2, <1>3
  <1> QED
    BY <1>1, <1>4 DEF FirstOf

\* A walk begins at its source and ends at its target.
LEMMA WalkEnds ==
    ASSUME NEW g, NEW s, NEW t, NEW path, NEW cost,
           path = [i \in DOMAIN path |-> path[i]],
           Query!IsWalk(g, s, t,
               [i \in DOMAIN path |-> [node |-> path[i], cost |-> cost[i]]])
    PROVE  path[1] = s /\ path[Len(path)] = t
  <1> DEFINE walk == [i \in DOMAIN path |-> [node |-> path[i], cost |-> cost[i]]]
             Steps == [node : Query!Nodes(g), cost : Cost]
  <1>1. /\ walk \in Seq(Steps) /\ walk # <<>>
        /\ walk[1] = [node |-> s, cost |-> 0]
        /\ walk[Len(walk)].node = t
    BY DEF Query!IsWalk
  <1> DEFINE n == Len(walk)
  <1>2. n \in Nat \ {0} /\ DOMAIN path = 1 .. n
    BY <1>1, EmptySeq, LenProperties
  <1>3. path \in Seq({path[i] : i \in 1 .. n})
    BY <1>2
  <1>4. Len(path) = n
    BY <1>2, <1>3, LenProperties
  <1>5. path[1] = walk[1].node /\ path[n] = walk[n].node
    BY <1>2
  <1> QED
    BY <1>1, <1>4, <1>5

-----------------------------------------------------------------------------
(***************************************************************************)
(* The initial states, and one lemma for each kind of step.                *)
(***************************************************************************)
LEMMA InitProgram == ProgramInit => ProgramInv
  <1> SUFFICES ASSUME ProgramInit PROVE ProgramInv
    OBVIOUS
  <1> USE DEF ProgramInit, BenchmarkIdle, Query!NoQuestion, Query!NoAnswer
  <1>1. Placed
    BY DEF Placed, Labels, Loaded
  <1>2. Questioned /\ Answered
    BY DEF Questioned, Answered, Outcomes
  <1>3. Failing /\ Thrown
    BY DEF Failing, Thrown
  <1>4. ExitCodeTellsTheOutcome /\ RouteIsTheOneAsked
    BY DEF ExitCodeTellsTheOutcome, RouteIsTheOneAsked
  <1> QED
    BY <1>1, <1>2, <1>3, <1>4 DEF ProgramInv

\* Before a file is read: the program goes on, or ends with 0 or 2.
LEMMA BeforeTheFile ==
    ASSUME ProgramInv, pc \in {"start", "parse", "check"},
           UNCHANGED <<arguments, question, answer, graph, stage, failure>>,
           \/ Goto("parse") /\ arguments # <<>> /\ command \in Commands
           \/ Goto("check") /\ pc # "start"
           \/ Goto("load") /\ pc # "start" /\ command # "generate"
           \/ Goto("generate") /\ pc # "start" /\ command = "generate"
           \/ Exit(0) /\ pc = "start" /\ command \in {"--help", "-h", "help"}
           \/ Exit(2)
    PROVE  ProgramInv'
  <1> USE DEF ProgramInv, Goto, Exit
  <1>1. Placed'
    BY DEF Placed, Labels, Loaded, command
  <1>2. Questioned' /\ Answered'
    BY DEF Questioned, Answered, Placed, Loaded, command, Named
  <1>3. Failing' /\ Thrown'
    BY DEF Failing, Thrown
  <1>4. ~Loaded /\ question = Query!NoQuestion /\ answer = Query!NoAnswer
        /\ failure = "none" /\ thrown = "none"
    BY DEF Placed, Questioned, Answered, Failing
  <1>5. ExitCodeTellsTheOutcome'
    BY <1>4 DEF ExitCodeTellsTheOutcome, HasResult, NeedsTheContract, Loaded,
                command, Query!NoQuestion, Query!NoAnswer
  <1>6. RouteIsTheOneAsked'
    BY <1>4 DEF RouteIsTheOneAsked, Loaded
  <1> QED
    BY <1>1, <1>2, <1>3, <1>5, <1>6

LEMMA ArgumentSteps ==
    ProgramInv /\ (Start \/ ParseNext \/ EndParse \/ Check) => ProgramInv'
  <1> SUFFICES ASSUME ProgramInv, Start \/ ParseNext \/ EndParse \/ Check
               PROVE  ProgramInv'
    OBVIOUS
  <1>1. CASE Start
    <2>1. UNCHANGED <<arguments, question, answer, graph, stage, failure>>
      BY <1>1 DEF Start, benchmarkVars
    <2> QED
      BY <1>1, <2>1, BeforeTheFile DEF Start
  <1>2. CASE ParseNext
    <2>1. UNCHANGED <<arguments, question, answer, graph, stage, failure>>
      BY <1>2 DEF ParseNext, benchmarkVars
    <2>2. pc = "parse" /\ (Goto("parse") \/ Exit(2))
      BY <1>2 DEF ParseNext
    <2>3. arguments # <<>> /\ command \in Commands
      BY <2>2 DEF ProgramInv, Placed
    <2> QED
      BY <2>1, <2>2, <2>3, BeforeTheFile
  <1>3. CASE EndParse
    <2>1. UNCHANGED <<arguments, question, answer, graph, stage, failure>>
      BY <1>3 DEF EndParse, benchmarkVars
    <2> QED
      BY <1>3, <2>1, BeforeTheFile DEF EndParse
  <1>4. CASE Check
    <2>1. UNCHANGED <<arguments, question, answer, graph, stage, failure>>
      BY <1>4 DEF Check
    <2> QED
      BY <1>4, <2>1, BeforeTheFile DEF Check
  <1> QED
    BY <1>1, <1>2, <1>3, <1>4

LEMMA LoadStep == ProgramInv /\ Load => ProgramInv'
  <1> SUFFICES ASSUME ProgramInv, Load PROVE ProgramInv'
    OBVIOUS
  <1> USE DEF ProgramInv, Goto, Exit, Raise
  <1>1. UNCHANGED <<arguments, question, answer, stage, failure>>
    BY DEF Load
  <1>2. ~Loaded /\ question = Query!NoQuestion /\ answer = Query!NoAnswer
        /\ failure = "none" /\ thrown = "none" /\ pc = "load"
        /\ arguments # <<>> /\ command \in {"validate", "route", "benchmark"}
    BY DEF Load, Placed, Questioned, Answered, Failing, Commands
  <1>3. CASE graph' \in Graphs /\ Exit(0) /\ command = "validate"
    <2>1. Placed' /\ Loaded'
      BY <1>1, <1>2, <1>3, ProgramAssumption DEF Placed, Labels, Loaded
    <2>2. Questioned' /\ Answered' /\ Failing' /\ Thrown'
      BY <1>1, <1>2, <1>3 DEF Questioned, Answered, Failing, Thrown
    <2>3. ExitCodeTellsTheOutcome' /\ RouteIsTheOneAsked'
      BY <1>1, <1>2, <1>3, <2>1
      DEF ExitCodeTellsTheOutcome, RouteIsTheOneAsked, HasResult,
          NeedsTheContract, command, Query!NoAnswer
    <2> QED
      BY <2>1, <2>2, <2>3
  <1>4. CASE /\ graph' \in Graphs
             /\ \/ Goto("find") /\ command = "route"
                \/ Goto("judge") /\ command = "benchmark"
    <2>1. Placed' /\ Loaded'
      BY <1>1, <1>2, <1>4, ProgramAssumption DEF Placed, Labels, Loaded, command,
                                                  Commands
    <2>2. Questioned' /\ Answered' /\ Failing' /\ Thrown'
      BY <1>1, <1>2, <1>4 DEF Questioned, Answered, Failing, Thrown
    <2>3. ExitCodeTellsTheOutcome' /\ RouteIsTheOneAsked'
      BY <1>4 DEF ExitCodeTellsTheOutcome, RouteIsTheOneAsked
    <2> QED
      BY <2>1, <2>2, <2>3
  <1>5. CASE Raise("GraphLoadError") /\ UNCHANGED graph
    <2>1. Placed' /\ ~Loaded'
      BY <1>1, <1>2, <1>5 DEF Placed, Labels, Loaded, command, Commands
    <2>2. Questioned' /\ Answered' /\ Failing'
      BY <1>1, <1>2, <1>5 DEF Questioned, Answered, Failing, Query!NoAnswer
    <2>3. Thrown'
      BY <1>1, <1>2, <1>5, <2>1
      DEF Thrown, Refusal, Disagreement, NeedsTheContract, Query!NoQuestion
    <2>4. ExitCodeTellsTheOutcome' /\ RouteIsTheOneAsked'
      BY <1>5 DEF ExitCodeTellsTheOutcome, RouteIsTheOneAsked
    <2> QED
      BY <2>1, <2>2, <2>3, <2>4
  <1> QED
    BY <1>2, <1>3, <1>4, <1>5 DEF Load

LEMMA FindNodesStep == ProgramInv /\ FindNodes => ProgramInv'
  <1> SUFFICES ASSUME ProgramInv, FindNodes PROVE ProgramInv'
    OBVIOUS
  <1> USE DEF ProgramInv, Goto, Exit
  <1> DEFINE from == NodesNamed(IntegerOf(options["--from"]))
             to == NodesNamed(IntegerOf(options["--to"]))
  <1>1. UNCHANGED <<arguments, options, answer, graph, stage, failure>>
    BY DEF FindNodes, benchmarkVars
  <1>2. Loaded /\ question = Query!NoQuestion /\ answer = Query!NoAnswer
        /\ failure = "none" /\ thrown = "none" /\ pc = "find"
        /\ arguments # <<>> /\ command = "route" /\ graph \in Graphs
    BY DEF FindNodes, Placed, Questioned, Answered, Failing, Loaded
  <1>3. from = Named("--from") /\ to = Named("--to")
    BY DEF NodesNamed, Named
  <1>4. CASE {} \in {from, to} /\ Exit(3) /\ UNCHANGED question
    <2>1. Placed'
      BY <1>1, <1>2, <1>4 DEF Placed, Labels, Loaded
    <2>2. Questioned' /\ Answered' /\ Failing' /\ Thrown'
      BY <1>1, <1>2, <1>4
      DEF Questioned, Answered, Failing, Thrown, Outcomes, Query!NoAnswer
    <2>3. ExitCodeTellsTheOutcome'
      BY <1>1, <1>2, <1>4
      DEF ExitCodeTellsTheOutcome, NeedsTheContract, command, Query!NoAnswer,
          Query!NoQuestion
    <2>4. {} \in {Named("--from")', Named("--to")'}
      BY <1>1, <1>3, <1>4 DEF Named
    <2>5. RouteIsTheOneAsked'
      BY <1>4, <2>4 DEF RouteIsTheOneAsked
    <2> QED
      BY <2>1, <2>2, <2>3, <2>5
  <1>5. CASE /\ from # {} /\ to # {} /\ Goto("search")
             /\ question'.source = FirstOf(from)
             /\ question'.target = FirstOf(to)
    <2>1. question'.source \in Named("--from") /\ question'.target \in Named("--to")
      BY <1>2, <1>3, <1>5, FirstIsNamed
    <2>2. Named("--from")' = Named("--from") /\ Named("--to")' = Named("--to")
      BY <1>1 DEF Named
    <2>3. Placed'
      BY <1>1, <1>2, <1>5 DEF Placed, Labels, Loaded, command
    <2>4. Questioned'
      BY <1>1, <1>2, <1>5, <2>1, <2>2 DEF Questioned, Loaded, command
    <2>5. Answered' /\ Failing' /\ Thrown'
      BY <1>1, <1>2, <1>5 DEF Answered, Failing, Thrown, Outcomes, Query!NoAnswer
    <2>6. ExitCodeTellsTheOutcome' /\ RouteIsTheOneAsked'
      BY <1>5 DEF ExitCodeTellsTheOutcome, RouteIsTheOneAsked
    <2> QED
      BY <2>3, <2>4, <2>5, <2>6
  <1> QED
    BY <1>4, <1>5 DEF FindNodes

\* What a search that returns says of the two nodes that the options name.
LEMMA AnsweredForTheNamed ==
    ASSUME ProgramInv, pc = "search", NEW c,
           Query!NoWalkBeats(graph, question.source, question.target, c)
    PROVE  \A s \in Named("--from"), t \in Named("--to") :
               Query!NoWalkBeats(graph, s, t, c)
  <1>1. graph \in Graphs /\ question.source \in Named("--from")
        /\ question.target \in Named("--to")
    BY DEF ProgramInv, Placed, Loaded, Questioned
  <1>2. \A s \in Named("--from") : s = question.source
    BY <1>1, NamesAreUnique DEF Named
  <1>3. \A t \in Named("--to") : t = question.target
    BY <1>1, NamesAreUnique DEF Named
  <1> QED
    BY <1>2, <1>3

LEMMA SearchSteps ==
    ProgramInv /\ (FindRoute \/ FindNoRoute \/ RefuseSearch) => ProgramInv'
  <1> SUFFICES ASSUME ProgramInv, FindRoute \/ FindNoRoute \/ RefuseSearch
               PROVE  ProgramInv'
    OBVIOUS
  <1> USE DEF ProgramInv, Exit, Raise
  <1>1. Searching
    BY DEF FindRoute, FindNoRoute, RefuseSearch
  <1>2. UNCHANGED <<arguments, options, question, graph, stage, failure>>
    BY <1>1 DEF Searching, benchmarkVars
  <1>3. /\ Loaded /\ pc = "search" /\ arguments # <<>> /\ command = "route"
        /\ failure = "none" /\ thrown = "none" /\ graph \in Graphs
        /\ question.source \in Named("--from")
        /\ question.target \in Named("--to")
    BY <1>1 DEF Searching, Placed, Questioned, Answered, Failing, Loaded
  <1>4. Named("--from")' = Named("--from") /\ Named("--to")' = Named("--to")
    BY <1>2 DEF Named
  <1>5. pc' \in {"caught", "exited"} => Placed' /\ Questioned' /\ Failing'
    BY <1>2, <1>3, <1>4
    DEF Placed, Labels, Loaded, command, Questioned, Failing
  <1>6. CASE FindRoute
    <2>1. Exit(0) /\ ~Query!Refused
      BY <1>6 DEF FindRoute
    <2>2. PICK c, path :
            /\ answer' = [status |-> "found", cost |-> c, path |-> path]
            /\ path = [i \in DOMAIN path |-> path[i]]
            /\ \E cost \in [DOMAIN path -> {x \in Cost : x <= c}] :
                 Query!IsWalk(graph, question.source, question.target,
                    [i \in DOMAIN path |-> [node |-> path[i], cost |-> cost[i]]])
            /\ Query!NoWalkBeats(graph, question.source, question.target, c)
      BY <1>6 DEF FindRoute, Query!Route
    <2>3. PICK cost :
            Query!IsWalk(graph, question.source, question.target,
                [i \in DOMAIN path |-> [node |-> path[i], cost |-> cost[i]]])
      BY <2>2
    <2>4. path[1] = question.source /\ path[Len(path)] = question.target
      BY <2>2, <2>3, WalkEnds
    <2>5. Answered' /\ Thrown'
      BY <2>1, <2>2 DEF Answered, Thrown, Outcomes
    <2>6. ~Refusal
      BY <1>3, <2>1 DEF Refusal, NeedsTheContract, Query!Refused
    <2>7. ExitCodeTellsTheOutcome'
      BY <1>2, <1>3, <2>1, <2>2, <2>6
      DEF ExitCodeTellsTheOutcome, HasResult, NeedsTheContract, Loaded, command,
          Refusal
    <2>8. \A s \in Named("--from"), t \in Named("--to") :
            Query!NoWalkBeats(graph, s, t, c)
      BY <1>3, <2>2, AnsweredForTheNamed
    <2>9. RouteIsTheOneAsked'
      BY <1>2, <1>3, <1>4, <2>1, <2>2, <2>4, <2>8 DEF RouteIsTheOneAsked
    <2> QED
      BY <1>5, <2>1, <2>5, <2>7, <2>9
  <1>7. CASE FindNoRoute
    <2>1. Exit(1) /\ ~Query!Refused
      BY <1>7 DEF FindNoRoute
    <2>2. /\ answer'.status = "unreachable" /\ answer'.cost = Infinity
          /\ Query!NoWalkBeats(graph, question.source, question.target, Infinity)
      BY <1>7 DEF FindNoRoute, Query!NoRoute, Query!NoAnswer
    <2>3. Answered' /\ Thrown'
      BY <2>1, <2>2 DEF Answered, Thrown, Outcomes
    <2>4. ~Refusal
      BY <1>3, <2>1 DEF Refusal, NeedsTheContract, Query!Refused
    <2>5. ExitCodeTellsTheOutcome'
      BY <1>2, <1>3, <2>1, <2>2, <2>4
      DEF ExitCodeTellsTheOutcome, NeedsTheContract, Loaded, command, Refusal
    <2>6. \A s \in Named("--from"), t \in Named("--to") :
            Query!NoWalkBeats(graph, s, t, Infinity)
      BY <1>3, <2>2, AnsweredForTheNamed
    <2>7. RouteIsTheOneAsked'
      BY <1>2, <1>4, <2>1, <2>2, <2>6 DEF RouteIsTheOneAsked
    <2> QED
      BY <1>5, <2>1, <2>3, <2>5, <2>7
  <1>8. CASE RefuseSearch
    <2>1. Raise("HeuristicContractError") /\ Query!Refused
          /\ answer'.status = "contract_error"
      BY <1>8 DEF RefuseSearch, Query!Throw, Query!NoAnswer
    <2>2. Answered'
      BY <2>1 DEF Answered, Outcomes
    <2>3. Refusal'
      BY <1>2, <1>3, <2>1 DEF Refusal, NeedsTheContract, Query!Refused, command
    <2>4. Thrown'
      <3>1. thrown' = "HeuristicContractError" /\ failure' = "none"
        BY <1>2, <1>3, <2>1
      <3> QED
        BY <2>3, <3>1 DEF Thrown, Disagreement, Refusal
    <2>5. ExitCodeTellsTheOutcome' /\ RouteIsTheOneAsked'
      BY <2>1 DEF ExitCodeTellsTheOutcome, RouteIsTheOneAsked
    <2> QED
      BY <1>5, <2>1, <2>2, <2>4, <2>5
  <1> QED
    BY <1>6, <1>7, <1>8

\* generate reads no graph, and no search or benchmark runs.
LEMMA GenerateStep == ProgramInv /\ Generate => ProgramInv'
  <1> SUFFICES ASSUME ProgramInv, Generate PROVE ProgramInv'
    OBVIOUS
  <1> USE DEF ProgramInv, Exit, Raise
  <1>1. UNCHANGED <<arguments, options, question, answer, graph, stage, failure>>
    BY DEF Generate, benchmarkVars
  <1>2. /\ ~Loaded /\ arguments # <<>> /\ command = "generate"
        /\ question = Query!NoQuestion /\ answer = Query!NoAnswer
        /\ failure = "none" /\ thrown = "none"
    BY DEF Generate, Placed, Questioned, Answered, Failing
  <1>3. \/ /\ pc' = "exited" /\ exit' \in {0, 2, 3} /\ thrown' = thrown
        \/ /\ pc' = "caught"
           /\ thrown' \in {"GraphValidationError", "std::exception"}
    BY DEF Generate
  <1>4. Placed'
    BY <1>1, <1>2, <1>3 DEF Placed, Labels, Loaded, command, Commands
  <1>5. Questioned' /\ Answered' /\ Failing'
    BY <1>1, <1>2, <1>3
    DEF Questioned, Answered, Failing, Outcomes, Query!NoAnswer
  <1>6. ~Refusal' /\ ~Disagreement' /\ ~Loaded'
    BY <1>1, <1>2 DEF Refusal, Disagreement, NeedsTheContract, command, Loaded
  <1>7. Thrown'
    BY <1>3, <1>6 DEF Thrown, Refusal, Disagreement
  <1>8. ExitCodeTellsTheOutcome'
    BY <1>1, <1>2, <1>3, <1>6
    DEF ExitCodeTellsTheOutcome, HasResult, Refusal, Disagreement, command,
        Query!NoAnswer
  <1>9. RouteIsTheOneAsked'
    BY <1>6 DEF RouteIsTheOneAsked
  <1> QED
    BY <1>4, <1>5, <1>7, <1>8, <1>9

LEMMA JudgeStep == ProgramInv /\ Judge => ProgramInv'
  <1> SUFFICES ASSUME ProgramInv, Judge PROVE ProgramInv'
    OBVIOUS
  <1> USE DEF ProgramInv, Goto, Exit
  <1>1. UNCHANGED <<arguments, options, question, answer, graph, stage, failure>>
    BY DEF Judge, benchmarkVars
  <1>2. /\ Loaded /\ graph \in Graphs /\ arguments # <<>> /\ command = "benchmark"
        /\ question = Query!NoQuestion /\ answer = Query!NoAnswer
        /\ failure = "none" /\ thrown = "none"
    BY DEF Judge, Placed, Questioned, Answered, Failing, Loaded
  <1>3. graph.node_count \in Nat
    BY <1>2, BenchmarkAssumption, LimitAssumption DEF IsGraph, IsCsr
  <1>4. \/ pc' = "exited" /\ exit' = 3 /\ thrown' = thrown /\ graph.node_count < 2
        \/ /\ pc' = "exited" /\ exit' = 4 /\ thrown' = thrown
           /\ graph.node_count >= 2 /\ ~graph.metric.passes
        \/ /\ pc' = "benchmark" /\ thrown' = thrown
           /\ graph.node_count >= 2 /\ graph.metric.passes
    BY <1>3 DEF Judge
  <1>5. Placed'
    BY <1>1, <1>2, <1>4 DEF Placed, Labels, Loaded, command, Commands
  <1>6. Questioned' /\ Answered' /\ Failing' /\ Thrown'
    BY <1>1, <1>2, <1>4
    DEF Questioned, Answered, Failing, Thrown, Outcomes, Query!NoAnswer
  <1>7. ExitCodeTellsTheOutcome'
    BY <1>1, <1>2, <1>3, <1>4
    DEF ExitCodeTellsTheOutcome, NeedsTheContract, command, Loaded,
        Query!NoAnswer
  <1>8. RouteIsTheOneAsked'
    BY <1>1, <1>2 DEF RouteIsTheOneAsked, command
  <1> QED
    BY <1>5, <1>6, <1>7, <1>8

\* The benchmark reports or throws, and not for the contract: the program has
\* looked at that.
LEMMA BenchmarkStepKeeps ==
    ASSUME Failing, pc = "benchmark", BenchmarkStep
    PROVE  /\ graph' = graph
           /\ failure' \in {"none", "too_few_nodes", "no_queries", "no_memory",
                             "no_repetitions", "disagreement", "counters"}
           /\ (failure' # "none") = (stage' = "threw")
  <1> USE DEF Failing
  <1>1. CASE CallMakeQueries
    BY <1>1 DEF CallMakeQueries, QueriesError
  <1>2. CASE DrawSource \/ DrawTarget
    <2>1. Drawing
      BY <1>2 DEF DrawSource, DrawTarget
    <2> QED
      BY <2>1 DEF Drawing
  <1>3. CASE CallRun
    BY <1>3 DEF CallRun, RunError
  <1>4. ASSUME NEW cost \in Replies, SearchReference(cost)
        PROVE  graph' = graph /\ failure' = failure /\ stage' # "threw"
               /\ stage # "threw"
    BY <1>4 DEF SearchReference
  <1>5. ASSUME NEW cost \in Replies, SearchAndCompare(cost)
        PROVE  /\ graph' = graph /\ stage # "threw"
               /\ \/ failure' = "disagreement" /\ stage' = "threw"
                  \/ failure' = failure /\ stage' = stage
    BY <1>5 DEF SearchAndCompare
  <1>6. CASE BeginMeasuring \/ Report
    BY <1>6 DEF BeginMeasuring, Report
  <1>7. ASSUME NEW effort \in Efforts, SearchTimed(effort)
        PROVE  graph' = graph /\ failure' = failure /\ stage' = stage
    BY <1>7 DEF SearchTimed
  <1>8. CASE EndPass
    <2>1. /\ graph' = graph /\ stage # "threw"
          /\ \/ failure' = "counters" /\ stage' = "threw"
             \/ failure' = failure /\ stage' = stage
      BY <1>8 DEF EndPass, Measuring
    <2> QED
      BY <2>1
  <1> QED
    BY <1>1, <1>2, <1>3, <1>4, <1>5, <1>6, <1>7, <1>8 DEF BenchmarkStep

LEMMA RunBenchmarkStep == ProgramInv /\ RunBenchmark => ProgramInv'
  <1> SUFFICES ASSUME ProgramInv, RunBenchmark PROVE ProgramInv'
    OBVIOUS
  <1> USE DEF ProgramInv
  <1>1. /\ UNCHANGED <<arguments, pc, options, question, answer, thrown>>
        /\ pc = "benchmark"
    BY DEF RunBenchmark, commandVars
  <1>2. /\ graph' = graph
        /\ failure' \in {"none", "too_few_nodes", "no_queries", "no_memory",
                          "no_repetitions", "disagreement", "counters"}
        /\ (failure' # "none") = (stage' = "threw")
    BY <1>1, BenchmarkStepKeeps DEF RunBenchmark
  <1>3. Placed'
    BY <1>1, <1>2 DEF Placed, Loaded, command
  <1>4. Questioned' /\ Answered'
    BY <1>1 DEF Questioned, Answered, Placed, command
  <1>5. Failing'
    BY <1>1, <1>2 DEF Failing
  <1>6. Thrown' /\ ExitCodeTellsTheOutcome' /\ RouteIsTheOneAsked'
    BY <1>1 DEF Thrown, ExitCodeTellsTheOutcome, RouteIsTheOneAsked
  <1> QED
    BY <1>3, <1>4, <1>5, <1>6

LEMMA EndBenchmarkStep == ProgramInv /\ EndBenchmark => ProgramInv'
  <1> SUFFICES ASSUME ProgramInv, EndBenchmark PROVE ProgramInv'
    OBVIOUS
  <1> USE DEF ProgramInv, Exit, Raise
  <1>1. UNCHANGED <<arguments, options, question, answer, graph, stage, failure>>
    BY DEF EndBenchmark, benchmarkVars
  <1>2. /\ Loaded /\ graph \in Graphs /\ arguments # <<>> /\ command = "benchmark"
        /\ question = Query!NoQuestion /\ answer = Query!NoAnswer
        /\ thrown = "none" /\ graph.metric.passes
    BY DEF EndBenchmark, Placed, Questioned, Answered, Failing, Loaded
  <1>3. ~Refusal'
    BY <1>1, <1>2 DEF Refusal
  <1>4. CASE stage = "report" /\ Exit(0)
    <2>1. failure = "none"
      BY <1>4 DEF Failing
    <2>2. Placed'
      BY <1>1, <1>2, <1>4 DEF Placed, Labels, Loaded, command, Commands
    <2>3. Questioned' /\ Answered' /\ Failing' /\ Thrown'
      BY <1>1, <1>2, <1>4
      DEF Questioned, Answered, Failing, Thrown, Outcomes, Query!NoAnswer
    <2>4. ExitCodeTellsTheOutcome'
      BY <1>1, <1>2, <1>3, <1>4, <2>1
      DEF ExitCodeTellsTheOutcome, HasResult, Refusal, command, Query!NoAnswer
    <2>5. RouteIsTheOneAsked'
      BY <1>1, <1>2 DEF RouteIsTheOneAsked, command
    <2> QED
      BY <2>2, <2>3, <2>4, <2>5
  <1>5. CASE stage = "threw" /\ Raise(ExceptionOf(failure))
    <2>1. /\ ExceptionOf(failure) # "HeuristicContractError"
          /\ (ExceptionOf(failure) = "BenchmarkAgreementError") =
                (failure \in {"disagreement", "counters"})
      BY DEF ExceptionOf, Failing
    <2>2. Placed'
      BY <1>1, <1>2, <1>5 DEF Placed, Labels, Loaded, command, Commands
    <2>3. Questioned' /\ Answered' /\ Failing'
      BY <1>1, <1>2, <1>5
      DEF Questioned, Answered, Failing, Outcomes, Query!NoAnswer
    <2>4. Thrown'
      BY <1>1, <1>2, <1>3, <1>5, <2>1 DEF Thrown, Refusal, Disagreement, command
    <2>5. ExitCodeTellsTheOutcome' /\ RouteIsTheOneAsked'
      BY <1>5 DEF ExitCodeTellsTheOutcome, RouteIsTheOneAsked
    <2> QED
      BY <2>2, <2>3, <2>4, <2>5
  <1> QED
    BY <1>4, <1>5 DEF EndBenchmark

LEMMA CatchStep == ProgramInv /\ Catch => ProgramInv'
  <1> SUFFICES ASSUME ProgramInv, Catch PROVE ProgramInv'
    OBVIOUS
  <1> USE DEF ProgramInv, Exit
  <1>1. UNCHANGED <<arguments, options, question, answer, graph, stage, failure>>
    BY DEF Catch, benchmarkVars
  <1>2. pc = "caught" /\ pc' = "exited" /\ exit' = CodeOf(thrown)
    BY DEF Catch
  <1>3. Placed' /\ Questioned'
    BY <1>1, <1>2 DEF Placed, Labels, Questioned, Loaded, command, Named
  <1>4. Answered' /\ Failing' /\ Thrown'
    BY <1>1, <1>2 DEF Answered, Failing, Thrown
  <1>5. /\ (thrown = "HeuristicContractError") = Refusal
        /\ (thrown = "BenchmarkAgreementError") = Disagreement
        /\ command = "route" /\ Loaded => Refusal
    BY <1>2 DEF Thrown
  <1>6. /\ exit' \in {3, 4, 5}
        /\ (exit' = 4) = Refusal
        /\ (exit' = 5) = Disagreement
    BY <1>2, <1>5 DEF CodeOf
  <1>7. ExitCodeTellsTheOutcome'
    BY <1>1, <1>2, <1>6
    DEF ExitCodeTellsTheOutcome, Refusal, Disagreement, NeedsTheContract, Loaded,
        command, Answered
  <1>8. RouteIsTheOneAsked'
    BY <1>1, <1>5, <1>6 DEF RouteIsTheOneAsked, Refusal, command, Loaded
  <1> QED
    BY <1>3, <1>4, <1>7, <1>8

LEMMA ExitedStep == ProgramInv /\ UNCHANGED programVars => ProgramInv'
  <1> SUFFICES ASSUME ProgramInv, UNCHANGED programVars PROVE ProgramInv'
    OBVIOUS
  <1> USE DEF ProgramInv, programVars, benchmarkVars, commandVars
  <1>1. Placed' /\ Questioned' /\ Answered' /\ Failing' /\ Thrown'
    BY DEF Placed, Questioned, Answered, Failing, Thrown, Loaded, command, Named,
           Refusal, Disagreement, NeedsTheContract
  <1>2. ExitCodeTellsTheOutcome' /\ RouteIsTheOneAsked'
    BY DEF ExitCodeTellsTheOutcome, HasResult, NeedsTheContract, Loaded, command,
           RouteIsTheOneAsked, Named
  <1> QED
    BY <1>1, <1>2

-----------------------------------------------------------------------------
(***************************************************************************)
(* ProgramInv holds in every state of the program.                         *)
(***************************************************************************)
THEOREM ProgramInvariant == ProgramSpec => []ProgramInv
  <1>1. ProgramInit => ProgramInv
    BY InitProgram
  <1>2. ProgramInv /\ [ProgramNext]_programVars => ProgramInv'
    BY ArgumentSteps, LoadStep, FindNodesStep, SearchSteps, GenerateStep,
       JudgeStep, RunBenchmarkStep, EndBenchmarkStep, CatchStep, ExitedStep
    DEF ProgramNext, Exited
  <1> QED
    BY <1>1, <1>2, PTL DEF ProgramSpec

(***************************************************************************)
(* Whatever the arguments, the files, the search and the benchmark come to,*)
(* main returns the exit code that the usage text gives the outcome.       *)
(***************************************************************************)
THEOREM ExitCodesMeanWhatTheySay == ProgramSpec => []ExitCodeTellsTheOutcome
  <1>1. ProgramInv => ExitCodeTellsTheOutcome
    BY DEF ProgramInv
  <1> QED
    BY <1>1, ProgramInvariant, PTL

(***************************************************************************)
(* If the search keeps its promise to the node indices that it is called   *)
(* with, the program keeps it to the identifiers that it was called with:  *)
(* the route it prints joins the nodes so named, and none is cheaper.      *)
(***************************************************************************)
THEOREM RouteAnswersTheQuestion == ProgramSpec => []RouteIsTheOneAsked
  <1>1. ProgramInv => RouteIsTheOneAsked
    BY DEF ProgramInv
  <1> QED
    BY <1>1, ProgramInvariant, PTL

-----------------------------------------------------------------------------
(***************************************************************************)
(* IsKeyAt is the function that its recursive definition describes: it is  *)
(* built up argument by argument.                                          *)
(***************************************************************************)
\* A set of numbers that is not empty has a least one.
LEMMA LeastNatural ==
    ASSUME NEW T \in SUBSET Nat, T # {}
    PROVE  \E m \in T : \A k \in T : m <= k
<1> DEFINE Below == {0 .. k : k \in T}
           R == StrictSubsetOrdering(Nat)
<1>1. IsWellFoundedOn(R, FiniteSubsetsOf(Nat))
  BY FS_StrictSubsetOrderingWellFounded
<1>2. \A k \in T : 0 .. k \in FiniteSubsetsOf(Nat)
  BY FS_Interval DEF FiniteSubsetsOf
<1>3. Below \subseteq FiniteSubsetsOf(Nat) /\ Below # {}
  BY <1>2
<1>4. PICK X \in Below : \A Y \in Below : <<Y, X>> \notin R
  <2> HIDE DEF Below, R
  <2> QED
    BY <1>1, <1>3, WFMin
<1>5. PICK m \in T : X = 0 .. m
  OBVIOUS
<1>6. ASSUME NEW k \in T, k < m PROVE FALSE
  <2>1. 0 .. k \subseteq 0 .. m /\ 0 .. k # 0 .. m
    BY <1>6
  <2>2. <<0 .. k, 0 .. m>> \in R
    BY <2>1 DEF StrictSubsetOrdering
  <2>3. QED
    BY <1>4, <1>5, <2>2
<1>7. QED
  BY <1>6

KeyHere(args, isKey, i) ==
    \/ i = 2
    \/ i > 2 /\ isKey[i - 1] /\ args[i - 1] = "--force"
    \/ i > 3 /\ isKey[i - 2] /\ args[i - 2] # "--force"

IsReading(args, isKey, n) == isKey = [i \in 1 .. n |-> KeyHere(args, isKey, i)]

LEMMA LongerReading ==
    ASSUME NEW args, NEW n \in Nat, NEW old, IsReading(args, old, n)
    PROVE  \E more : IsReading(args, more, n + 1)
  <1> DEFINE last == KeyHere(args, old, n + 1)
             more == [i \in 1 .. n + 1 |-> IF i <= n THEN old[i] ELSE last]
  <1>1. \A i \in 1 .. n : old[i] = KeyHere(args, old, i)
    BY DEF IsReading
  <1>2. \A i \in 1 .. n : more[i] = old[i]
    OBVIOUS
  <1>3. \A i \in 1 .. n + 1 : KeyHere(args, more, i) = KeyHere(args, old, i)
    <2> SUFFICES ASSUME NEW i \in 1 .. n + 1
                 PROVE  KeyHere(args, more, i) = KeyHere(args, old, i)
      OBVIOUS
    <2> HIDE DEF more
    <2>1. i > 2 => more[i - 1] = old[i - 1]
      BY <1>2
    <2>2. i > 3 => more[i - 2] = old[i - 2]
      BY <1>2
    <2> QED
      BY <2>1, <2>2 DEF KeyHere
  <1>4. \A i \in 1 .. n + 1 : more[i] = KeyHere(args, more, i)
    <2> SUFFICES ASSUME NEW i \in 1 .. n + 1
                 PROVE  more[i] = KeyHere(args, more, i)
      OBVIOUS
    <2>1. CASE i <= n
      <3>1. i \in 1 .. n
        BY <2>1
      <3> HIDE DEF more
      <3> QED
        BY <3>1, <1>1, <1>2, <1>3
    <2>2. CASE ~(i <= n)
      <3>1. more[i] = last /\ i = n + 1
        BY <2>2
      <3> HIDE DEF more
      <3> QED
        BY <3>1, <1>3
    <2> QED
      BY <2>1, <2>2
  <1>5. more = [i \in 1 .. n + 1 |-> more[i]]
    OBVIOUS
  <1>6. IsReading(args, more, n + 1)
    <2> HIDE DEF more
    <2> QED
      BY <1>4, <1>5 DEF IsReading
  <1> QED
    BY <1>6

LEMMA ReadingExists ==
    ASSUME NEW args, NEW n \in Nat
    PROVE  \E isKey : IsReading(args, isKey, n)
  <1> DEFINE Bad == {m \in Nat : ~ \E isKey : IsReading(args, isKey, m)}
  <1>1. ASSUME Bad # {} PROVE FALSE
    <2>1. PICK m \in Bad : \A k \in Bad : m <= k
      BY <1>1, LeastNatural
    <2>2. m # 0
      <3> DEFINE nothing == [i \in 1 .. 0 |-> TRUE]
      <3>1. nothing = [i \in 1 .. 0 |-> KeyHere(args, nothing, i)]
        OBVIOUS
      <3>2. IsReading(args, nothing, 0)
        BY <3>1 DEF IsReading
      <3> QED
        BY <3>2
    <2>3. m - 1 \in Nat /\ m - 1 \notin Bad
      BY <2>1, <2>2
    <2>4. PICK old : IsReading(args, old, m - 1)
      BY <2>3
    <2>5. \E more : IsReading(args, more, (m - 1) + 1)
      BY <2>3, <2>4, LongerReading
    <2>6. (m - 1) + 1 = m
      OBVIOUS
    <2> QED
      BY <2>5, <2>6
  <1> QED
    BY <1>1

LEMMA KeysAreRead ==
    ASSUME arguments \in Seq(STRING)
    PROVE  \A i \in 1 .. Len(arguments) + 1 :
               IsKeyAt[i] <=> KeyHere(arguments, IsKeyAt, i)
  <1> DEFINE n == Len(arguments) + 1
  <1>1. n \in Nat
    BY LenProperties
  <1>2. IsKeyAt = CHOOSE isKey : IsReading(arguments, isKey, n)
    BY DEF IsKeyAt, IsReading, KeyHere
  <1> HIDE DEF n
  <1>3. \E isKey : IsReading(arguments, isKey, n)
    BY <1>1, ReadingExists
  <1>4. IsReading(arguments, IsKeyAt, n)
    BY <1>2, <1>3
  <1> QED
    BY <1>4 DEF IsReading, n

-----------------------------------------------------------------------------
(***************************************************************************)
(* parse() against the reading of the arguments without a loop.  The key   *)
(* places before the argument that it looks at are those that it has looked*)
(* at, they are in order, and the options are what they say.               *)
(***************************************************************************)
ReadPlaces == {i \in KeyPlaces : i < next}

InOrder(i) ==
    \/ arguments[i] = "--force"
    \/ arguments[i] \in Keys /\ i + 2 <= next /\ arguments[i + 1] # ""

Said(key) == \E i \in ReadPlaces : arguments[i] = key

HasKeys(texts) == texts = [key \in Keys |-> texts[key]]

Reading ==
    /\ next \in 2 .. Len(arguments) + 1 /\ IsKeyAt[next]
    /\ force = Said("--force")
    /\ \A i \in ReadPlaces : InOrder(i)
    /\ \A i, j \in ReadPlaces : arguments[i] = arguments[j] => i = j
    /\ \A key \in Keys : Given(key) => Said(key)
    /\ \A i \in ReadPlaces :
        arguments[i] # "--force" => options[arguments[i]] = arguments[i + 1]

OptionsInv ==
    /\ arguments \in Seq(STRING) /\ HasKeys(options)
    /\ arguments # <<>> => Reading
    /\ arguments = <<>> => next = 2
    /\ pc = "parse" => arguments # <<>> /\ command \in Commands
    /\ pc \notin {"start", "parse", "exited"} => next > Len(arguments)
    /\ RefusedByParse => ~WellFormed

LEMMA InitOptions == ProgramInit => OptionsInv
  <1> SUFFICES ASSUME ProgramInit PROVE OptionsInv
    OBVIOUS
  <1>1. /\ arguments \in Seq(STRING) /\ pc = "start" /\ next = 2
        /\ force = FALSE
    BY ArgumentsAssumption DEF ProgramInit
  <1>2. HasKeys(options) /\ \A key \in Keys : ~Given(key)
    <2>1. options = [key \in Keys |-> ""]
      BY DEF ProgramInit
    <2>2. \A key \in Keys : options[key] = ""
      BY <2>1, Zenon
    <2>3. options = [key \in Keys |-> options[key]]
      BY <2>1, Zenon
    <2> QED
      BY <2>2, <2>3, Zenon DEF Given, HasKeys
  <1>3. ASSUME arguments # <<>> PROVE Reading
    <2> DEFINE n == Len(arguments)
    <2>1. n \in Nat /\ n # 0
      BY <1>1, <1>3, EmptySeq, LenProperties
    <2>2. next \in 2 .. n + 1 /\ 2 \in 1 .. n + 1
      <3> HIDE DEF n
      <3> QED
        BY <1>1, <2>1
    <2>3. IsKeyAt[2]
      <3>1. IsKeyAt[2] <=> KeyHere(arguments, IsKeyAt, 2)
        BY <1>1, <2>2, KeysAreRead
      <3> QED
        BY <3>1 DEF KeyHere
    <2>4. ReadPlaces = {}
      <3> HIDE DEF n
      <3>1. \A i \in 2 .. n : ~(i < next)
        BY <1>1, <2>1
      <3> QED
        BY <3>1 DEF ReadPlaces, KeyPlaces, n
    <2> QED
      BY <1>1, <1>2, <2>2, <2>3, <2>4 DEF Reading, Said
  <1> QED
    BY <1>1, <1>2, <1>3 DEF OptionsInv, RefusedByParse

\* What is not read again stays as it was.
LEMMA OptionsStay ==
    ASSUME OptionsInv, UNCHANGED <<arguments, next, options, force>>,
           \/ pc' = pc
           \/ pc' \notin {"start", "parse", "exited"} /\ next > Len(arguments)
           \/ pc' = "exited" /\ ~(next <= Len(arguments) /\ command \in Commands)
           \/ pc' = "exited" /\ ~WellFormed
           \/ pc' = "parse" /\ arguments # <<>> /\ command \in Commands
    PROVE  OptionsInv'
  <1>1. KeyPlaces' = KeyPlaces /\ IsKeyAt' = IsKeyAt
    BY DEF OptionsInv, KeyPlaces, IsKeyAt
  <1>2. Reading' = Reading
    BY <1>1 DEF OptionsInv, Reading, ReadPlaces, InOrder, Said, Given
  <1>3. WellFormed' = WellFormed /\ command' = command
    BY <1>1 DEF OptionsInv, WellFormed, command
  <1> QED
    BY <1>2, <1>3 DEF OptionsInv, RefusedByParse

\* A turn of the loop that refuses the argument it looks at.
LEMMA RefusalIsRight ==
    ASSUME OptionsInv, arguments # <<>>, next <= Len(arguments),
           ParseError(arguments[next]) # "none"
    PROVE  ~WellFormed
  <1> DEFINE n == Len(arguments)
             key == arguments[next]
  <1>1. Reading /\ n \in Nat /\ next \in 2 .. n
    BY LenProperties DEF OptionsInv, Reading
  <1>2. next \in KeyPlaces
    BY <1>1 DEF Reading, KeyPlaces
  <1>3. \/ key \notin Dashed
        \/ key = "--force" /\ force
        \/ key # "--force" /\ key \notin Keys
        \/ key # "--force" /\ next = n
        \/ key # "--force" /\ key \in Keys /\ Given(key)
        \/ key # "--force" /\ arguments[next + 1] = ""
    BY DEF ParseError
  <1>4. ASSUME Said(key) PROVE ~WellFormed
    <2>1. PICK i \in ReadPlaces : arguments[i] = key
      BY <1>4 DEF Said
    <2>2. i \in KeyPlaces /\ i < next
      BY <2>1 DEF ReadPlaces
    <2>3. i # next
      BY <1>1, <2>2 DEF KeyPlaces
    <2> QED
      BY <1>2, <2>1, <2>2, <2>3 DEF WellFormed
  <1>5. CASE key \notin Dashed \/ (key # "--force" /\ key \notin Keys)
    BY <1>2, <1>5, ArgumentsAssumption DEF WellFormed
  <1>6. CASE key # "--force" /\ (next = n \/ arguments[next + 1] = "")
    <2>1. next = n => ~(next < n)
      BY <1>1
    <2> QED
      BY <1>2, <1>6, <2>1 DEF WellFormed
  <1>7. CASE (key = "--force" /\ force) \/ (key \in Keys /\ Given(key))
    BY <1>1, <1>4, <1>7 DEF Reading
  <1> QED
    BY <1>3, <1>5, <1>6, <1>7

\* The key places before the next argument to look at.
LEMMA OneMorePlace ==
    ASSUME OptionsInv, arguments # <<>>, next <= Len(arguments),
           NEW after \in {next + 1, next + 2},
           arguments[next] = "--force" <=> after = next + 1,
           after <= Len(arguments) + 1
    PROVE  /\ IsKeyAt[after]
           /\ {i \in KeyPlaces : i < after} = ReadPlaces \cup {next}
  <1> DEFINE n == Len(arguments)
  <1>1. /\ Reading /\ n \in Nat /\ next \in 2 .. n
        /\ after \in 1 .. n + 1 /\ IsKeyAt[next]
    BY LenProperties DEF OptionsInv, Reading
  <1>2. arguments \in Seq(STRING)
    BY DEF OptionsInv
  <1>3. IsKeyAt[after]
    <2>1. IsKeyAt[after] <=> KeyHere(arguments, IsKeyAt, after)
      BY <1>1, <1>2, KeysAreRead
    <2>2. CASE after = next + 1
      <3>1. after > 2 /\ after - 1 = next
        BY <1>1, <2>2
      <3> QED
        BY <1>1, <2>1, <2>2, <3>1 DEF KeyHere
    <2>3. CASE after = next + 2
      <3>1. after > 3 /\ after - 2 = next /\ after # next + 1
        BY <1>1, <2>3
      <3> QED
        BY <1>1, <2>1, <3>1 DEF KeyHere
    <2> QED
      BY <2>2, <2>3
  <1>4. ASSUME after = next + 2, next + 1 \in KeyPlaces PROVE FALSE
    <2>1. next + 1 \in 1 .. n + 1 /\ IsKeyAt[next + 1]
      BY <1>4, <1>1 DEF KeyPlaces
    <2>2. KeyHere(arguments, IsKeyAt, next + 1)
      BY <2>1, <1>2, KeysAreRead
    <2>3. arguments[next] # "--force"
      BY <1>1, <1>4
    <2>4. next + 1 # 2 /\ (next + 1) - 1 = next /\ (next + 1) - 2 = next - 1
      BY <1>1
    <2>5. /\ next > 2 /\ IsKeyAt[next - 1] /\ arguments[next - 1] # "--force"
      <3>1. next + 1 > 3 => next > 2
        BY <1>1
      <3> QED
        BY <2>2, <2>3, <2>4, <3>1 DEF KeyHere
    <2>6. next - 1 \in ReadPlaces
      BY <1>1, <2>5 DEF ReadPlaces, KeyPlaces
    <2>7. (next - 1) + 2 <= next
      BY <1>1, <2>5, <2>6 DEF Reading, InOrder
    <2> QED
      BY <1>1, <2>7
  <1>5. next \in KeyPlaces
    BY <1>1 DEF KeyPlaces
  <1>6. ASSUME NEW i \in KeyPlaces
        PROVE  i < after <=> i < next \/ i = next
    <2>1. i \in 2 .. n
      BY DEF KeyPlaces
    <2>2. i = next + 1 => after # next + 2
      BY <1>4
    <2> QED
      BY <1>1, <2>1, <2>2
  <1> QED
    BY <1>3, <1>5, <1>6 DEF ReadPlaces

LEMMA ParseNextOptions ==
    ASSUME OptionsInv, ParseNext
    PROVE  OptionsInv'
  <1> DEFINE n == Len(arguments)
             key == arguments[next]
  <1>1. /\ arguments # <<>> /\ command \in Commands /\ Reading /\ n \in Nat
        /\ arguments' = arguments /\ next \in 2 .. n /\ IsKeyAt[next]
        /\ arguments \in Seq(STRING) /\ HasKeys(options)
    BY LenProperties DEF OptionsInv, ParseNext, Reading
  <1>2. CASE ParseError(key) # "none"
    <2>1. UNCHANGED <<next, options, force>> /\ pc' = "exited"
      BY <1>2 DEF ParseNext, Exit
    <2>2. ~WellFormed
      BY <1>1, <1>2, RefusalIsRight
    <2> QED
      BY <1>1, <2>1, <2>2, OptionsStay
  <1>3. CASE ParseError(key) = "none"
    <2>1. /\ pc' = "parse" /\ force' = (force \/ key = "--force")
          /\ IF key = "--force"
             THEN next' = next + 1 /\ UNCHANGED options
             ELSE /\ options' = [options EXCEPT ![key] = arguments[next + 1]]
                  /\ next' = next + 2
      BY <1>3 DEF ParseNext, Goto
    <2>2. IF key = "--force" THEN ~force
          ELSE /\ key \in Keys /\ next # n /\ ~Given(key)
               /\ arguments[next + 1] # ""
      BY <1>3 DEF ParseError
    <2>3. /\ next' \in {next + 1, next + 2}
          /\ key = "--force" <=> next' = next + 1
          /\ next' \in 2 .. n + 1 /\ next < next'
          /\ key # "--force" => next' = next + 2 /\ next + 1 \in 1 .. n
      <3> HIDE DEF n, key
      <3>1. key # "--force" =>
                next + 2 \in 2 .. n + 1 /\ next + 1 \in 1 .. n
        <4>1. key # "--force" => next # n
          BY <2>2, Zenon
        <4> QED
          BY <1>1, <4>1
      <3>2. /\ next + 1 \in 2 .. n + 1 /\ next < next + 1 /\ next < next + 2
            /\ next + 1 # next + 2
        BY <1>1
      <3> QED
        BY <2>1, <3>1, <3>2
    <2>4. KeyPlaces' = KeyPlaces /\ IsKeyAt' = IsKeyAt
      BY <1>1 DEF KeyPlaces, IsKeyAt
    <2>5. IsKeyAt[next'] /\ ReadPlaces' = ReadPlaces \cup {next}
      <3>1. ReadPlaces' = {i \in KeyPlaces : i < next'}
        BY <2>4 DEF ReadPlaces
      <3>2. next <= Len(arguments) /\ next' <= Len(arguments) + 1
        BY <1>1, <2>3
      <3>3. /\ IsKeyAt[next']
            /\ {i \in KeyPlaces : i < next'} = ReadPlaces \cup {next}
        BY <1>1, <2>3, <3>2, OneMorePlace
      <3> QED
        BY <3>1, <3>3
    <2>6. ASSUME Said(key) PROVE FALSE
      <3>1. PICK i \in ReadPlaces : arguments[i] = key
        BY <2>6 DEF Said
      <3>2. CASE key = "--force"
        BY <1>1, <2>2, <2>6, <3>2 DEF Reading
      <3>3. CASE key # "--force"
        <4>1. options[key] = arguments[i + 1] /\ arguments[i + 1] # ""
          BY <1>1, <3>1, <3>3 DEF Reading, InOrder
        <4> QED
          BY <2>2, <3>3, <4>1 DEF Given
      <3> QED
        BY <3>2, <3>3
    <2>7. \A k : Said(k)' <=> Said(k) \/ k = key
      BY <1>1, <2>5 DEF Said
    <2>8. /\ HasKeys(options')
          /\ \A k \in Keys : options'[k] =
                IF k = key THEN arguments[next + 1] ELSE options[k]
      <3>1. "--force" \notin Keys
        BY DEF Keys
      <3> DEFINE text == arguments[next + 1]
      <3>2. key # "--force" => key \in Keys
        BY <2>2, Zenon
      <3>3. \/ options' = options /\ key \notin Keys
            \/ options' = [options EXCEPT ![key] = text] /\ key \in Keys
        BY <2>1, <3>1, <3>2
      <3> HIDE DEF key, text
      <3>4. options = [k \in Keys |-> options[k]]
        BY <1>1 DEF HasKeys
      <3>5. \A k \in Keys : options'[k] = IF k = key THEN text ELSE options[k]
        BY <3>3, <3>4
      <3>6. HasKeys(options')
        BY <3>3, <3>4 DEF HasKeys
      <3> QED
        BY <3>5, <3>6 DEF key, text
    <2>9. Reading'
      <3>1. (force = Said("--force"))'
        BY <1>1, <2>1, <2>7 DEF Reading, Said
      <3>2. \A i \in ReadPlaces' : InOrder(i)'
        <4>1. ASSUME NEW i \in ReadPlaces PROVE InOrder(i)'
          <5>1. InOrder(i) /\ i \in Int
            BY <1>1 DEF Reading, ReadPlaces, KeyPlaces
          <5>2. i + 2 <= next => i + 2 <= next'
            BY <1>1, <2>3, <5>1
          <5> QED
            BY <1>1, <5>1, <5>2 DEF InOrder
        <4>2. ASSUME NEW i, i = next PROVE InOrder(i)'
          <5>1. key # "--force" => next + 2 <= next'
            BY <1>1, <2>3
          <5> QED
            BY <1>1, <2>2, <4>2, <5>1, Zenon DEF InOrder
        <4> QED
          BY <1>1, <2>5, <4>1, <4>2
      <3>3. \A i, j \in ReadPlaces' : arguments'[i] = arguments'[j] => i = j
        <4>1. \A i \in ReadPlaces : arguments[i] # key
          BY <2>6 DEF Said
        <4> QED
          BY <1>1, <2>5, <4>1 DEF Reading
      <3>4. \A k \in Keys : Given(k)' => Said(k)'
        <4> SUFFICES ASSUME NEW k \in Keys, Given(k)', k # key
                     PROVE  Said(k)
          BY <2>7
        <4>1. Given(k)
          BY <2>8 DEF Given
        <4> QED
          BY <1>1, <4>1 DEF Reading
      <3>5. \A i \in ReadPlaces' : arguments'[i] # "--force" =>
                options'[arguments'[i]] = arguments'[i + 1]
        <4>1. ASSUME NEW i \in ReadPlaces, arguments[i] # "--force"
              PROVE  options'[arguments[i]] = arguments[i + 1]
          <5>1. /\ arguments[i] \in Keys
                /\ options[arguments[i]] = arguments[i + 1]
            BY <1>1, <4>1 DEF Reading, InOrder
          <5>2. arguments[i] # key
            BY <2>6 DEF Said
          <5> QED
            BY <2>8, <5>1, <5>2
        <4>2. key # "--force" => options'[key] = arguments[next + 1]
          BY <2>2, <2>8
        <4> QED
          BY <1>1, <2>5, <4>1, <4>2
      <3> QED
        BY <1>1, <2>3, <2>4, <2>5, <3>1, <3>2, <3>3, <3>4, <3>5 DEF Reading
    <2> QED
      BY <1>1, <2>1, <2>8, <2>9 DEF OptionsInv, RefusedByParse, command
  <1> QED
    BY <1>2, <1>3

LEMMA NextOptions == OptionsInv /\ [ProgramNext]_programVars => OptionsInv'
  <1> SUFFICES ASSUME OptionsInv, [ProgramNext]_programVars PROVE OptionsInv'
    OBVIOUS
  <1>1. CASE ParseNext
    BY <1>1, ParseNextOptions
  <1>2. CASE Start
    <2>1. UNCHANGED <<arguments, next, options, force>> /\ pc = "start"
      BY <1>2 DEF Start
    <2>2. \/ pc' = "exited" /\ (arguments = <<>> \/ command \notin Commands)
          \/ pc' = "parse" /\ arguments # <<>> /\ command \in Commands
      BY <1>2 DEF Start, Exit, Goto, Commands
    <2>3. arguments = <<>> => ~(next <= Len(arguments))
      <3>1. arguments = <<>> => Len(arguments) = 0 /\ next = 2
        BY DEF OptionsInv
      <3> QED
        BY <3>1
    <2> QED
      BY <2>1, <2>2, <2>3, OptionsStay
  <1>3. CASE EndParse
    <2>1. /\ UNCHANGED <<arguments, next, options, force>>
          /\ next > Len(arguments) /\ pc' = "check"
      BY <1>3 DEF EndParse, Goto
    <2> QED
      BY <2>1, OptionsStay
  <1>4. CASE UNCHANGED <<arguments, pc, next, options, force>>
    BY <1>4, OptionsStay
  <1>5. CASE \/ Check \/ Load \/ FindNodes \/ FindRoute \/ FindNoRoute
             \/ RefuseSearch \/ Generate \/ Judge \/ EndBenchmark \/ Catch
    <2>1. /\ UNCHANGED <<arguments, next, options, force>>
          /\ pc \notin {"start", "parse", "exited"}
      BY <1>5 DEF Check, Load, FindNodes, FindRoute, FindNoRoute, RefuseSearch,
                  Searching, Generate, Judge, EndBenchmark, Catch
    <2>2. pc' \notin {"start", "parse"}
      BY <1>5 DEF Check, Load, FindNodes, FindRoute, FindNoRoute, RefuseSearch,
                  Generate, Judge, EndBenchmark, Catch, Exit, Goto, Raise
    <2>3. next > Len(arguments) /\ ~(next <= Len(arguments))
      <3>1. next > Len(arguments)
        BY <2>1 DEF OptionsInv
      <3>2. next \in Int /\ Len(arguments) \in Int
        <4>1. Len(arguments) \in Int
          BY LenProperties DEF OptionsInv
        <4>2. next \in Int
          BY <4>1 DEF OptionsInv, Reading
        <4> QED
          BY <4>1, <4>2
      <3> QED
        BY <3>1, <3>2
    <2> QED
      BY <2>1, <2>2, <2>3, OptionsStay
  <1>6. CASE RunBenchmark \/ Exited \/ UNCHANGED programVars
    <2>1. UNCHANGED <<arguments, pc, next, options, force>>
      BY <1>6 DEF RunBenchmark, Exited, programVars, commandVars
    <2> QED
      BY <2>1, OptionsStay
  <1> QED
    BY <1>1, <1>2, <1>3, <1>5, <1>6 DEF ProgramNext

(***************************************************************************)
(* Options::parse accepts exactly the arguments that the usage text        *)
(* describes and gives every option the value that was given for it,       *)
(* however many arguments there are and whatever they look like.           *)
(***************************************************************************)
THEOREM OptionsAreTheOnesGiven == ProgramSpec => []OptionsAreWhatWasSaid
  <1>1. OptionsInv => OptionsAreWhatWasSaid
    <2> SUFFICES ASSUME OptionsInv PROVE OptionsAreWhatWasSaid
      OBVIOUS
    <2>1. RefusedByParse => ~WellFormed
      BY DEF OptionsInv
    <2>2. ASSUME Parsed
          PROVE  /\ WellFormed
                 /\ force = (PlacesOf("--force") # {})
                 /\ \A key \in Keys :
                    IF PlacesOf(key) = {} THEN ~Given(key)
                    ELSE \A i \in PlacesOf(key) : options[key] = arguments[i + 1]
      <3> DEFINE n == Len(arguments)
      <3>1. Reading /\ n \in Nat /\ next = n + 1
        <4>1. Reading /\ n \in Nat
          BY <2>2, LenProperties DEF OptionsInv, Parsed
        <4>2. next > n /\ next \in 2 .. n + 1
          BY <2>2, <4>1 DEF Parsed, Reading
        <4> QED
          BY <4>1, <4>2
      <3>2. ReadPlaces = KeyPlaces
        BY <3>1 DEF ReadPlaces, KeyPlaces
      <3>3. WellFormed
        <4>1. \A i \in KeyPlaces : i \in Int /\ InOrder(i)
          BY <3>1, <3>2 DEF Reading, KeyPlaces
        <4>2. \A i \in KeyPlaces :
                \/ arguments[i] = "--force"
                \/ arguments[i] \in Keys /\ i < n /\ arguments[i + 1] # ""
          <5> SUFFICES ASSUME NEW i \in KeyPlaces, arguments[i] # "--force"
                       PROVE  /\ arguments[i] \in Keys /\ i < n
                              /\ arguments[i + 1] # ""
            OBVIOUS
          <5>1. i + 2 <= next => i < n
            <6> HIDE DEF n
            <6> QED
              BY <3>1, <4>1
          <5> QED
            BY <4>1, <5>1 DEF InOrder
        <4> QED
          BY <3>1, <3>2, <4>2 DEF WellFormed, Reading
      <3>4. \A key : Said(key) <=> PlacesOf(key) # {}
        BY <3>2 DEF Said, PlacesOf
      <3>5. "--force" \notin Keys
        BY DEF Keys
      <3>6. \A key \in Keys : \A i \in PlacesOf(key) : options[key] = arguments[i + 1]
        BY <3>1, <3>2, <3>5 DEF Reading, PlacesOf
      <3>7. force = (PlacesOf("--force") # {})
        BY <3>1, <3>4 DEF Reading
      <3>8. \A key \in Keys : PlacesOf(key) = {} => ~Given(key)
        BY <3>1, <3>4 DEF Reading
      <3> QED
        BY <3>3, <3>6, <3>7, <3>8
    <2> QED
      BY <2>1, <2>2 DEF OptionsAreWhatWasSaid
  <1>2. ProgramSpec => []OptionsInv
    BY InitOptions, NextOptions, PTL DEF ProgramSpec
  <1> QED
    BY <1>1, <1>2, PTL
=============================================================================
