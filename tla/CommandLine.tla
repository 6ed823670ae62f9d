---------------------------- MODULE CommandLine ----------------------------
(***************************************************************************)
(* The route-engine program from its arguments to its exit code (main.cpp):*)
(* the options, the checks of each subcommand, the calls it makes, and the *)
(* translation of exceptions.                                              *)
(*                                                                         *)
(* What is called is modelled elsewhere and composed here.  A search       *)
(* answers as RouteQuery promises, which Search is shown to implement; the *)
(* benchmark is Benchmark, step by step; load_graph returns any of Graphs  *)
(* or throws, and generate ends in any of the ways GenerateCommand can.    *)
(* An argument is a token; which tokens are numbers is given.              *)
(***************************************************************************)
EXTENDS Benchmark

CONSTANTS
    CommandLines,    \* the argument vectors
    Dashed,          \* tokens that begin with "--"
    IntegerOf(_),    \* the number that a token spells, or Garbled
    RealOf(_),       \* the double that a token spells, or Garbled
    Garbled,         \* what from_chars does not take, or not to the end
    IndexWords,      \* the values of std::uint32_t; Words are the 64-bit ones
    Unusable(_),     \* options whose values validate_generator_params refuses
    Walks(_, _, _),  \* as in Routes
    Algorithms,      \* as in Routes
    NoGraph          \* no graph is loaded

\* load_graph refuses a second node with an identifier it has seen.
ASSUME ProgramAssumption ==
    /\ NoGraph \notin Graphs
    /\ \A g \in Graphs : \A u, v \in Nodes(g) :
        g.external_id[u] = g.external_id[v] => u = v

VARIABLES
    arguments,   \* argv, without the name of the program
    pc,          \* where the program is
    next,        \* the index of the argument that parse() looks at
    options,     \* the text of each option, "" when it is not given
    force,       \* --force was given
    question,    \* the arguments of run_search
    answer,      \* what it returned
    thrown,      \* the type of the exception on its way to main
    exit         \* the exit code

commandVars == <<arguments, pc, next, options, force, question, answer, thrown,
                 exit>>

programVars == <<benchmarkVars, commandVars>>

Query == INSTANCE RouteQuery

-----------------------------------------------------------------------------
Commands == {"validate", "route", "generate", "benchmark"}

Keys == {"--nodes", "--edges", "--from", "--to", "--algorithm", "--width",
         "--height", "--seed", "--spacing", "--jitter", "--diagonal-rate",
         "--queries", "--repetitions"}

\* Arguments are texts, and every key begins with "--".
ASSUME ArgumentsAssumption ==
    /\ CommandLines \subseteq Seq(STRING)
    /\ Keys \cup {"--force"} \subseteq Dashed

Files == {"--nodes", "--edges"}

Required ==
    [validate  |-> Files,
     route     |-> Files \cup {"--from", "--to", "--algorithm"},
     generate  |-> Files \cup {"--width", "--height", "--seed"},
     benchmark |-> Files \cup {"--queries", "--seed", "--repetitions"}]

Accepted ==
    [Required EXCEPT !["generate"] =
        @ \cup {"--spacing", "--jitter", "--diagonal-rate"}]

command == arguments[1]

Given(key) == options[key] # ""

ProgramInit ==
    /\ arguments \in CommandLines
    /\ pc = "start"
    /\ next = 2
    /\ options = [key \in Keys |-> ""]
    /\ force = FALSE
    /\ question = Query!NoQuestion
    /\ answer = Query!NoAnswer
    /\ thrown = "none"
    /\ exit = 0
    /\ graph = NoGraph
    /\ request = [seed |-> 0, count |-> 0, repetitions |-> 0]
    /\ BenchmarkIdle

Goto(label) == pc' = label /\ UNCHANGED <<thrown, exit>>

Exit(code) == pc' = "exited" /\ exit' = code /\ UNCHANGED thrown

Raise(exception) == pc' = "caught" /\ thrown' = exception /\ UNCHANGED exit

-----------------------------------------------------------------------------
(***************************************************************************)
(* run(): the subcommand, and Options::parse, one turn of its loop a step. *)
(***************************************************************************)
Start ==
    /\ pc = "start"
    /\ IF arguments = <<>> THEN Exit(2)
       ELSE IF command \in {"--help", "-h", "help"} THEN Exit(0)
       ELSE IF command \notin Commands THEN Exit(2)
       ELSE Goto("parse")
    /\ UNCHANGED <<benchmarkVars, arguments, next, options, force, question,
                   answer>>

Bug_LastOneWins(key) ==
    IF key \notin Dashed THEN "unexpected"
    ELSE IF key = "--force" THEN IF force THEN "repeated" ELSE "none"
    ELSE IF key \notin Keys THEN "unknown"
    ELSE IF next = Len(arguments) THEN "no_value"
    ELSE IF arguments[next + 1] = "" THEN "empty_value"
    ELSE "none"

ParseError(key) ==
    IF key \notin Dashed THEN "unexpected"
    ELSE IF key = "--force" THEN IF force THEN "repeated" ELSE "none"
    ELSE IF key \notin Keys THEN "unknown"
    ELSE IF next = Len(arguments) THEN "no_value"
    ELSE IF Given(key) THEN "repeated"
    ELSE IF arguments[next + 1] = "" THEN "empty_value"
    ELSE "none"

ParseNext ==
    LET key == arguments[next] IN
    /\ pc = "parse" /\ next <= Len(arguments)
    /\ IF ParseError(key) # "none"
       THEN Exit(2) /\ UNCHANGED <<next, options, force>>
       ELSE /\ Goto("parse")
            /\ force' = (force \/ key = "--force")
            /\ IF key = "--force"
               THEN next' = next + 1 /\ UNCHANGED options
               ELSE /\ options' = [options EXCEPT ![key] = arguments[next + 1]]
                    /\ next' = next + 2
    /\ UNCHANGED <<benchmarkVars, arguments, question, answer>>

EndParse ==
    /\ pc = "parse" /\ next > Len(arguments)
    /\ Goto("check")
    /\ UNCHANGED <<benchmarkVars, arguments, next, options, force, question,
                   answer>>

-----------------------------------------------------------------------------
(***************************************************************************)
(* What each command checks before it touches a file: reject_unaccepted,   *)
(* the required options, the conversions.                                  *)
(***************************************************************************)
Unaccepted ==
    \/ \E key \in Keys \ Accepted[command] : Given(key)
    \/ force /\ command # "generate"

Missing == \E key \in Required[command] : ~Given(key)

ParsesAs(words, key) == IntegerOf(options[key]) \in words

AlgorithmOf(token) ==
    CASE token = "dijkstra"        -> "dijkstra"
      [] token = "astar-zero"      -> "astar_zero"
      [] token = "astar-euclidean" -> "astar_euclidean"
      [] OTHER                     -> "none"

ValuesOfRoute ==
    /\ AlgorithmOf(options["--algorithm"]) # "none"
    /\ ParsesAs(Words, "--from") /\ ParsesAs(Words, "--to")

ValuesOfGenerate ==
    /\ ParsesAs(IndexWords, "--width") /\ ParsesAs(IndexWords, "--height")
    /\ ParsesAs(Words, "--seed")
    /\ \A key \in {"--spacing", "--jitter", "--diagonal-rate"} :
        Given(key) => RealOf(options[key]) # Garbled
    /\ ~Unusable(options)

ValuesOfBenchmark ==
    /\ ParsesAs(Words \ {0}, "--queries")
    /\ ParsesAs(Words \ {0}, "--repetitions")
    /\ ParsesAs(Words, "--seed")

ValuesAreRight ==
    /\ command = "route" => ValuesOfRoute
    /\ command = "generate" => ValuesOfGenerate
    /\ command = "benchmark" => ValuesOfBenchmark

RequestOf ==
    IF command # "benchmark" THEN request
    ELSE [seed |-> IntegerOf(options["--seed"]),
          count |-> IntegerOf(options["--queries"]),
          repetitions |-> IntegerOf(options["--repetitions"])]

Check ==
    /\ pc = "check"
    /\ IF ~Unaccepted /\ ~Missing /\ ValuesAreRight
       THEN /\ Goto(IF command = "generate" THEN "generate" ELSE "load")
            /\ request' = RequestOf
       ELSE Exit(2) /\ UNCHANGED request
    /\ UNCHANGED <<arguments, next, options, force, question, answer, graph, stage,
                   rng, source, queries, reference, position, repetition, step,
                   total, summary, failure, seen>>

-----------------------------------------------------------------------------
(***************************************************************************)
(* load_graph, then what the command does with the graph.                  *)
(***************************************************************************)
Load ==
    /\ pc = "load"
    /\ \/ /\ graph' \in Graphs
          /\ IF command = "validate" THEN Exit(0)
             ELSE Goto(IF command = "route" THEN "find" ELSE "judge")
       \/ Raise("GraphLoadError") /\ UNCHANGED graph
    /\ UNCHANGED <<arguments, next, options, force, question, answer, request,
                   stage, rng, source, queries, reference, position, repetition,
                   step, total, summary, failure, seen>>

Bug_NodesNamed(id) == {id} \cap Nodes(graph)

\* find_node scans for the first node with this identifier.
NodesNamed(id) == {v \in Nodes(graph) : graph.external_id[v] = id}

FirstOf(S) == CHOOSE v \in S : \A w \in S : v <= w

FindNodes ==
    LET from == NodesNamed(IntegerOf(options["--from"]))
        to == NodesNamed(IntegerOf(options["--to"]))
    IN  /\ pc = "find"
        /\ IF {} \in {from, to}
           THEN Exit(3) /\ UNCHANGED question
           ELSE /\ Goto("search")
                /\ question' = [algorithm |-> AlgorithmOf(options["--algorithm"]),
                                source |-> FirstOf(from), target |-> FirstOf(to)]
        /\ UNCHANGED <<benchmarkVars, arguments, next, options, force, answer>>

Searching ==
    /\ pc = "search"
    /\ UNCHANGED <<benchmarkVars, arguments, next, options, force, question>>

FindRoute ==
    /\ Searching /\ ~Query!Refused
    /\ \E walk \in Walks(graph, question.source, question.target) :
        Query!Route(Query!CostOf(walk), [i \in DOMAIN walk |-> walk[i].node])
    /\ Exit(0)

FindNoRoute ==
    /\ Searching /\ ~Query!Refused
    /\ Query!NoRoute
    /\ Exit(1)

RefuseSearch ==
    /\ Searching /\ Query!Refused
    /\ Query!Throw("contract_error")
    /\ Raise("HeuristicContractError")

\* After the last check of the options generate may still find two equal paths,
\* an existing file, or a path it cannot open; build, write, or throw.
Generate ==
    /\ pc = "generate"
    /\ \/ \E code \in {0, 2, 3} : Exit(code)
       \/ \E exception \in {"GraphValidationError", "std::exception"} :
            Raise(exception)
    /\ UNCHANGED <<benchmarkVars, arguments, next, options, force, question,
                   answer>>

-----------------------------------------------------------------------------
\* command_benchmark looks at the graph before it calls the harness.
Judge ==
    /\ pc = "judge"
    /\ IF graph.node_count < 2 THEN Exit(3)
       ELSE IF ~graph.metric.passes THEN Exit(4)
       ELSE Goto("benchmark")
    /\ UNCHANGED <<benchmarkVars, arguments, next, options, force, question,
                   answer>>

RunBenchmark == pc = "benchmark" /\ BenchmarkStep /\ UNCHANGED commandVars

ExceptionOf(why) ==
    CASE why = "contract" -> "HeuristicContractError"
      [] why \in {"disagreement", "counters"} -> "BenchmarkAgreementError"
      [] why = "no_memory" -> "std::exception"
      [] OTHER -> "GraphValidationError"

EndBenchmark ==
    /\ pc = "benchmark"
    /\ \/ stage = "report" /\ Exit(0)
       \/ stage = "threw" /\ Raise(ExceptionOf(failure))
    /\ UNCHANGED <<benchmarkVars, arguments, next, options, force, question,
                   answer>>

(***************************************************************************)
(* main: the handlers in their order.                                      *)
(***************************************************************************)
Bug_NoHandlerForAgreement(exception) ==
    IF exception = "HeuristicContractError" THEN 4 ELSE 3

CodeOf(exception) ==
    CASE exception = "HeuristicContractError"  -> 4
      [] exception = "BenchmarkAgreementError" -> 5
      [] OTHER -> 3

Catch ==
    /\ pc = "caught"
    /\ Exit(CodeOf(thrown))
    /\ UNCHANGED <<benchmarkVars, arguments, next, options, force, question,
                   answer>>

Exited == pc = "exited" /\ UNCHANGED programVars

ProgramNext ==
    \/ Start \/ ParseNext \/ EndParse \/ Check
    \/ Load \/ FindNodes \/ FindRoute \/ FindNoRoute \/ RefuseSearch
    \/ Generate
    \/ Judge \/ RunBenchmark \/ EndBenchmark
    \/ Catch
    \/ Exited

ProgramSpec == ProgramInit /\ [][ProgramNext]_programVars

-----------------------------------------------------------------------------
(***************************************************************************)
(* The reading of the arguments that the usage text describes, without a   *)
(* loop: keys take the next argument, whatever it looks like, and --force  *)
(* none.                                                                   *)
(***************************************************************************)
IsKeyAt[i \in 1 .. Len(arguments) + 1] ==
    \/ i = 2
    \/ i > 2 /\ IsKeyAt[i - 1] /\ arguments[i - 1] = "--force"
    \/ i > 3 /\ IsKeyAt[i - 2] /\ arguments[i - 2] # "--force"

KeyPlaces == {i \in 2 .. Len(arguments) : IsKeyAt[i]}

PlacesOf(key) == {i \in KeyPlaces : arguments[i] = key}

WellFormed ==
    /\ \A i \in KeyPlaces :
        \/ arguments[i] = "--force"
        \/ /\ arguments[i] \in Keys /\ i < Len(arguments)
           /\ arguments[i + 1] # ""
    /\ \A i, j \in KeyPlaces : arguments[i] = arguments[j] => i = j

(***************************************************************************)
(* parse() accepts exactly the well-formed arguments, and every option has *)
(* the value that was given for it and no other; a value may look like a   *)
(* key.                                                                    *)
(***************************************************************************)
Parsed == pc \notin {"start", "parse"} /\ next > Len(arguments) /\ arguments # <<>>

RefusedByParse == pc = "exited" /\ next <= Len(arguments) /\ command \in Commands

OptionsAreWhatWasSaid ==
    /\ RefusedByParse => ~WellFormed
    /\ Parsed /\ command \in Commands =>
        /\ WellFormed
        /\ force = (PlacesOf("--force") # {})
        /\ \A key \in Keys :
            IF PlacesOf(key) = {} THEN ~Given(key)
            ELSE \A i \in PlacesOf(key) : options[key] = arguments[i + 1]

(***************************************************************************)
(* The exit codes mean what the usage text says, whichever way the program *)
(* came to them: 0 is a result, 1 a search without a route, 2 comes before *)
(* any file is read, 4 is the contract and nothing else, 5 a disagreement  *)
(* and nothing else.                                                       *)
(***************************************************************************)
Loaded == graph # NoGraph

HasResult ==
    \/ command \in {"--help", "-h", "help", "generate"}
    \/ command = "validate" /\ Loaded
    \/ command = "route" /\ answer.status = "found"
    \/ command = "benchmark" /\ stage = "report"

NeedsTheContract ==
    \/ command = "route" /\ question.algorithm = "astar_euclidean"
    \/ command = "benchmark" /\ Loaded /\ graph.node_count >= 2

ExitCodeTellsTheOutcome ==
    pc = "exited" =>
        /\ exit \in 0 .. 5
        /\ exit = 0 => HasResult
        /\ (exit = 1) = (answer.status = "unreachable")
        /\ exit = 2 => ~Loaded /\ thrown = "none"
        /\ (exit = 4) = (arguments # <<>> /\ NeedsTheContract /\ ~graph.metric.passes)
        /\ (exit = 5) = (failure \in {"disagreement", "counters"})

(***************************************************************************)
(* The route that is printed leads from the node with the one identifier to*)
(* the node with the other, and is a cheapest one; exit code 1 says that   *)
(* none of finite cost joins these two, and 3, once the file is loaded,    *)
(* that it names no such node.                                             *)
(***************************************************************************)
Named(key) ==
    {v \in Nodes(graph) : graph.external_id[v] = IntegerOf(options[key])}

RouteIsTheOneAsked ==
    pc = "exited" /\ arguments # <<>> /\ command = "route" /\ Loaded =>
        /\ exit = 0 =>
            /\ answer.path[1] \in Named("--from")
            /\ answer.path[Len(answer.path)] \in Named("--to")
        /\ exit \in {0, 1} =>
            \A s \in Named("--from"), t \in Named("--to") :
                Query!NoWalkBeats(graph, s, t, answer.cost)
        /\ exit = 3 => {} \in {Named("--from"), Named("--to")}
=============================================================================
