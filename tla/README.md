# route-engine-cpp: a verification project in TLA+

The specifications, model-checking configurations and proofs in this directory
describe the program in `src/`: a C++ library that loads a directed weighted
graph from two CSV files, answers shortest-path queries on it with Dijkstra,
zero-heuristic A* and Euclidean A*, and a command line around it. Every module
is a translation of the C++ source; `PROJECT.json` names, for each definition,
the lines it stands for.

Run things from this directory: `tlc -workers 2 -config SearchExact.cfg MCSearch`
checks a run, `tlapm SearchProofs.tla` checks proofs.

Contents: [1 The system](#1-the-system), [2 Modules](#2-modules),
[3 Runs](#3-runs), [4 Proofs](#4-proofs), [5 Findings and observations](#5-findings-and-observations),
[6 What is not modelled](#6-what-is-not-modelled), [7 Plan](#7-plan).

## 1 The system

| Component | State | Operations | What makes it correct |
|---|---|---|---|
| **Graph** (`graph.hpp`, `graph.cpp`) | CSR arrays (coordinates, external ids, offsets, arcs), a stored metric report; immutable | constructor, `arcs_from`, `contains`, accessors | offsets partition the arc array, arcs canonical, the report is the one the arrays define |
| **GraphBuilder** (`builder.cpp`) | four vectors, `assigned_count_`, `consumed_` | constructor, `set_node`, `add_arc`, `build`, counters | a throwing call changes nothing; only complete graphs are built; the order of calls is invisible |
| **Metric report** (`metric.cpp`) | loop indices, the report | one scan | names the first violation, counts them all, agrees with `worst_ratio` |
| **Search** (`search.cpp`) | distance, parent and settled tables, a priority queue with stale entries, counters; local to a call | validity checks, refusal, main loop, arc scan, walk back | the cheapest route, a real route, an answer at all, honest counters |
| **CSV loader** (`csv.cpp`) | two streams, records, index of external ids, a builder | open, header, rows, end, build | the graph is what the files say, or the first faulty line is reported |
| **`generate`** (`main.cpp`, `write_csv`) | a command line, two output streams, the file system | checks, two opens, writes, verdict | exit code 0 means two complete files; files it could see survive |
| **Lattice generator** (`generator.cpp`) | coordinates, a builder, draw position; local to a call | `validate_generator_params`, `generate` | connected, symmetric, fixed draw order, contract by construction |
| **Benchmark** (`benchmark.cpp`) | query set, references, summaries; local to a call | `make_query_pairs`, agreement pass, repetitions | algorithms agree, every algorithm meets every slot, repetitions do not differ |
| **SplitMix64** (`random.hpp`) | 64-bit state | `next`, `next_below`, `next_unit` | in range, unbiased, ends |
| **Command line** (`main.cpp`) | options | parse, dispatch, `validate`, `route`, `benchmark`, handlers | the options are the ones given, the exit code tells the outcome |

How they interact. Files → *loader* → *builder* → *graph* (whose constructor
runs the *metric scan*) → *search*. `generate` replaces the loader by the
lattice generator and writes the files that the loader reads. The benchmark runs
the search repeatedly on one graph. All of this is single-threaded and made of
direct calls: the only concurrency is between **processes** that share files,
and the only components that something outside can fail are the two that touch
the file system.

What is hard about it, and hence what the properties are aimed at:

* *Finite arithmetic.* Costs are doubles: sums round, overflow to infinity, and
  two priorities may tie or swap. `settled` nodes are skipped on the strength of
  an argument about real numbers.
* *Lazy deletion.* The queue holds superseded entries; which one is live is
  never stored.
* *Call order.* The builder may be used in any order, wrongly too.
* *Checking oneself.* The benchmark exists because a search may be wrong; what
  its report vouches for has to hold for searches that are.
* *Words.* Node numbers are 32-bit products and sums; the pseudo-random draws are
  masks and rejections on 64-bit words.
* *Stopping.* The search ends when the queue drains, the walk back when it meets
  the source: both need an argument.
* *Files.* Between a check of a file and its use, others may act; streams fail at
  any piece; a process may be killed.

`PROJECT.json` lists each hazard at its line with the properties that watch it.

## 2 Modules

```
Weights ── Graph ─┬─ GraphBuilder ─┬─ CsvLoader
                  │                └─ Lattice
                  ├─ MetricScan
                  ├─ Benchmark (also over SplitMix64) ── CommandLine (instance of RouteQuery)
                  └─ Routes ─┬─ RouteQuery (what a query promises)
                             └─ Search  ══ implements ══> RouteQuery
                                  └─ SearchInvariants
GenerateCommand
Doubles, GraphFamilies: values for the MC modules
```

Each module with a specification of its own has its theorems in a module that
extends it: `SearchProofs` (over SearchInvariants), `GraphBuilderProofs` (which
`CsvLoaderProofs` and `LatticeProofs` extend as well, because loader and generator
are clients of the builder), `MetricScanProofs`, `GenerateCommandProofs`,
`BenchmarkProofs`, `CommandLineProofs`.

**Weights** is the arithmetic. A cost is a member of `Cost`, a set of naturals
with `Infinity` on top: a finite-precision scale, not the reals. `Plus` is the
machine's addition. `PlusAssumption` states what IEEE addition of non-negative
doubles guarantees under any rounding (closed, commutative, 0 neutral, never
smaller than a summand, monotone); it is *not* associative. Where real addition
up to overflow is meant, a statement says `ExactArithmetic`; only the refinement
theorem does. The one `double`
left out is `-0.0`, which no comparison, sum or report tells from `0.0`.

**Graph** is the CSR record, `ArcsFrom`, and the report as one formula.
`IsGraph` is what every reader relies on.

**GraphBuilder**. A state is the object's fields; an action is one member call
with any argument in or just out of range; each call has its error as an
operator whose `IF` chain follows the order of the code's checks. `std::sort` is
any permutation that leaves no pair out of order. `Counted` is the loop that
counts row sizes one place to the right, `RowOffsets` the running sum over it.
`reply` is the return value or exception. `Orders(arcs)` are the rearrangements
the sort may try; the model takes all of them.

**MetricScan** is the double loop of `compute_metric_report`, one arc a step,
with `worst_ratio`, which `Graph` leaves out because nothing else reads it.

**Routes** says what a walk is and what it costs, added up from the source on as
both the search and the tests' path checker do. `Walks(g, s, t)` is the set of
rivals an answer is compared with: TLC gets every walk up to a length, the
proofs use *any* set.

**RouteQuery** is the interface: ask, get an exception, a cheapest route or
"unreachable", forget. **Search** is the implementation, one loop turn a step:
`Ask` (the caller), `RejectId`, `RefuseHeuristic`, `Begin`, `PopStale`,
`ReachTarget`, `Expand`, `Exhaust`, `PassArc`, `Relax`, `EndScan`, `WalkBack`,
`Return`. The queue is a set whose members carry the number of their push, which
makes it a multiset; of the entries that compare equal any may be popped first.
`Promise == INSTANCE RouteQuery WITH ...` is the refinement mapping: the caller
sees the query from `Ask` to `Return`, and the answer in `done`.

**CsvLoader** extends GraphBuilder, so the builder it drives is the same module
that is checked on its own. A stream delivers any line, its end or a failed
read, whichever the environment likes; the content of a file is therefore
nondeterministic and grows as it is read. A line is its trimmed fields plus a
byte-order mark; `from_chars` is a pair of constant functions on tokens (so
`1` and `01` are two spellings of one id).

**GenerateCommand** is `command_generate` in several processes on one disk. A
path is normalised lexically, then reaches a file through whatever links there
are. Text reaches the disk in pieces, each at its own position, in any
interleaving of the two streams: a superset of what buffering can produce.
Streams fail, processes are killed, and other programs create files at any time
(`Appear`). Two history variables are not in the code: `unseen`, the files a command
found absent when it looked, and `disturbed`, the commands whose files another has
opened or written since they opened their own first.

**Lattice** is `generate()` as a client of GraphBuilder: `Reject` or `Start`,
then `Place` for each site, `Backbone` and `Diagonals` for each cell, `AddNext`
for each arc that `connect` adds, `Finish` for `build()` and the final check.
A step that calls the builder is one action of GraphBuilder, errors included. A
draw of `next_unit` is any value of `Units`, so what holds, holds for every
seed; `drawn` is the position in the stream. Node numbers are counted modulo
`Modulus` (2^32) and the size check is made modulo its square, as in the code.
`Axis` is a coordinate in floating point, whatever its rounding: two neighbours may
even come to lie in one place.

**SplitMix64** is `next` and `next_below` on words of `WordBits` bits, the mask
made smear by smear (`Smears` are the shifts). Bitwise
operators are set operators on the places of the one bits. **Benchmark** is
`make_query_pairs` followed by `run_benchmark`, one draw or one search a step.
The searches answer *anything*: any cost or none, any effort, another thing each
time, because detecting that is what the harness is for. `answers`, `efforts`
and `passes` record what the program does not keep, for the properties only.
`work` stands for the six counters that are summed and compared alike.

**CommandLine** is `main`: an argument vector, `Options::parse` one turn of its
loop a step, the checks of the command, and then the calls, which are composed
from the other modules: the `route` command asks `RouteQuery` (the instance
`Query`, which Search implements), the `benchmark` command runs
`BenchmarkStep` of Benchmark, `load_graph` returns any graph or throws, and
`generate` ends in any way that GenerateCommand can. An exception travels to
`Catch`.

Definitions named `Bug_...` are faulty variants of the definition that follows
them (a dropped guard, a swapped order). No specification uses them; they show
that a property notices: each property is violated when its variant is put in.

## 3 Runs

| Run | Question | Bounds |
|---|---|---|
| `GraphBuilder` | any calls in any order: a sound graph independent of the order, or an error that changes nothing? | ≤ 2 nodes (3 asked for), ≤ 3 arcs (4 asked for), weights 0, 1, negative, non-finite |
| `SearchExact` | do Dijkstra and Euclidean A* answer every query with a cheapest route, and implement `RouteQuery`? | 1,688 graphs on 3 or 4 nodes, every pair of ids and one past the end, costs 0..6 and +infinity |
| `SearchRounded` | is the queue what it is claimed to be when additions round? | 512 graphs on 4 nodes, numbers of two significant bits up to 12, all three algorithms |
| `MetricScan` | is the loop's report the defined one? | no node, one node, 4 nodes with any of 9 arcs, overflowing distances and quotients |
| `CsvLoader` | is the graph what the files say, and the first fault reported? | files of ≤ 4 lines out of 15 kinds, ≤ 2 nodes and arcs |
| `GenerateCommand` | does exit code 0 vouch for the files, and which files can be lost? | 2 processes, 7 command lines, 4 files (each absent, old, or appearing on the way), 1 and 2 pieces |
| `Lattice` | is what `generate()` returns the lattice, whatever is drawn? | widths 1, 2, 3, 7 by heights 1, 2, 3 up to 7 nodes, words modulo eight and products that wrap around them, 18 arcs at most so that the arc limit is met too, the lowest and the highest draw, rates from 0 to 1, coordinates that round, in one lattice into one place, an overflow of a coordinate and of a distance, every parameter out of range |
| `Benchmark` | what does a report vouch for when searches may answer anything? | every seed for three queries on up to 5 nodes; one query in four repetitions, two queries in one; costs around the tolerance and none; words of 4 bits |
| `CommandLine` | are options, exit codes and the route the ones asked for? | argument vectors of every command, each with its faults; graphs with ids that are not indices |
| `SearchRoundedEuclidean`, `CsvLoaderReadError`, `GenerateAlias` | three statements of the repository that the code does not keep, see [Findings](#5-findings-and-observations) | as above |

Properties by run:

* `GraphBuilder`: `TypeOK`, `BuiltGraphIsSound`, `OnlyCompleteNodesAreBuilt`
  (counting calls is as good as looking at the nodes), `InsertionOrderIsInvisible`
  (the built arrays are a function of the multiset of arcs), `NothingIsSetTwice`.
* `SearchExact`: `TypeOK`, `ZeroHeuristicIsCheapest`, `EuclideanIsCheapest`,
  `RouteIsReal`, `SkipLosesNothing` (the skip of a settled neighbour),
  `SettledInOrder` and `EveryFrontierNodeIsQueued` (lazy deletion),
  `OneImprovementPerScan` (why parallel arcs are sorted by weight),
  `KeepsThePromise` (refinement of `RouteQuery`), `EveryQueryIsAnswered`.
* `SearchRounded`: `EntriesAreDistinct` (the tie-break gives a total order) and
  `CountersAgree`. `ZeroHeuristicIsCheapest` and `RouteIsReal` hold here too,
  which is proved for every rounding; `SettledInOrder` and `EuclideanIsCheapest`
  fail here for the straight-line heuristic.
* `MetricScan`: `ReportIsTheDefinedOne`, `VerdictMatchesWorstRatio`.
* `CsvLoader`: `LoaderTypeOK`, `GraphIsWhatTheFilesSay`, `FirstFaultIsReported`,
  `BuilderNeverObjects`.
* `GenerateCommand`: `TypeOK`; `SuccessMeansBothFiles` (over whatever a killed
  command left, and with other commands at work, as long as they do not write over
  the files); `SeenFilesSurvive` (what a command without `--force` destroys it has
  looked for and not found).
* `Lattice`: `LatticeTypeOK` (no index wraps around, the builder objects to
  nothing but an overflow or an arc too many), `GraphIsTheLattice`, `StronglyConnected`,
  `EveryArcIsTight`, `DrawsIgnoreTheRate`.
* `Benchmark`: `BenchmarkTypeOK` (no query from a node to itself),
  `NodesAreDrawnAlike` (over the states to come, every source and every target
  other than it is drawn equally often: the counter comes to every word, the mixing
  loses none, the mask has no hole),
  `ReportMeansAgreement`, `SummaryIsEveryPass`, `NoneIsAlwaysFirst` (the
  rotation), `EveryBenchmarkEnds` (the unbounded loop of rejections included).
* `CommandLine`: `OptionsAreWhatWasSaid` (the loop of `parse` against a reading
  of the arguments without a loop), `ExitCodeTellsTheOutcome`,
  `RouteIsTheOneAsked` (identifiers, not indices).

Why the bounds are enough to be interesting. *Search*: the 512 graphs on four
nodes contain each of a stale entry, a decrease of a queued key, a tie, a cycle,
a zero-weight cycle, a parallel arc, two nodes in one place, a contract
violation and a detour that undercuts a direct arc by two arcs; the three-node
graphs add self-loops, weights whose sum overflows and every placement of three
arcs; sixteen more have a node so far away that its estimate overflows although
its distance does not. With the rivals one arc longer than a simple route, going
round a cycle is among them. *Builder*: two nodes and three arcs allow two equal
arcs and one different, the smallest case where an unstable sort has a choice;
asking for one too many of each reaches both limits. *Loader*: four lines hold a
mark or blank line, a header, two rows; so duplicates, second rows at fault and
a fault in either file occur. *GenerateCommand*: two processes that share one,
two or no files; two pieces are the least that can be interleaved or
half-written; as a process may be killed anywhere while the other has not begun,
a later run over half-written files is among the behaviours. *Lattice*: 3 x 2 is
the smallest with two cells, hence two rounds of draws for diagonals and a node
that ends one row and precedes the next; a product that is small only modulo the
word size reaches the check in the other width. *Benchmark*: a pass of two
queries has a sum and a maximum that differ, four repetitions go once around the
rotation and begin again; the costs include one that agrees with each of two
that do not agree with each other. With four bits there are masks of every width
up to four and the generator's two products and three shifts still differ.
*CommandLine*: each command has its complete form and every way to spoil it:
missing, repeated, empty, unknown, foreign, badly spelled, a value that looks
like a key.

Fairness. `Search`: `WF_vars(Step)`, because a call that runs is straight-line
code that nothing suspends; `Ask` is the caller's and is not fair. `Benchmark`:
`WF_benchmarkVars(BenchmarkStep)` for the same reason; which word a draw gives is
*not* left to fairness but computed by SplitMix64, so the loop of rejections ends
because the generator comes around, not because of luck. The other modules state
no liveness: GraphBuilder waits for calls, CsvLoader for input, GenerateCommand
may be killed, and the loops of MetricScan and Lattice are bounded by counters.
Deadlock is checked where a state without a successor would be an error:
`GraphBuilder`, `Search`, `Lattice`, `Benchmark` and `CommandLine`, the last
three with a step that stands for being over. `MetricScan`, `CsvLoader` and
`GenerateCommand` end by design and say `CHECK_DEADLOCK FALSE`.

## 4 Proofs

TLC looks at small graphs, short files and two arithmetics. The theorems below are
proved by TLAPS for every graph, file, command line and number of processes, and
for every arithmetic that satisfies `CostAssumption` and `PlusAssumption`, hence for
doubles in round-to-nearest. A property with a theorem is the very definition
that a run of section 3 checks.

| Module | Theorem | Property, or what it states |
|---|---|---|
| `SearchProofs` | `TypeInvariant`, `TypeCorrect` | `TypeInv`, `TypeOK` |
| | `ZeroHeuristicIsOptimal` | `ZeroHeuristicIsCheapest`, any rounding |
| | `EuclideanIsOptimal` | `Trusted => EuclideanIsCheapest`, any rounding |
| | `SkipIsSound`, `ZeroHeuristicSkipIsSound` | `Trusted => SkipLosesNothing`; for the zero heuristic without the condition |
| | `NodesSettleInOrder`, `ZeroHeuristicSettlesInOrder` | `SettledInOrder`, likewise |
| | `FrontierIsQueued` | `EveryFrontierNodeIsQueued`, any heuristic, any rounding |
| | `ZeroHeuristicIsDeterministic` | `EntriesAreDistinct`, any rounding |
| | `CountersAlwaysAgree` | `CountersAgree` |
| | `ScansImproveOnce` | `OneImprovementPerScan` |
| | `PathInvariant`, `PathsAreReal` | `PathInv`, `RouteIsReal`, any heuristic, any rounding |
| | `SearchKeepsThePromise` | `KeepsThePromise`: Search implements RouteQuery; under `ExactArithmetic` and `TriangleInequality` if `astar_euclidean` is in use, else unconditionally |
| `GraphBuilderProofs` | `BuilderInvariant`, `BuilderTypeCorrect` | `BuilderInv`, `TypeOK` |
| | `BuiltGraphsAreSound` | `BuiltGraphIsSound` |
| | `CompleteNodesOnly` | `OnlyCompleteNodesAreBuilt` |
| | `InsertionOrderDoesNotMatter` | `InsertionOrderIsInvisible` |
| | `SetNodesStay` | `NothingIsSetTwice` |
| `MetricScanProofs` | `ScanInvariant`, `ScanReportsTheDefinedOne` | `ScanInv`, `ReportIsTheDefinedOne` |
| | `VerdictsAgree` | `VerdictMatchesWorstRatio` |
| `CsvLoaderProofs` | `LoadInvariant`, `LoaderTypeCorrect` | `LoadInv`, `LoaderTypeOK` |
| | `LoadedGraphSaysTheFiles` | `GraphIsWhatTheFilesSay` |
| | `FirstFaultComesFirst` | `FirstFaultIsReported` |
| | `BuilderIsNeverMisused` | `BuilderNeverObjects` |
| | `LoadedGraphsAreUsable` | a loaded graph satisfies `IsGraph` and has no identifier twice |
| `GenerateCommandProofs` | `CommandInvariant`, `CommandTypeCorrect` | `CommandInv`, `TypeOK` |
| | `SuccessVouchesForTheFiles` | `SuccessMeansBothFiles` |
| | `SeenFilesAreKept` | `SeenFilesSurvive` |
| `LatticeProofs` | `LatticeInvariant`, `LatticeTypeCorrect` | `LatticeInv`, `LatticeTypeOK` |
| | `RateDoesNotShiftTheStream` | `DrawsIgnoreTheRate` |
| | `GeneratedGraphsAreUsable` | the graph satisfies `IsGraph`, its metric report passes, the internal error is never thrown; any rounding |
| | `GeneratedGraphsAreTight` | `EveryArcIsTight`, any rounding |
| | `PairsInvariant`, `GeneratedGraphIsTheLattice` | `Listed`, `GraphIsTheLattice`, any rounding |
| | `GeneratedGraphsAreConnected` | `StronglyConnected`, any rounding |
| `BenchmarkProofs` | `BenchmarkInvariant`, `BenchmarkTypeCorrect` | `BenchmarkInv`, `BenchmarkTypeOK` |
| | `MeasuredMeansAgreed` | `ReportMeansAgreement` |
| | `CountersAreOfEveryPass` | `SummaryIsEveryPass` |
| | `OrderRotates` | `NoneIsAlwaysFirst` |
| | `DrawsAreUnbiased` | `NodesAreDrawnAlike`, any word size, shifts, odd increment and odd factors |
| `CommandLineProofs` | `ProgramInvariant`, `ExitCodesMeanWhatTheySay` | `ProgramInv`, `ExitCodeTellsTheOutcome` |
| | `RouteAnswersTheQuestion` | `RouteIsTheOneAsked` |
| | `OptionsAreTheOnesGiven` | `OptionsAreWhatWasSaid` |

### Assumptions

The named `ASSUME`s of the modules, which TLC evaluates on every run that extends
them, say what is given to a component:

* `CostAssumption`, `PlusAssumption`, `HypotAssumption`, `HypotIsEven`,
  `QuotientAssumption`: what IEEE arithmetic guarantees under any rounding.
* `LimitAssumption`, `BuilderAssumption`, `LatticeAssumption`, `LinesAssumption`,
  `FilesAssumption`, `ArgumentsAssumption`, `SplitMix64Assumption`: what kind of
  thing each parameter is.
* `GraphsAssumption`, and the parts about graphs of `BenchmarkAssumption` and
  `ProgramAssumption`: searches, benchmarks and commands meet graphs that satisfy
  `IsGraph` and have no identifier twice. There are three ways to come by a graph,
  and each is proved to give such ones: `BuiltGraphsAreSound`,
  `LoadedGraphsAreUsable`, `GeneratedGraphsAreUsable`.
* `SitesAssumption`: a coordinate that did not overflow is one.

Two statements are hypotheses of one theorem, `SearchKeepsThePromise`, and there
only if `astar_euclidean` is in use: `ExactArithmetic` (sums are exact up to overflow)
and `TriangleInequality`. They do *not* hold of doubles in general, and the
`SearchRoundedEuclidean` run shows that the first cannot be dropped. What holds of
doubles is said by the theorems with `Trusted`, a condition on the query at hand:
its estimates are consistent with the rounded costs of its routes, and do not hide
which of two is less. Whether it holds depends on the numbers in the graph, not on
the program, and it can be computed; the runs meet queries of both kinds.

### The argument

**Search** (`SearchInvariants`).

* **`TypeInv`**. `TypeOK` is not inductive: nothing in it keeps the walk back
  off the sentinel `kNoParent`, after which `parent[at]` would be read out of
  bounds. The strengthening `Reached` says that whatever has a finite distance,
  save the source, has a parent of finite distance; `Fresh` and `Unanswered` fix
  the tables and the result outside the loops.
* **`OrderInv`** is guarded by `Trusted`: the heuristic is consistent *in the
  arithmetic at hand* and does not hide which of two costs is less. Both are asked
  of the costs that routes from the source can have (`RouteCosts`), as the program
  adds them up, and of no other number: `DistancesAreCosts`, which holds without
  any condition, says that the search never compares anything else. Then every
  frontier node is queued with its latest priority, no entry of it is better
  (`EntriesAreLate`), nodes settle in order, and every arc already scanned out
  of a settled node offers no improvement (`Relaxed`). The last is stated only
  for settled nodes of finite priority: an estimate may overflow although the
  cost does not, and such nodes are on no route that could matter. By induction
  along a rival walk, its first node that is not settled has a queue entry no
  worse than the walk, so the target, popped first, is no worse either.
  `ZeroIsTrusted` discharges `Trusted` for the zero heuristic from monotonicity
  alone. `EuclideanIsTrusted` is one sufficient condition for the straight line:
  the metric contract (`~Refused`), the triangle inequality and exact sums.
* **`PathInv`**. A parent is settled, so its distance no longer changes, and an
  arc from it accounts exactly for the child's. Acyclicity is *not* a matter of
  costs (zero weights and absorbed sums make ties): a numbering `depth` that
  grows along parents is exhibited, and a relaxed node gets a fresh highest
  number, which is possible because nobody's parent is unsettled. The walk back
  then collects a strictly decreasing sequence.
* **`CountInv`** counts what was settled, pushed and scanned by the sets of nodes,
  entries and arcs; **`ScanInv`** knows that of parallel arcs the lightest comes
  first.
* **`Served`** and the other invariants give the refinement: every loop step is
  a stutter of `RouteQuery`, the step into `done` is its `Reply`.

**GraphBuilder**: `BuilderInv`. The builder compares `assigned_count_` with the
number of nodes instead of looking at the flags; the invariant is that the counter
*is* the number of set flags. The arrays are determined by counting: an arc's
slots are those after all arcs that come before it in (source, target, weight), so
they depend on the multiset alone.

**MetricScan**: `ScanInv`. The arcs behind the two loops are the first `k` of the
array, whichever row they are in, and the report is the defined one of those.

**CsvLoader**: `LoadInv`, over `BuilderInv`. The records are the good rows of the
node file in order, the index finds exactly their identifiers, the builder holds
the first of the records, and there is a *bijection* between staged arcs and rows
of the edge file, because arcs may repeat. What is read of a growing file so far
never changes.

**GenerateCommand**: `CommandInv`. A file never becomes absent again, and one that a
process has open is never old; a process writes nothing before both its streams
are open; one past the existence checks without `--force` has each of its files in
`unseen`, which only grows. A file that appears was absent, hence nobody's. While
nobody has written over them (`Undisturbed`), the files of a process hold exactly the
pieces it has written.

**Lattice**: `LatticeInv`, over `BuilderInv`, for the arithmetic of rows and
columns modulo 2^32, the sites, and the lengths of arcs between the rounded
coordinates; and `Listed` for which pairs of nodes have been connected: the
pairs below the current cell, each once, which is where row-major order has to
be inverted (`PlaceOfSite`, `SiteOfPlace`). Connectedness: of the nodes on the
other side of a set than node 0 the least one has a neighbour with a lower
number, which is on node 0's side, and arcs go both ways.

**Benchmark**: `BenchmarkInv` ties answers, passes and summaries to the loop counters,
with nothing assumed about what a search answers. `Drawn` adds that what is drawn is
a node.

**SplitMix64** (in `BenchmarkProofs`). Powers of two are counted as sets of places, and
a word and the set of its one bits are the same thing (`OnesOfWord`, `WordOfOnes`):
the sum of a set of places has exactly these bits, and there are as many sets as
words. The exclusive or of a word with its shift is one-to-one, because the highest
place in which two words differ stays different; a product with an odd factor is,
because a power of two that divides an odd multiple divides the number. So the output
comes to every word once, and the words that give a candidate correspond to the
sets of unmasked places, whichever candidate it is (`HitsAreCounted`). The smears,
one after the other, set exactly the places up to the highest one of `bound - 1`, so
more than half of the candidates are below the bound. The states to come are all
words, because two of them differ by a multiple of an odd number, which 2^WordBits
divides only if it divides the number of steps between them.

**CommandLine**: `ProgramInv`
says for every label which command it belongs to and what is loaded, asked and
thrown there. `OptionsInv` goes with the loop of `parse`: what has been collected so
far is what the keys among the arguments behind the cursor say, and the cursor
itself stands where the reading `IsKeyAt` expects a key. That this reading is a
function with the recursion's values at all is proved first, argument by argument
(`KeysAreRead`).

### What the attempts at proofs showed

* `SkipLosesNothing` used to claim that no scanned arc ever improves a settled
  neighbour. That is false where a Euclidean priority overflows and the distance
  does not. The property is now about finite priorities, and the `Remote` graphs
  that show the difference are in the `SearchExact` run.
* `LatticeTypeOK` used to say that the builder throws for nothing but an overflow.
  A lattice whose nodes fit may have more arcs than `max_arc_count()`, and
  `add_arc` then throws as well (see the observations below).

### Left to TLC

* Liveness under fairness: `EveryQueryIsAnswered`, `EveryBenchmarkEnds`.

The library's induction theorems take an operator as a parameter, which the
installed provers cannot instantiate. Where an argument needs induction (along a walk,
the parents, a lattice, a command line) it is done with the least counterexample of a
set of naturals (`LeastNatural`).

## 5 Findings and observations

Each finding has a run whose counterexample shows it.

1. `SearchRoundedEuclidean` (`search.cpp:97`). The README holds the metric
   contract sufficient for never re-expanding a settled node, and says no result
   is possibly suboptimal. Where additions round, Euclidean A* can return a
   costlier route on a graph that passes. (`EuclideanIsOptimal` and
   `EuclideanIsTrusted` show that rounding is the only reason.)
2. `CsvLoaderReadError` (`csv.cpp:86`). A stream that fails half way is taken
   for its end; a partial graph is produced, against `csv.hpp:42`.
3. `GenerateAlias` (`main.cpp:390`). Two spellings of one file pass the
   comparison after `lexically_normal`; the command reports success over a file
   of mixed lines.

Observations made on the way, without a run of their own:

* A route whose cost overflows is answered with "unreachable" and exit code 1,
  "Valid query, but no route exists" (`search.cpp:101`).
  `ZeroHeuristicIsCheapest` does not forbid it; it shows that this is the *only*
  case where "unreachable" is wrong.
* `search.cpp:31-33` claims that queued (priority, node) pairs are distinct
  because every push is a strict improvement. That holds for the zero heuristic
  (`EntriesAreDistinct`). With the straight line added, two different costs can
  round to one priority; without the restriction on the algorithm the run finds
  a state with an equal pair. Nothing relies on it: one of the two is stale.
* `worst_ratio` stays infinite when every quotient overflows, and the report
  then prints "no arc with a positive distance" (`metric.cpp:39`,
  `main.cpp:236`).
* `generate` checks for existing files, builds the lattice and only then opens
  the files with truncation (`main.cpp:397`, `main.cpp:406`): a file that another
  process creates in between is overwritten without `--force`. `SeenFilesSurvive`
  excuses exactly this.
* `benchmark.hpp:28-30` says "the number of draws per query is fixed": the
  construction needs no rejection of its own, but `next_below` rejects, so the
  position in the stream depends on the seed as well.
* Parameters that `validate_generator_params` finds usable can still make
  `generate()` throw: `width * spacing` overflows in `set_node`, a distance overflows
  in `add_arc`, or a lattice of up to `max_supported_node_count()` nodes has more
  than `max_arc_count()` arcs, the same number (`builder.hpp:21-28`). The check is
  there so that the command line can call a bad parameter a usage error
  (`generator.hpp:35-40`); these pass it and end as an error in the data.
* A `--queries` that no vector can hold ends with exit code 3 and "unexpected
  error" (`benchmark.cpp:75`, `main.cpp:605`), not as a usage error.

## 6 What is not modelled

* The wording of messages, number formatting and all printing, the median of the
  repetitions included.
* Memory exhaustion, save in `generate`, where it ends the command with code 3,
  and where `make_query_pairs` reserves: elsewhere it unwinds state that is local
  to the call.
* Text: trimming, CR, digits. `IdOf`, `NumberOf`, `IntegerOf` and `RealOf` stand
  for `from_chars`.
* Clock readings in the benchmark: an elapsed time is the number of its
  repetition.
* Words of 64 bits: SplitMix64 is checked with 4, and its theorem is for any
  number. `next_unit` is any value of its range in Lattice.
* That a node of a lattice stays inside its square, or away from its neighbours: with
  a jitter close to 0.5 rounding can end that, and nothing in the code relies on it.
* That `std::hypot` is even, so that the scan finds a reverse arc as long as the
  generator did: this is an assumption (`HypotIsEven`).
* The contents of the written CSV as numbers; that they load again is the next
  module of the plan.
* Tests and build files. `Routes!IsWalk` takes the meaning of a route from
  `tests/support/path_checker.hpp`.

## 7 Plan

Done, in order of importance: Search with its interface; GraphBuilder;
MetricScan; CsvLoader; GenerateCommand; Lattice; SplitMix64 and Benchmark;
CommandLine; the proofs of all of them.

Next module: the round trip of `write_csv` and the loader on abstract rows
(identifiers from 1, rows in canonical order, comments skipped), composed from
Lattice and CsvLoader.
