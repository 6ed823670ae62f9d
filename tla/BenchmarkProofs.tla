-------------------------- MODULE BenchmarkProofs --------------------------
(***************************************************************************)
(* The benchmark harness: what a report says about the three algorithms,   *)
(* for any answers and counters of theirs, any number of queries and       *)
(* repetitions, and any tolerance; and that the queries are drawn alike,   *)
(* for words of any length, any shifts, and any odd increment and factors. *)
(***************************************************************************)
EXTENDS Benchmark, FiniteSetTheorems, FunctionTheorems, SequenceTheorems,
        WellFoundedInduction, TLAPS

-----------------------------------------------------------------------------
(***************************************************************************)
(* The inductive invariant, part by part.  What is drawn is left open: the *)
(* queries are a sequence, of whatever they may be.                        *)
(***************************************************************************)
Asked == {queries[i] : i \in DOMAIN queries}

Counters == [work : Nat, largest : Nat]

Typed ==
    /\ graph \in Graphs /\ request \in Requests
    /\ stage \in {"call", "draw", "reference", "agreement", "measure", "report",
                  "threw"}
    /\ failure \in {"none", "too_few_nodes", "no_queries", "no_memory",
                    "contract", "no_repetitions", "disagreement", "counters"}
    /\ (failure # "none") = (stage = "threw")
    /\ rng \in Words
    /\ queries \in Seq(Asked) /\ Len(queries) <= request.count
    /\ position \in 0 .. Len(queries) /\ step \in 0 .. 3
    /\ repetition \in 0 .. request.repetitions
    /\ reference \in Seq(Cost) /\ answers \in [Slots -> Seq(Cost)]
    /\ total \in Counters /\ efforts \in Seq(Counters)
    /\ passes \in Seq([repetition : Nat, slot : Slots, efforts : Seq(Counters)])
    /\ summary \in [Slots -> [total : Counters, seconds : Seq(Nat)]]

Unmeasured ==
    /\ repetition = 0 /\ total = NoEffort /\ efforts = <<>> /\ passes = <<>>
    /\ summary = [slot \in Slots |-> NoSummary]

\* Before the warm-up there are no answers.  The warm-up answers the queries
\* of one algorithm after another, and goes on as long as they agree.
Agreed ==
    \A slot \in 1 .. 2 : \A i \in 1 .. Len(answers[slot]) :
        ~Disagree(answers[slot][i], reference[i])

Answered(slot) ==
    IF slot < step THEN Len(queries) ELSE IF slot = step THEN position ELSE 0

WarmUp ==
    /\ stage \in {"call", "draw"} =>
        /\ position = 0 /\ step = 0 /\ reference = <<>>
        /\ \A slot \in Slots : answers[slot] = <<>>
    /\ stage \in {"reference", "agreement"} =>
        /\ Unmeasured
        /\ Len(queries) > 0 /\ answers[0] = reference
        /\ \A slot \in Slots : Len(answers[slot]) = Answered(slot)
        /\ (stage = "reference") = (step = 0)
        /\ IF step = 3 THEN position = 0 ELSE position < Len(queries)
        /\ Agreed

\* After it, every algorithm has answered every query.
Warm ==
    stage \in {"measure", "report"} =>
        /\ Len(queries) > 0 /\ answers[0] = reference
        /\ \A slot \in Slots : Len(answers[slot]) = Len(queries)
        /\ Agreed

\* Which pass the n-th one is, from 0.
Rotated ==
    \A i \in DOMAIN passes :
        /\ passes[i].repetition = (i - 1) \div 3
        /\ passes[i].slot = (((i - 1) \div 3) + ((i - 1) % 3)) % 3

\* How often an algorithm's pass is over.
Rounds(r, s, slot) ==
    IF \E done \in 0 .. s - 1 : (r + done) % 3 = slot THEN r + 1 ELSE r

Measured ==
    /\ stage \in {"call", "draw"} => Unmeasured
    /\ stage \in {"measure", "report"} =>
        /\ step \in 0 .. 2
        /\ repetition = request.repetitions => step = 0
        /\ stage = "report" => repetition = request.repetitions
        /\ Len(passes) = 3 * repetition + step
        /\ Len(efforts) = position
        /\ IF position = 0 THEN total = NoEffort ELSE IsTotalOf(total, efforts)
        /\ \A i \in DOMAIN passes :
            /\ Len(passes[i].efforts) = Len(queries)
            /\ IsTotalOf(summary[passes[i].slot].total, passes[i].efforts)
        /\ \A slot \in Slots :
            summary[slot].seconds =
                [r \in 1 .. Rounds(repetition, step, slot) |-> r - 1]

BenchmarkInv == Typed /\ WarmUp /\ Warm /\ Rotated /\ Measured

-----------------------------------------------------------------------------
(***************************************************************************)
(* Lemmas about the operators.                                             *)
(***************************************************************************)
LEMMA AdvanceIsAWord == \A w \in Words : Advance(w) \in Words
  <1>1. WordBits \in Nat
    BY SplitMix64Assumption
  <1>2. 2^WordBits \in Int
    BY <1>1, SMT
  <1>3. 2^WordBits > 0
    BY <1>2, SplitMix64Assumption DEF Words
  <1> QED
    BY <1>2, <1>3, SplitMix64Assumption DEF Words, Advance

LEMMA CostsAreNumbers == Cost \subseteq Nat /\ Infinity \in Nat /\ Replies \subseteq Cost
  BY CostAssumption, BenchmarkAssumption

LEMMA GreatestOfTwo ==
    ASSUME NEW a \in Nat, NEW b \in Nat
    PROVE  /\ Greatest({a, b}) \in {a, b}
           /\ a <= Greatest({a, b}) /\ b <= Greatest({a, b})
  <1>1. \E x \in {a, b} : \A y \in {a, b} : y <= x
    OBVIOUS
  <1> QED
    BY <1>1 DEF Greatest

LEMMA GreatestOfThree ==
    ASSUME NEW a \in Nat, NEW b \in Nat, NEW c \in Nat
    PROVE  /\ Greatest({a, b, c}) \in Nat
           /\ a <= Greatest({a, b, c}) /\ b <= Greatest({a, b, c})
           /\ c <= Greatest({a, b, c})
           /\ \A m \in Nat : a <= m /\ b <= m /\ c <= m => Greatest({a, b, c}) <= m
  <1>1. \E x \in {a, b, c} : \A y \in {a, b, c} : y <= x
    OBVIOUS
  <1>2. /\ Greatest({a, b, c}) \in {a, b, c}
        /\ \A y \in {a, b, c} : y <= Greatest({a, b, c})
    BY <1>1 DEF Greatest
  <1> QED
    BY <1>2

LEMMA GreatestOfFour ==
    ASSUME NEW a \in Nat, NEW b \in Nat, NEW c \in Nat, NEW d \in Nat
    PROVE  /\ Greatest({a, b, c, d}) \in Nat
           /\ a <= Greatest({a, b, c, d}) /\ b <= Greatest({a, b, c, d})
           /\ c <= Greatest({a, b, c, d}) /\ d <= Greatest({a, b, c, d})
  <1>1. \E x \in {a, b, c, d} : \A y \in {a, b, c, d} : y <= x
    OBVIOUS
  <1>2. /\ Greatest({a, b, c, d}) \in {a, b, c, d}
        /\ \A y \in {a, b, c, d} : y <= Greatest({a, b, c, d})
    BY <1>1 DEF Greatest
  <1> QED
    BY <1>2

\* Two costs that are each within the tolerance of a third one are within
\* twice the tolerance of each other.
LEMMA ToleranceAddsUp ==
    ASSUME NEW a \in Nat, NEW b \in Nat, NEW r \in Nat,
           NEW p \in Nat, NEW m \in Nat,
           Apart(a, r) * p <= m, Apart(b, r) * p <= m
    PROVE  Apart(a, b) * p <= 2 * m
  <1>1. Apart(a, r) \in Nat /\ Apart(b, r) \in Nat /\ Apart(a, b) \in Nat
    BY DEF Apart
  <1>2. Apart(a, b) <= Apart(a, r) + Apart(b, r)
    BY DEF Apart
  <1> DEFINE x == Apart(a, r)
             y == Apart(b, r)
             z == Apart(a, b)
  <1> HIDE DEF x, y, z
  <1>3. x \in Nat /\ y \in Nat /\ z \in Nat /\ z <= x + y
    BY <1>1, <1>2 DEF x, y, z
  <1>4. z * p <= (x + y) * p
    BY <1>3
  <1>5. (x + y) * p = x * p + y * p
    BY <1>3
  <1>6. x * p <= m /\ y * p <= m
    BY DEF x, y
  <1>7. x * p \in Nat /\ y * p \in Nat /\ z * p \in Nat
    BY <1>3
  <1>8. z * p <= 2 * m
    BY <1>4, <1>5, <1>6, <1>7
  <1> QED
    BY <1>8 DEF z

\* The counters of one more search.
LEMMA TotalGrows ==
    ASSUME NEW sum \in Counters, NEW list \in Seq(Counters),
           NEW effort \in Counters,
           \/ list = <<>> /\ sum = NoEffort
           \/ list # <<>> /\ IsTotalOf(sum, list)
    PROVE  /\ Accumulate(sum, effort) \in Counters
           /\ IsTotalOf(Accumulate(sum, effort), Append(list, effort))
  <1> DEFINE new == Accumulate(sum, effort)
             longer == Append(list, effort)
             n == Len(list)
  <1>1. /\ sum.work \in Nat /\ sum.largest \in Nat
        /\ effort.work \in Nat /\ effort.largest \in Nat
        /\ n \in Nat /\ DOMAIN list = 1 .. n
    BY DEF Counters
  <1>9. \A i \in 1 .. n : list[i].largest \in Nat
    <2>1. \A i \in 1 .. n : list[i] \in Counters
      BY <1>1
    <2> QED
      BY <2>1 DEF Counters
  <1>2. /\ new \in Counters /\ new.work = sum.work + effort.work
        /\ new.largest \in {sum.largest, effort.largest}
        /\ sum.largest <= new.largest /\ effort.largest <= new.largest
    BY <1>1, GreatestOfTwo DEF Accumulate, Counters
  <1>3. /\ Len(longer) = n + 1 /\ DOMAIN longer = 1 .. n + 1
        /\ longer[n + 1] = effort
        /\ \A i \in 1 .. n : longer[i] = list[i]
    BY <1>1
  <1>4. \E upTo \in [0 .. n -> 0 .. sum.work] :
            /\ upTo[0] = 0 /\ upTo[n] = sum.work
            /\ \A i \in 1 .. n : upTo[i] = upTo[i - 1] + list[i].work
    <2>1. CASE list = <<>>
      <3>1. n = 0 /\ sum.work = 0
        BY <2>1 DEF NoEffort
      <3> WITNESS [i \in 0 .. n |-> 0] \in [0 .. n -> 0 .. sum.work]
      <3> QED
        BY <3>1
    <2>2. CASE list # <<>>
      BY <2>2, <1>1 DEF IsTotalOf, IsSumOf
    <2> QED
      BY <2>1, <2>2
  <1> HIDE DEF new, longer, n
  <1>5. PICK upTo \in [0 .. n -> 0 .. sum.work] :
            /\ upTo[0] = 0 /\ upTo[n] = sum.work
            /\ \A i \in 1 .. n : upTo[i] = upTo[i - 1] + list[i].work
    BY <1>4
  <1>6. IsSumOf(new.work, longer)
    <2> DEFINE further == [i \in 0 .. n + 1 |->
                               IF i = n + 1 THEN new.work ELSE upTo[i]]
    <2>1. \A i \in 0 .. n : upTo[i] \in Nat /\ upTo[i] <= sum.work
      BY <1>1, <1>5
    <2>2. further \in [0 .. Len(longer) -> 0 .. new.work]
      BY <2>1, <1>1, <1>2, <1>3
    <2>3. further[0] = 0 /\ further[Len(longer)] = new.work
      BY <1>1, <1>3, <1>5
    <2>4. ASSUME NEW i \in DOMAIN longer
          PROVE  further[i] = further[i - 1] + longer[i].work
      <3>1. CASE i = n + 1
        BY <3>1, <1>1, <1>2, <1>3, <1>5
      <3>2. CASE i # n + 1
        <4>1. i \in 1 .. n /\ i - 1 \in 0 .. n /\ i \in 0 .. n
          BY <3>2, <1>1, <1>3
        <4>2. further[i] = upTo[i] /\ further[i - 1] = upTo[i - 1]
          BY <4>1, <1>1
        <4> QED
          BY <4>1, <4>2, <1>3, <1>5
      <3> QED
        BY <3>1, <3>2
    <2> HIDE DEF further
    <2> QED
      BY <2>2, <2>3, <2>4 DEF IsSumOf
  <1>7. /\ \A i \in DOMAIN longer : longer[i].largest <= new.largest
        /\ \E i \in DOMAIN longer : longer[i].largest = new.largest
    <2>1. CASE list = <<>>
      <3>1. n = 0 /\ sum.largest = 0
        BY <2>1 DEF n, NoEffort
      <3>2. DOMAIN longer = {1} /\ longer[1] = effort
        BY <3>1, <1>3
      <3>3. new.largest = effort.largest
        BY <3>1, <1>1, <1>2
      <3> QED
        BY <3>2, <3>3, <1>1
    <2>2. CASE list # <<>>
      <3>1. /\ \A i \in 1 .. n : list[i].largest <= sum.largest
            /\ \E i \in 1 .. n : list[i].largest = sum.largest
        BY <2>2, <1>1 DEF IsTotalOf
      <3>2. \A i \in 1 .. n : longer[i].largest <= new.largest
        <4>1. ASSUME NEW i \in 1 .. n
              PROVE  longer[i].largest <= new.largest
          <5>1. longer[i].largest <= sum.largest /\ list[i].largest \in Nat
            BY <1>3, <1>9, <3>1
          <5>2. sum.largest \in Nat /\ new.largest \in Nat
            BY <1>2 DEF Counters
          <5>3. longer[i].largest \in Nat
            BY <1>3, <5>1
          <5> QED
            BY <1>2, <5>1, <5>2, <5>3
        <4> QED
          BY <4>1
      <3>3. \E i \in DOMAIN longer : longer[i].largest = new.largest
        <4>1. CASE new.largest = effort.largest
          BY <4>1, <1>1, <1>3
        <4>2. CASE new.largest = sum.largest
          <5>1. PICK i \in 1 .. n : list[i].largest = sum.largest
            BY <3>1
          <5>2. i \in DOMAIN longer /\ longer[i] = list[i]
            BY <5>1, <1>1, <1>3
          <5> QED
            BY <5>1, <5>2, <4>2
        <4> QED
          BY <4>1, <4>2, <1>2
      <3>4. longer[n + 1].largest <= new.largest
        BY <1>1, <1>2, <1>3
      <3>5. \A i \in DOMAIN longer : i \in 1 .. n \/ i = n + 1
        BY <1>1, <1>3
      <3>6. \A i \in DOMAIN longer : longer[i].largest <= new.largest
        BY <3>2, <3>4, <3>5
      <3> QED
        BY <3>3, <3>6
    <2> QED
      BY <2>1, <2>2
  <1>8. IsTotalOf(new, longer)
    BY <1>6, <1>7 DEF IsTotalOf
  <1> QED
    BY <1>2, <1>8 DEF new, longer

-----------------------------------------------------------------------------
(***************************************************************************)
(* Each step keeps the invariant: the drawing of the queries.              *)
(***************************************************************************)
LEMMA OneMoreQuery ==
    ASSUME queries \in Seq(Asked), NEW query, queries' = Append(queries, query)
    PROVE  queries' \in Seq(Asked') /\ Len(queries') = Len(queries) + 1
  <1> DEFINE wider == Asked \cup {query}
             n == Len(queries)
  <1>1. queries \in Seq(wider) /\ n \in Nat /\ DOMAIN queries = 1 .. n
    OBVIOUS
  <1>2. queries' \in Seq(wider) /\ Len(queries') = n + 1
    BY <1>1
  <1>3. /\ DOMAIN queries' = 1 .. n + 1 /\ queries'[n + 1] = query
        /\ \A i \in 1 .. n : queries'[i] = queries[i]
    BY <1>1
  <1>4. \A x \in wider : x \in Asked'
    <2> SUFFICES ASSUME NEW x \in wider
                 PROVE  \E i \in DOMAIN queries' : x = queries'[i]
      BY DEF Asked
    <2>1. CASE x = query
      BY <2>1, <1>1, <1>3
    <2>2. CASE x \in Asked
      <3>1. PICK i \in 1 .. n : x = queries[i]
        BY <2>2, <1>1 DEF Asked
      <3> QED
        BY <3>1, <1>1, <1>3
    <2> QED
      BY <2>1, <2>2
  <1> HIDE DEF wider, n
  <1>5. queries' \in [1 .. n + 1 -> wider] /\ n + 1 \in Nat
    BY <1>1, <1>2, LenProperties
  <1>6. queries' \in Seq(Asked')
    <2>1. \A S, T, q : (\A x \in S : x \in T) /\ q \in [1 .. n + 1 -> S] =>
                q \in [1 .. n + 1 -> T]
      OBVIOUS
    <2>2. queries' \in [1 .. n + 1 -> Asked']
      BY <1>4, <1>5, <2>1
    <2> QED
      BY <1>5, <2>2, SeqDef
  <1> QED
    BY <1>2, <1>6 DEF n

LEMMA DrawingKeepsTheInvariant ==
    ASSUME BenchmarkInv,
           CallMakeQueries \/ DrawSource \/ DrawTarget \/ CallRun
    PROVE  BenchmarkInv'
  <1>1. /\ graph' = graph /\ request' = request /\ reference' = reference
        /\ position' = position /\ repetition' = repetition /\ step' = step
        /\ total' = total /\ summary' = summary
        /\ answers' = answers /\ efforts' = efforts /\ passes' = passes
    BY DEF CallMakeQueries, DrawSource, DrawTarget, Drawing, CallRun, seen
  <1>2. stage \in {"call", "draw"} /\ stage' \in {"draw", "reference", "threw"}
    BY DEF CallMakeQueries, DrawSource, DrawTarget, Drawing, CallRun
  <1>3. request.seed \in Words /\ request.count \in Nat
    BY BenchmarkAssumption DEF BenchmarkInv, Typed
  <1>4. rng' \in Words
    BY <1>3, AdvanceIsAWord
       DEF BenchmarkInv, Typed, CallMakeQueries, DrawSource, DrawTarget,
           Drawing, CallRun
  <1>5. /\ failure' \in {"none", "too_few_nodes", "no_queries", "no_memory",
                         "contract", "no_repetitions", "disagreement",
                         "counters"}
        /\ (failure' # "none") = (stage' = "threw")
    BY DEF BenchmarkInv, Typed, CallMakeQueries, DrawSource, DrawTarget,
           Drawing, CallRun, QueriesError, RunError
  <1>6. queries' \in Seq(Asked') /\ Len(queries') <= request.count
    <2>1. CASE queries' = queries
      BY <2>1 DEF Asked, BenchmarkInv, Typed
    <2>2. CASE Drawing /\ \E query : queries' = Append(queries, query)
      <3>1. queries \in Seq(Asked) /\ Len(queries) \in Nat
        BY DEF BenchmarkInv, Typed
      <3>2. queries' \in Seq(Asked') /\ Len(queries') = Len(queries) + 1
        BY <2>2, <3>1, OneMoreQuery
      <3> QED
        BY <2>2, <3>1, <3>2, <1>3 DEF Drawing
    <2> QED
      BY <2>1, <2>2 DEF CallMakeQueries, DrawSource, DrawTarget, CallRun
  <1>7. Typed'
    <2>1. position = 0
      BY <1>2 DEF BenchmarkInv, WarmUp
    <2>2. Len(queries') \in Nat
      BY <1>6
    <2> QED
      BY <1>1, <1>2, <1>4, <1>5, <1>6, <2>1, <2>2 DEF BenchmarkInv, Typed
  <1>8. Unmeasured
    BY <1>2 DEF BenchmarkInv, Measured
  <1>9. WarmUp'
    <2>1. /\ position = 0 /\ step = 0 /\ reference = <<>>
          /\ \A slot \in Slots : answers[slot] = <<>>
      BY <1>2 DEF BenchmarkInv, WarmUp
    <2>2. ASSUME stage' = "reference" PROVE Len(queries') > 0
      <3>1. queries' = queries /\ queries # <<>>
        BY <2>2 DEF CallMakeQueries, DrawSource, DrawTarget, Drawing, CallRun,
                    RunError
      <3>2. queries \in Seq(Asked)
        BY DEF BenchmarkInv, Typed
      <3> QED
        BY <3>1, <3>2
    <2>3. Agreed'
      BY <1>1, <2>1 DEF Agreed, Slots
    <2>4. Unmeasured'
      BY <1>1, <1>8 DEF Unmeasured
    <2>5. \A slot \in Slots : Answered(slot)' = 0 \/ stage' # "reference"
      BY <1>1, <2>1 DEF Answered, Slots
    <2>6. \A slot \in Slots : Len(answers[slot]) = 0
      BY <2>1
    <2>7. answers[0] = reference
      BY <2>1 DEF Slots
    <2> QED
      BY <1>1, <1>2, <2>1, <2>2, <2>3, <2>4, <2>5, <2>6, <2>7 DEF WarmUp
  <1>10. Warm' /\ Rotated'
    BY <1>1, <1>2 DEF BenchmarkInv, Warm, Rotated
  <1>11. Measured'
    BY <1>1, <1>2, <1>8 DEF Measured, Unmeasured
  <1> QED
    BY <1>7, <1>9, <1>10, <1>11 DEF BenchmarkInv

-----------------------------------------------------------------------------
(***************************************************************************)
(* The warm-up.                                                            *)
(***************************************************************************)
LEMMA ReferenceKeepsTheInvariant ==
    ASSUME BenchmarkInv, NEW cost \in Replies, SearchReference(cost)
    PROVE  BenchmarkInv'
  <1>1. /\ graph' = graph /\ request' = request /\ rng' = rng
        /\ queries' = queries /\ repetition' = repetition /\ total' = total
        /\ summary' = summary /\ failure' = failure
        /\ efforts' = efforts /\ passes' = passes
        /\ stage = "reference" /\ stage' \in {"reference", "agreement"}
        /\ stage' = IF step' = 1 THEN "agreement" ELSE "reference"
        /\ reference' = Append(reference, cost)
        /\ answers' = [answers EXCEPT ![step] = Append(answers[step], cost)]
    BY DEF SearchReference, Recorded
  <1>2. /\ step = 0 /\ position < Len(queries) /\ answers[0] = reference
        /\ Len(answers[1]) = 0 /\ Len(answers[2]) = 0
        /\ Len(reference) = position
        /\ Unmeasured /\ Len(queries) > 0 /\ Agreed
    BY <1>1 DEF BenchmarkInv, WarmUp, Answered, Slots
  <1>3. /\ position \in Nat /\ Len(queries) \in Nat
        /\ answers \in [Slots -> Seq(Cost)] /\ cost \in Cost
        /\ reference \in Seq(Cost)
    BY CostsAreNumbers DEF BenchmarkInv, Typed
  <1>4. \/ /\ position + 1 < Len(queries)
           /\ position' = position + 1 /\ step' = 0
        \/ /\ position + 1 = Len(queries)
           /\ position' = 0 /\ step' = 1
    BY <1>2, <1>3 DEF SearchReference, NextQuery
  <1>5. /\ reference' \in Seq(Cost) /\ Len(reference') = position + 1
        /\ answers' \in [Slots -> Seq(Cost)]
        /\ answers'[0] = reference'
        /\ answers'[1] = answers[1] /\ answers'[2] = answers[2]
    BY <1>1, <1>2, <1>3 DEF Slots
  <1>6. Typed'
    <2>1. queries' \in Seq(Asked')
      BY <1>1 DEF BenchmarkInv, Typed, Asked
    <2>2. position' \in 0 .. Len(queries) /\ step' \in 0 .. 3
      BY <1>3, <1>4
    <2> QED
      BY <1>1, <1>5, <2>1, <2>2 DEF BenchmarkInv, Typed
  <1>7. WarmUp'
    <2>1. \A slot \in Slots : Len(answers'[slot]) = Answered(slot)'
      BY <1>1, <1>2, <1>3, <1>4, <1>5 DEF Answered, Slots
    <2>2. Agreed'
      BY <1>2, <1>5 DEF Agreed
    <2>3. Unmeasured'
      BY <1>1, <1>2 DEF Unmeasured
    <2> QED
      BY <1>1, <1>2, <1>3, <1>4, <1>5, <2>1, <2>2, <2>3 DEF WarmUp
  <1>8. Warm' /\ Rotated' /\ Measured'
    BY <1>1 DEF BenchmarkInv, Warm, Rotated, Measured
  <1> QED
    BY <1>6, <1>7, <1>8 DEF BenchmarkInv

LEMMA ComparisonKeepsTheInvariant ==
    ASSUME BenchmarkInv, NEW cost \in Replies, SearchAndCompare(cost)
    PROVE  BenchmarkInv'
  <1>1. /\ graph' = graph /\ request' = request /\ rng' = rng
        /\ queries' = queries /\ repetition' = repetition /\ total' = total
        /\ summary' = summary /\ reference' = reference
        /\ efforts' = efforts /\ passes' = passes
        /\ stage = "agreement" /\ stage' \in {"agreement", "threw"}
        /\ failure' = IF stage' = "threw" THEN "disagreement" ELSE failure
        /\ step \in Slots
        /\ answers' = [answers EXCEPT ![step] = Append(answers[step], cost)]
    BY DEF SearchAndCompare, Recorded
  <1>2. /\ step \in {1, 2} /\ position < Len(queries) /\ answers[0] = reference
        /\ \A slot \in Slots : Len(answers[slot]) = Answered(slot)
        /\ Unmeasured /\ Len(queries) > 0 /\ Agreed
    BY <1>1 DEF BenchmarkInv, WarmUp, Slots
  <1>3. /\ position \in Nat /\ Len(queries) \in Nat
        /\ answers \in [Slots -> Seq(Cost)] /\ cost \in Cost
    BY CostsAreNumbers DEF BenchmarkInv, Typed
  <1>4. Len(answers[step]) = position /\ answers[step] \in Seq(Cost)
    BY <1>1, <1>2, <1>3 DEF Answered
  <1>5. /\ answers' \in [Slots -> Seq(Cost)]
        /\ answers'[step] = Append(answers[step], cost)
        /\ \A slot \in Slots : slot # step => answers'[slot] = answers[slot]
    BY <1>1, <1>3, <1>4
  <1>6. /\ Len(answers'[step]) = position + 1
        /\ answers'[step][position + 1] = cost
        /\ \A i \in 1 .. position : answers'[step][i] = answers[step][i]
    BY <1>3, <1>4, <1>5
  <1>7. CASE stage' = "threw"
    <2>1. position' = position /\ step' = step
      BY <1>7, <1>1 DEF SearchAndCompare
    <2>2. Typed'
      BY <1>1, <1>5, <1>7, <2>1 DEF BenchmarkInv, Typed, Asked
    <2>3. WarmUp' /\ Warm' /\ Rotated' /\ Measured'
      BY <1>1, <1>7 DEF BenchmarkInv, WarmUp, Warm, Rotated, Measured
    <2> QED
      BY <2>2, <2>3 DEF BenchmarkInv
  <1>8. CASE stage' = "agreement"
    <2>1. ~Disagree(cost, reference[position + 1]) /\ NextQuery
      BY <1>8 DEF SearchAndCompare
    <2>2. \/ /\ position + 1 < Len(queries)
             /\ position' = position + 1 /\ step' = step
          \/ /\ position + 1 = Len(queries)
             /\ position' = 0 /\ step' = step + 1
      BY <2>1, <1>2, <1>3 DEF NextQuery
    <2>3. Typed'
      <3>1. queries' \in Seq(Asked')
        BY <1>1 DEF BenchmarkInv, Typed, Asked
      <3>2. position' \in 0 .. Len(queries) /\ step' \in 0 .. 3
        BY <1>2, <1>3, <2>2
      <3> QED
        BY <1>1, <1>5, <1>8, <3>1, <3>2 DEF BenchmarkInv, Typed
    <2>4. \A slot \in Slots : Len(answers'[slot]) = Answered(slot)'
      BY <1>1, <1>2, <1>3, <1>5, <1>6, <2>2 DEF Answered, Slots
    <2>5. Agreed'
      <3> SUFFICES ASSUME NEW slot \in 1 .. 2, NEW i \in 1 .. Len(answers'[slot])
                   PROVE  ~Disagree(answers'[slot][i], reference[i])
        BY <1>1 DEF Agreed
      <3>1. CASE slot = step
        <4>1. CASE i = position + 1
          BY <3>1, <4>1, <1>6, <2>1
        <4>2. CASE i # position + 1
          <5>1. i \in 1 .. position
            BY <3>1, <4>2, <1>3, <1>6
          <5> QED
            BY <3>1, <5>1, <1>2, <1>4, <1>6 DEF Agreed
        <4> QED
          BY <4>1, <4>2
      <3>2. CASE slot # step
        BY <3>2, <1>2, <1>5 DEF Agreed, Slots
      <3> QED
        BY <3>1, <3>2
    <2>6. Unmeasured'
      BY <1>1, <1>2 DEF Unmeasured
    <2>7. answers'[0] = reference'
      BY <1>1, <1>2, <1>5 DEF Slots
    <2>8. IF step' = 3 THEN position' = 0 ELSE position' < Len(queries)
      BY <1>2, <1>3, <2>2
    <2>9. WarmUp'
      BY <1>1, <1>2, <1>8, <2>2, <2>4, <2>5, <2>6, <2>7, <2>8 DEF WarmUp
    <2>10. Warm' /\ Rotated' /\ Measured'
      BY <1>1, <1>8 DEF BenchmarkInv, Warm, Rotated, Measured
    <2> QED
      BY <2>3, <2>9, <2>10 DEF BenchmarkInv
  <1> QED
    BY <1>1, <1>7, <1>8

LEMMA MeasuringStarts ==
    ASSUME BenchmarkInv, BeginMeasuring
    PROVE  BenchmarkInv'
  <1>1. /\ graph' = graph /\ request' = request /\ rng' = rng
        /\ queries' = queries /\ repetition' = repetition /\ total' = total
        /\ summary' = summary /\ reference' = reference /\ position' = position
        /\ failure' = failure /\ answers' = answers
        /\ efforts' = efforts /\ passes' = passes
        /\ stage = "agreement" /\ step \notin Slots
        /\ stage' = "measure" /\ step' = 0
    BY DEF BeginMeasuring, seen
  <1>2. step = 3
    BY <1>1 DEF BenchmarkInv, Typed, Slots
  <1>3. /\ position = 0 /\ Unmeasured /\ Len(queries) > 0
        /\ answers[0] = reference /\ Agreed
        /\ \A slot \in Slots : Len(answers[slot]) = Len(queries)
    BY <1>1, <1>2 DEF BenchmarkInv, WarmUp, Answered, Slots
  <1>4. Typed'
    BY <1>1 DEF BenchmarkInv, Typed, Asked
  <1>5. WarmUp' /\ Warm' /\ Rotated'
    BY <1>1, <1>3 DEF BenchmarkInv, WarmUp, Warm, Rotated, Agreed
  <1>6. Measured'
    <2>1. /\ Len(passes) = 0 /\ DOMAIN passes = {} /\ Len(efforts) = 0
          /\ repetition = 0 /\ total = NoEffort
      BY <1>3 DEF Unmeasured
    <2>2. \A slot \in Slots : summary[slot].seconds = <<>>
      BY <1>3 DEF Unmeasured, NoSummary
    <2>3. \A slot \in Slots : Rounds(repetition', step', slot) = 0
      BY <1>1, <2>1 DEF Rounds
    <2>4. <<>> = [r \in 1 .. 0 |-> r - 1]
      OBVIOUS
    <2> QED
      BY <1>1, <1>3, <2>1, <2>2, <2>3, <2>4 DEF Measured
  <1> QED
    BY <1>4, <1>5, <1>6 DEF BenchmarkInv

-----------------------------------------------------------------------------
(***************************************************************************)
(* The measured repetitions.                                               *)
(***************************************************************************)
\* After `step` passes of a repetition the next algorithm is one that has not
\* run in it, and after the third pass all have.
LEMMA RoundsAdvance ==
    ASSUME NEW r \in Nat, NEW s \in 0 .. 2, NEW slot \in Slots
    PROVE  /\ slot = (r + s) % 3 => Rounds(r, s, slot) = r
           /\ Rounds(IF s = 2 THEN r + 1 ELSE r, (s + 1) % 3, slot) =
                IF slot = (r + s) % 3 THEN r + 1 ELSE Rounds(r, s, slot)
  <1>1. ASSUME slot = (r + s) % 3 PROVE Rounds(r, s, slot) = r
    BY <1>1 DEF Rounds
  <1>2. CASE s = 2
    <2>1. ASSUME slot # (r + 2) % 3
          PROVE  \E done \in 0 .. 1 : (r + done) % 3 = slot
      <3>1. slot = (r + 0) % 3 \/ slot = (r + 1) % 3
        BY <2>1 DEF Slots
      <3> QED
        BY <3>1
    <2>2. Rounds(r + 1, 0, slot) = r + 1
      BY DEF Rounds
    <2> QED
      BY <1>1, <1>2, <2>1, <2>2 DEF Rounds
  <1>3. CASE s < 2
    <2>1. (s + 1) % 3 = s + 1 /\ s + 1 - 1 = s /\ s # 2
      BY <1>3
    <2>2. Rounds(r, s + 1, slot) =
            IF \E done \in 0 .. s : (r + done) % 3 = slot THEN r + 1 ELSE r
      BY <2>1 DEF Rounds
    <2>3. ASSUME slot = (r + s) % 3 PROVE Rounds(r, s + 1, slot) = r + 1
      BY <2>2, <2>3
    <2>4. ASSUME slot # (r + s) % 3
          PROVE  Rounds(r, s + 1, slot) = Rounds(r, s, slot)
      <3>1. (\E done \in 0 .. s : (r + done) % 3 = slot)
                <=> \E done \in 0 .. s - 1 : (r + done) % 3 = slot
        <4>1. \A done \in 0 .. s : done = s \/ done \in 0 .. s - 1
          OBVIOUS
        <4>2. \A done \in 0 .. s - 1 : done \in 0 .. s
          OBVIOUS
        <4> QED
          BY <2>4, <4>1, <4>2
      <3> QED
        BY <2>2, <3>1 DEF Rounds
    <2> QED
      BY <1>1, <2>1, <2>3, <2>4
  <1> QED
    BY <1>1, <1>2, <1>3

LEMMA TimedSearchKeepsTheInvariant ==
    ASSUME BenchmarkInv, NEW effort \in Efforts, SearchTimed(effort)
    PROVE  BenchmarkInv'
  <1>1. /\ graph' = graph /\ request' = request /\ rng' = rng
        /\ queries' = queries /\ repetition' = repetition /\ step' = step
        /\ summary' = summary /\ reference' = reference
        /\ failure' = failure /\ answers' = answers /\ passes' = passes
        /\ stage = "measure" /\ stage' = stage
        /\ repetition < request.repetitions /\ position < Len(queries)
        /\ total' = Accumulate(total, effort)
        /\ efforts' = Append(efforts, effort) /\ position' = position + 1
    BY DEF SearchTimed, Measuring
  <1>2. /\ Len(efforts) = position
        /\ IF position = 0 THEN total = NoEffort ELSE IsTotalOf(total, efforts)
    BY <1>1 DEF BenchmarkInv, Measured
  <1>3. /\ position \in Nat /\ efforts \in Seq(Counters) /\ total \in Counters
        /\ effort \in Counters /\ Len(queries) \in Nat
    BY BenchmarkAssumption DEF BenchmarkInv, Typed, Counters
  <1>4. /\ efforts' \in Seq(Counters) /\ Len(efforts') = position + 1
        /\ total' \in Counters /\ IsTotalOf(total', efforts')
    <2>1. efforts = <<>> <=> position = 0
      BY <1>2, <1>3, EmptySeq
    <2> QED
      BY <1>1, <1>2, <1>3, <2>1, TotalGrows
  <1>5. Typed'
    <2>1. queries' \in Seq(Asked')
      BY <1>1 DEF BenchmarkInv, Typed, Asked
    <2>2. position' \in 0 .. Len(queries)
      BY <1>1, <1>3
    <2> QED
      BY <1>1, <1>4, <2>1, <2>2 DEF BenchmarkInv, Typed
  <1>6. WarmUp' /\ Warm' /\ Rotated'
    BY <1>1 DEF BenchmarkInv, WarmUp, Warm, Rotated, Agreed
  <1>7. Measured'
    BY <1>1, <1>3, <1>4 DEF BenchmarkInv, Measured
  <1> QED
    BY <1>5, <1>6, <1>7 DEF BenchmarkInv

\* The pass that ends is the next one in the order.
LEMMA PassIsNext ==
    ASSUME BenchmarkInv, EndPass
    PROVE  /\ passes' \in Seq([repetition : Nat, slot : Slots,
                               efforts : Seq(Counters)])
           /\ Len(passes') = 3 * repetition + step + 1
           /\ passes'[Len(passes')] = [repetition |-> repetition, slot |-> Slot,
                                       efforts |-> efforts]
           /\ \A i \in 1 .. Len(passes) : passes'[i] = passes[i]
           /\ Len(passes) \in Nat /\ Len(passes') = Len(passes) + 1
           /\ Rotated' /\ Slot \in Slots
  <1> DEFINE pass == [repetition |-> repetition, slot |-> Slot,
                      efforts |-> efforts]
             Passes == [repetition : Nat, slot : Slots, efforts : Seq(Counters)]
             n == Len(passes)
  <1>1. /\ passes' = Append(passes, pass) /\ stage = "measure"
        /\ passes \in Seq(Passes) /\ efforts \in Seq(Counters)
        /\ repetition \in Nat /\ step \in 0 .. 2
    BY BenchmarkAssumption
       DEF EndPass, Measuring, BenchmarkInv, Typed, Measured
  <1>2. n = 3 * repetition + step /\ n \in Nat
    BY <1>1 DEF BenchmarkInv, Measured
  <1>3. Slot = (repetition + step) % 3 /\ Slot \in Slots
    BY <1>1 DEF Slot, Slots
  <1>4. pass \in Passes
    BY <1>1, <1>3
  <1> HIDE DEF pass, Passes
  <1>5. /\ passes' \in Seq(Passes) /\ Len(passes') = n + 1
        /\ passes'[n + 1] = pass
        /\ \A i \in 1 .. n : passes'[i] = passes[i]
        /\ DOMAIN passes' = 1 .. n + 1 /\ DOMAIN passes = 1 .. n
    BY <1>1, <1>4
  <1>6. Rotated'
    <2> SUFFICES ASSUME NEW i \in 1 .. n + 1
                 PROVE  /\ passes'[i].repetition = (i - 1) \div 3
                        /\ passes'[i].slot =
                            (((i - 1) \div 3) + ((i - 1) % 3)) % 3
      BY <1>5 DEF Rotated
    <2>1. CASE i = n + 1
      <3>1. (i - 1) \div 3 = repetition /\ (i - 1) % 3 = step
        BY <2>1, <1>1, <1>2
      <3> QED
        BY <2>1, <3>1, <1>3, <1>5 DEF pass
    <2>2. CASE i # n + 1
      <3>1. i \in 1 .. n
        BY <2>2, <1>2
      <3> QED
        BY <3>1, <1>5 DEF BenchmarkInv, Rotated
    <2> QED
      BY <2>1, <2>2
  <1> QED
    BY <1>2, <1>3, <1>5, <1>6 DEF pass, Passes

LEMMA EndPassKeepsTheInvariant ==
    ASSUME BenchmarkInv, EndPass
    PROVE  BenchmarkInv'
  <1>1. /\ graph' = graph /\ request' = request /\ rng' = rng
        /\ queries' = queries /\ reference' = reference /\ answers' = answers
        /\ efforts' = <<>> /\ stage = "measure"
        /\ repetition < request.repetitions /\ position = Len(queries)
    BY DEF EndPass, Measuring
  <1>2. /\ passes' \in Seq([repetition : Nat, slot : Slots,
                            efforts : Seq(Counters)])
        /\ Rotated' /\ Slot \in Slots
    BY PassIsNext
  <1>3. queries' \in Seq(Asked') /\ efforts' \in Seq(Counters)
    BY <1>1 DEF BenchmarkInv, Typed, Asked
  <1>4. CASE /\ repetition > 0 /\ ~CountersMatch(summary[Slot].total, total)
             /\ stage' = "threw" /\ failure' = "counters"
             /\ position' = position /\ repetition' = repetition /\ step' = step
             /\ total' = total /\ summary' = summary
    <2>1. Typed'
      BY <1>1, <1>2, <1>3, <1>4 DEF BenchmarkInv, Typed
    <2>2. WarmUp' /\ Warm' /\ Measured'
      BY <1>4 DEF WarmUp, Warm, Measured
    <2> QED
      BY <1>2, <2>1, <2>2 DEF BenchmarkInv
  <1>5. CASE /\ ~(repetition > 0 /\ ~CountersMatch(summary[Slot].total, total))
             /\ summary' = [summary EXCEPT ![Slot] = Timed(summary[Slot],
                    IF repetition = 0 THEN total ELSE summary[Slot].total)]
             /\ position' = 0 /\ total' = NoEffort
             /\ step' = (step + 1) % 3
             /\ repetition' = IF step = 2 THEN repetition + 1 ELSE repetition
             /\ stage' = stage /\ failure' = failure
    <2>1. /\ repetition \in Nat /\ step \in 0 .. 2 /\ Len(queries) \in Nat
          /\ request.repetitions \in Nat
          /\ total \in Counters /\ summary[Slot].total \in Counters
          /\ summary[Slot].seconds \in Seq(Nat)
          /\ Len(queries) > 0
      BY <1>1, <1>2, BenchmarkAssumption
         DEF BenchmarkInv, Typed, Measured, Warm
    <2>2. /\ step' \in 0 .. 2 /\ repetition' \in 0 .. request.repetitions
          /\ 3 * repetition' + step' = 3 * repetition + step + 1
          /\ repetition' = request.repetitions => step' = 0
      <3>1. CASE step = 2
        <4>1. step' = 0 /\ repetition' = repetition + 1
          BY <1>5, <3>1
        <4> QED
          BY <1>1, <2>1, <3>1, <4>1
      <3>2. CASE step # 2
        <4>1. step' = step + 1 /\ repetition' = repetition
          BY <1>5, <2>1, <3>2
        <4> QED
          BY <1>1, <2>1, <3>2, <4>1
      <3> QED
        BY <3>1, <3>2
    <2>3. IsTotalOf(total, efforts) /\ Len(efforts) = Len(queries)
      BY <1>1, <2>1 DEF BenchmarkInv, Measured
    <2> DEFINE new == summary'[Slot]
    <2>4. /\ summary' \in [Slots -> [total : Counters, seconds : Seq(Nat)]]
          /\ new.total = IF repetition = 0 THEN total ELSE summary[Slot].total
          /\ new.seconds = Append(summary[Slot].seconds, repetition)
          /\ \A slot \in Slots : slot # Slot => summary'[slot] = summary[slot]
      <3>1. Append(summary[Slot].seconds, repetition) \in Seq(Nat)
        BY <2>1
      <3>2. Timed(summary[Slot],
                  IF repetition = 0 THEN total ELSE summary[Slot].total)
                \in [total : Counters, seconds : Seq(Nat)]
        BY <2>1, <3>1 DEF Timed
      <3>3. /\ summary \in [Slots -> [total : Counters, seconds : Seq(Nat)]]
            /\ new = Timed(summary[Slot],
                  IF repetition = 0 THEN total ELSE summary[Slot].total)
        BY <1>2, <1>5 DEF BenchmarkInv, Typed
      <3>4. /\ new.total = IF repetition = 0 THEN total ELSE summary[Slot].total
            /\ new.seconds = Append(summary[Slot].seconds, repetition)
        BY <3>3 DEF Timed
      <3> HIDE DEF new
      <3> QED
        BY <1>2, <1>5, <3>2, <3>3, <3>4
    <2>5. new.total = total
      BY <1>5, <2>1, <2>4 DEF CountersMatch
    <2> HIDE DEF new
    <2>6. Typed'
      <3>1. NoEffort \in Counters
        BY DEF NoEffort, Counters
      <3>2. position' \in 0 .. Len(queries) /\ step' \in 0 .. 3
        BY <1>5, <2>1, <2>2
      <3> QED
        BY <1>1, <1>2, <1>3, <1>5, <2>2, <2>4, <3>1, <3>2 DEF BenchmarkInv, Typed
    <2>7. WarmUp' /\ Warm'
      BY <1>1, <1>5 DEF BenchmarkInv, WarmUp, Warm, Agreed
    <2>8. ASSUME NEW i \in DOMAIN passes'
          PROVE  /\ Len(passes'[i].efforts) = Len(queries)
                 /\ IsTotalOf(summary'[passes'[i].slot].total, passes'[i].efforts)
      <3>1. DOMAIN passes' = 1 .. Len(passes') /\ DOMAIN passes = 1 .. Len(passes)
        BY <1>2 DEF BenchmarkInv, Typed
      <3>2. CASE i = Len(passes')
        <4>1. passes'[i].efforts = efforts /\ passes'[i].slot = Slot
          BY <3>2, PassIsNext
        <4> QED
          BY <4>1, <2>3, <2>5 DEF new
      <3>3. CASE i # Len(passes')
        <4>1. i \in 1 .. Len(passes) /\ passes'[i] = passes[i]
          BY <3>1, <3>3, PassIsNext
        <4>2. /\ Len(passes[i].efforts) = Len(queries)
              /\ IsTotalOf(summary[passes[i].slot].total, passes[i].efforts)
              /\ passes[i].slot \in Slots
          <5>1. i \in DOMAIN passes /\ passes[i] \in
                    [repetition : Nat, slot : Slots, efforts : Seq(Counters)]
            BY <3>1, <4>1, ElementOfSeq DEF BenchmarkInv, Typed
          <5> QED
            BY <5>1, <1>1 DEF BenchmarkInv, Measured
        <4>3. summary'[passes[i].slot].total = summary[passes[i].slot].total
          <5>1. CASE passes[i].slot # Slot
            BY <5>1, <4>2, <2>4
          <5>2. CASE passes[i].slot = Slot /\ repetition > 0
            BY <5>2, <2>4, <2>1 DEF new
          <5>3. CASE passes[i].slot = Slot /\ repetition = 0
            <6>1. Len(passes) = step /\ i \in 1 .. step
              BY <5>3, <4>1, <1>1, <2>1 DEF BenchmarkInv, Measured
            <6>2. passes[i].slot = (((i - 1) \div 3) + ((i - 1) % 3)) % 3
              BY <3>1, <4>1 DEF BenchmarkInv, Rotated
            <6>3. passes[i].slot = i - 1 /\ Slot = step
              BY <6>1, <6>2, <2>1, <5>3 DEF Slot
            <6>4. i - 1 # step
              BY <6>1, <2>1
            <6> QED
              BY <5>3, <6>3, <6>4
          <5> QED
            BY <5>1, <5>2, <5>3, <2>1
        <4> QED
          BY <4>1, <4>2, <4>3
      <3> QED
        BY <3>2, <3>3
    <2>9. ASSUME NEW slot \in Slots
          PROVE  summary'[slot].seconds =
                    [r \in 1 .. Rounds(repetition', step', slot) |-> r - 1]
      <3>1. summary[slot].seconds =
                [r \in 1 .. Rounds(repetition, step, slot) |-> r - 1]
        BY <1>1 DEF BenchmarkInv, Measured
      <3>2. /\ slot = Slot => Rounds(repetition, step, slot) = repetition
            /\ Rounds(repetition', step', slot) =
                IF slot = Slot THEN repetition + 1
                ELSE Rounds(repetition, step, slot)
        <4> DEFINE r == IF step = 2 THEN repetition + 1 ELSE repetition
        <4>1. repetition' = r /\ step' = (step + 1) % 3
          BY <1>5
        <4>2. /\ slot = Slot => Rounds(repetition, step, slot) = repetition
              /\ Rounds(r, (step + 1) % 3, slot) =
                    IF slot = Slot THEN repetition + 1
                    ELSE Rounds(repetition, step, slot)
          BY <2>1, RoundsAdvance DEF Slot
        <4> HIDE DEF r
        <4> QED
          BY <4>1, <4>2
      <3>3. CASE slot = Slot
        <4>1. summary[Slot].seconds = [r \in 1 .. repetition |-> r - 1]
          BY <3>1, <3>2, <3>3
        <4>2. Append([r \in 1 .. repetition |-> r - 1], repetition) =
                [r \in 1 .. repetition + 1 |-> r - 1]
          BY <2>1
        <4> QED
          BY <3>2, <3>3, <4>1, <4>2, <2>4 DEF new
      <3>4. CASE slot # Slot
        BY <3>1, <3>2, <3>4, <2>4
      <3> QED
        BY <3>3, <3>4
    <2>10. Len(passes') = 3 * repetition' + step'
      BY <2>2, PassIsNext
    <2>11. Measured'
      BY <1>1, <1>5, <2>2, <2>8, <2>9, <2>10 DEF Measured
    <2> QED
      BY <1>2, <2>6, <2>7, <2>11 DEF BenchmarkInv
  <1> QED
    BY <1>4, <1>5 DEF EndPass

-----------------------------------------------------------------------------
LEMMA BenchmarkStarts == BenchmarkInit => BenchmarkInv
  <1> SUFFICES ASSUME BenchmarkInit PROVE BenchmarkInv
    OBVIOUS
  <1>1. /\ graph \in Graphs /\ request \in Requests /\ stage = "call"
        /\ rng = 0 /\ queries = <<>> /\ reference = <<>>
        /\ position = 0 /\ step = 0 /\ failure = "none"
        /\ answers = [slot \in Slots |-> <<>>]
        /\ Unmeasured
    BY DEF BenchmarkInit, BenchmarkIdle, Unmeasured
  <1>2. request.count \in Nat /\ request.repetitions \in Nat
    BY <1>1, BenchmarkAssumption
  <1>3. 0 \in Words
    BY SplitMix64Assumption DEF Words
  <1>4. NoEffort \in Counters
    BY DEF NoEffort, Counters
  <1>5. NoSummary \in [total : Counters, seconds : Seq(Nat)]
    BY <1>4, EmptySeq DEF NoSummary
  <1>6. Typed
    <2>1. summary \in [Slots -> [total : Counters, seconds : Seq(Nat)]]
      BY <1>1, <1>5 DEF Unmeasured
    <2>2. answers \in [Slots -> Seq(Cost)]
      BY <1>1
    <2>3. /\ total \in Counters /\ efforts \in Seq(Counters)
          /\ passes \in Seq([repetition : Nat, slot : Slots,
                             efforts : Seq(Counters)])
          /\ repetition = 0
      BY <1>1, <1>4 DEF Unmeasured
    <2>4. queries \in Seq(Asked) /\ Len(queries) = 0
      BY <1>1
    <2> QED
      BY <1>1, <1>2, <1>3, <2>1, <2>2, <2>3, <2>4 DEF Typed
  <1>7. WarmUp /\ Warm /\ Measured
    BY <1>1 DEF WarmUp, Warm, Measured
  <1>8. Rotated
    BY <1>1 DEF Rotated, Unmeasured
  <1> QED
    BY <1>6, <1>7, <1>8 DEF BenchmarkInv

LEMMA ReportKeepsTheInvariant ==
    ASSUME BenchmarkInv, Report
    PROVE  BenchmarkInv'
  <1>1. /\ graph' = graph /\ request' = request /\ rng' = rng
        /\ queries' = queries /\ position' = position /\ step' = step
        /\ repetition' = repetition /\ total' = total /\ failure' = failure
        /\ summary' = summary /\ reference' = reference
        /\ answers' = answers /\ efforts' = efforts /\ passes' = passes
        /\ stage = "measure" /\ stage' = "report"
        /\ repetition = request.repetitions
    BY DEF Report, seen
  <1>2. Typed'
    BY <1>1 DEF BenchmarkInv, Typed, Asked
  <1>3. WarmUp' /\ Warm' /\ Rotated'
    BY <1>1 DEF BenchmarkInv, WarmUp, Warm, Rotated, Agreed
  <1>4. Measured'
    BY <1>1 DEF BenchmarkInv, Measured
  <1> QED
    BY <1>2, <1>3, <1>4 DEF BenchmarkInv

LEMMA StutteringKeepsTheInvariant ==
    ASSUME BenchmarkInv, UNCHANGED benchmarkVars
    PROVE  BenchmarkInv'
  <1>1. /\ graph' = graph /\ request' = request /\ stage' = stage /\ rng' = rng
        /\ queries' = queries /\ position' = position /\ step' = step
        /\ repetition' = repetition /\ total' = total /\ failure' = failure
        /\ summary' = summary /\ reference' = reference
        /\ answers' = answers /\ efforts' = efforts /\ passes' = passes
    BY DEF benchmarkVars, seen
  <1>2. Typed'
    BY <1>1 DEF BenchmarkInv, Typed, Asked
  <1>3. WarmUp'
    BY <1>1 DEF BenchmarkInv, WarmUp, Agreed, Unmeasured, Answered
  <1>4. Warm' /\ Rotated'
    BY <1>1 DEF BenchmarkInv, Warm, Rotated, Agreed
  <1>5. Measured'
    BY <1>1 DEF BenchmarkInv, Measured, Unmeasured
  <1> QED
    BY <1>2, <1>3, <1>4, <1>5 DEF BenchmarkInv

\* The invariant is kept by every turn of every loop.
THEOREM BenchmarkInvariant == BenchmarkSpec => []BenchmarkInv
  <1>1. BenchmarkInv /\ [BenchmarkNext]_benchmarkVars => BenchmarkInv'
    BY DrawingKeepsTheInvariant, ReferenceKeepsTheInvariant,
       ComparisonKeepsTheInvariant, MeasuringStarts,
       TimedSearchKeepsTheInvariant, EndPassKeepsTheInvariant,
       ReportKeepsTheInvariant, StutteringKeepsTheInvariant
       DEF BenchmarkNext, BenchmarkStep, BenchmarkOver
  <1> QED
    BY <1>1, BenchmarkStarts, PTL DEF BenchmarkSpec

-----------------------------------------------------------------------------
(***************************************************************************)
(* What a report means: whatever the searches answer, nothing is measured  *)
(* unless all three algorithms answered every query of the warm-up, found  *)
(* a route where Dijkstra did, and agree with it within the tolerance, and *)
(* so with each other within twice the tolerance.                          *)
(***************************************************************************)
LEMMA CloseToDijkstra ==
    ASSUME NEW cost \in Cost, NEW expected \in Cost, ~Disagree(cost, expected)
    PROVE  /\ Found(cost) <=> Found(expected)
           /\ Found(cost) => Within(1, cost, expected,
                                    Greatest({One, cost, expected}))
  <1>1. Found(cost) <=> Found(expected)
    BY DEF Disagree
  <1>2. ASSUME Found(cost)
        PROVE  Within(1, cost, expected, Greatest({One, cost, expected}))
    <2>1. cost # Infinity /\ expected # Infinity
      BY <1>1, <1>2, CostsAreNumbers DEF Found
    <2>2. Apart(cost, expected) * Precision <= Greatest({One, cost, expected})
      BY <1>2, <2>1 DEF Disagree, CostsAgree
    <2>3. Greatest({One, cost, expected}) \in Nat
      BY GreatestOfThree, CostsAreNumbers, BenchmarkAssumption
    <2> QED
      BY <2>2, <2>3 DEF Within
  <1> QED
    BY <1>1, <1>2

\* Nothing is measured or reported unless the three algorithms agreed on every
\* query.
THEOREM MeasuredMeansAgreed == BenchmarkSpec => []ReportMeansAgreement
  <1>1. BenchmarkInv => ReportMeansAgreement
    <2> SUFFICES ASSUME BenchmarkInv, stage \in {"measure", "report"}
                 PROVE  \A slot \in Slots :
                            /\ DOMAIN answers[slot] = DOMAIN queries
                            /\ RoutesFound = Cardinality({i \in DOMAIN queries :
                                                Found(answers[slot][i])})
                            /\ \A i \in DOMAIN queries : AgreeOn(i)
      BY DEF ReportMeansAgreement
    <2> DEFINE n == Len(queries)
    <2>1. /\ answers[0] = reference /\ Agreed
          /\ \A slot \in Slots : Len(answers[slot]) = n
          /\ answers \in [Slots -> Seq(Cost)]
          /\ DOMAIN queries = 1 .. n
      BY DEF BenchmarkInv, Warm, Typed
    <2>2. \A slot \in Slots : DOMAIN answers[slot] = 1 .. n
      BY <2>1
    <2>3. \A slot \in Slots, i \in 1 .. n : answers[slot][i] \in Cost
      BY <2>1, ElementOfSeq
    <2>4. \A slot \in Slots, i \in 1 .. n :
            /\ Found(answers[slot][i]) <=> Found(reference[i])
            /\ slot # 0 /\ Found(answers[slot][i]) =>
                Within(1, answers[slot][i], reference[i],
                       Greatest({One, answers[slot][i], reference[i]}))
      <3> SUFFICES ASSUME NEW slot \in Slots, NEW i \in 1 .. n
                   PROVE  /\ Found(answers[slot][i]) <=> Found(reference[i])
                          /\ slot # 0 /\ Found(answers[slot][i]) =>
                              Within(1, answers[slot][i], reference[i],
                                     Greatest({One, answers[slot][i],
                                               reference[i]}))
        OBVIOUS
      <3>1. CASE slot = 0
        BY <3>1, <2>1
      <3>2. CASE slot # 0
        <4>1. ~Disagree(answers[slot][i], reference[i])
          BY <3>2, <2>1 DEF Agreed, Slots
        <4>2. answers[slot][i] \in Cost /\ reference[i] \in Cost
          BY <2>1, <2>3 DEF Slots
        <4> QED
          BY <4>1, <4>2, CloseToDijkstra
      <3> QED
        BY <3>1, <3>2
    <2>5. ASSUME NEW slot \in Slots
          PROVE  RoutesFound =
                    Cardinality({i \in DOMAIN queries : Found(answers[slot][i])})
      <3>1. DOMAIN reference = 1 .. n
        BY <2>1, <2>2 DEF Slots
      <3>2. {i \in DOMAIN queries : Found(answers[slot][i])} =
                {i \in DOMAIN reference : Found(reference[i])}
        BY <2>1, <2>4, <3>1
      <3> QED
        BY <3>2 DEF RoutesFound
    <2>6. ASSUME NEW i \in 1 .. n PROVE AgreeOn(i)
      <3> DEFINE cost == [slot \in Slots |-> answers[slot][i]]
                 largest == Greatest({One} \cup {cost[slot] : slot \in Slots})
      <3>1. \A slot \in Slots : cost[slot] \in Cost /\ cost[slot] \in Nat
        BY <2>3, CostsAreNumbers
      <3>2. cost[0] = reference[i] /\ \A slot \in Slots : cost[slot] = answers[slot][i]
        BY <2>1 DEF Slots
      <3>3. {One} \cup {cost[slot] : slot \in Slots} =
                {One, cost[0], cost[1], cost[2]}
        BY DEF Slots
      <3> HIDE DEF cost
      <3>4. \A slot \in Slots :
                /\ Found(cost[slot]) <=> Found(cost[0])
                /\ slot # 0 /\ Found(cost[slot]) =>
                    Within(1, cost[slot], cost[0],
                           Greatest({One, cost[slot], cost[0]}))
        BY <2>4, <3>2
      <3>5. /\ largest \in Nat /\ One <= largest
            /\ \A slot \in Slots : cost[slot] <= largest
        <4>1. largest = Greatest({One, cost[0], cost[1], cost[2]})
          BY <3>3
        <4>2. /\ One \in Nat
              /\ cost[0] \in Nat /\ cost[1] \in Nat /\ cost[2] \in Nat
          BY <3>1, BenchmarkAssumption DEF Slots
        <4> HIDE DEF largest
        <4>3. /\ largest \in Nat /\ One <= largest
              /\ cost[0] <= largest /\ cost[1] <= largest /\ cost[2] <= largest
          BY <4>1, <4>2, GreatestOfFour
        <4> QED
          BY <4>3 DEF Slots
      <3> HIDE DEF largest
      <3>6. CASE ~Found(cost[0])
        <4>1. \A slot \in Slots : ~Found(cost[slot])
          BY <3>4, <3>6
        <4>2. \A slot \in Slots : cost[slot] = Infinity
          BY <3>1, <4>1, CostsAreNumbers, CostAssumption DEF Found
        <4> QED
          BY <4>2 DEF AgreeOn, cost
      <3>7. CASE Found(cost[0])
        <4>1. ASSUME NEW slot \in Slots
              PROVE  /\ Within(1, cost[slot], cost[0],
                               Greatest({One, cost[slot], cost[0]}))
                     /\ Apart(cost[slot], cost[0]) * Precision <= largest
          <5> DEFINE scale == Greatest({One, cost[slot], cost[0]})
          <5>1. scale \in Nat /\ scale <= largest
            <6>1. /\ One \in Nat /\ cost[slot] \in Nat /\ cost[0] \in Nat
                  /\ cost[slot] <= largest /\ cost[0] <= largest
              BY <3>1, <3>5, BenchmarkAssumption DEF Slots
            <6> QED
              BY <6>1, <3>5, GreatestOfThree
          <5>2. Within(1, cost[slot], cost[0], scale)
            <6>1. CASE slot = 0
              <7>1. Apart(cost[0], cost[0]) = 0
                BY <3>1 DEF Apart, Slots
              <7>2. 0 * Precision = 0
                BY BenchmarkAssumption
              <7> HIDE DEF scale
              <7> QED
                BY <6>1, <5>1, <7>1, <7>2 DEF Within
            <6>2. CASE slot # 0
              BY <6>2, <3>4, <3>7
            <6> QED
              BY <6>1, <6>2
          <5> HIDE DEF scale
          <5>3. Apart(cost[slot], cost[0]) * Precision <= 1 * scale
            BY <5>2 DEF Within
          <5>4. Apart(cost[slot], cost[0]) * Precision \in Nat
            BY <3>1, BenchmarkAssumption DEF Apart, Slots
          <5> QED
            BY <5>1, <5>2, <5>3, <5>4, <3>5 DEF scale
        <4>2. \A slot, other \in Slots :
                Within(2, cost[slot], cost[other], largest)
          <5> SUFFICES ASSUME NEW slot \in Slots, NEW other \in Slots
                       PROVE  Within(2, cost[slot], cost[other], largest)
            OBVIOUS
          <5>1. /\ cost[slot] \in Nat /\ cost[other] \in Nat /\ cost[0] \in Nat
                /\ Precision \in Nat
            BY <3>1, BenchmarkAssumption DEF Slots
          <5> QED
            BY <5>1, <4>1, <3>5, ToleranceAddsUp DEF Within
        <4>3. \A slot \in Slots : Found(cost[slot])
          BY <3>4, <3>7
        <4> QED
          BY <4>1, <4>2, <4>3 DEF AgreeOn, cost, largest
      <3> QED
        BY <3>6, <3>7
    <2> QED
      BY <2>1, <2>2, <2>5, <2>6
  <1> QED
    BY <1>1, BenchmarkInvariant, PTL

(***************************************************************************)
(* The reported counters are the sums and the largest queue of every pass  *)
(* of their algorithm, and there is one elapsed time for each pass.        *)
(***************************************************************************)
THEOREM CountersAreOfEveryPass == BenchmarkSpec => []SummaryIsEveryPass
  <1>1. BenchmarkInv => SummaryIsEveryPass
    <2> SUFFICES ASSUME BenchmarkInv, stage = "report", NEW slot \in Slots
                 PROVE  /\ summary[slot].seconds =
                            [r \in 1 .. request.repetitions |-> r - 1]
                        /\ \A i \in DOMAIN passes :
                            passes[i].slot = slot =>
                                /\ DOMAIN passes[i].efforts = DOMAIN queries
                                /\ IsTotalOf(summary[slot].total,
                                             passes[i].efforts)
      BY DEF SummaryIsEveryPass
    <2>1. Rounds(repetition, step, slot) = request.repetitions
      BY DEF BenchmarkInv, Measured, Rounds
    <2>2. summary[slot].seconds = [r \in 1 .. request.repetitions |-> r - 1]
      BY <2>1 DEF BenchmarkInv, Measured
    <2>3. ASSUME NEW i \in DOMAIN passes, passes[i].slot = slot
          PROVE  /\ DOMAIN passes[i].efforts = DOMAIN queries
                 /\ IsTotalOf(summary[slot].total, passes[i].efforts)
      <3>1. passes[i] \in
                [repetition : Nat, slot : Slots, efforts : Seq(Counters)]
        BY <2>3, ElementOfSeq, LenProperties DEF BenchmarkInv, Typed
      <3>2. passes[i].efforts \in Seq(Counters) /\ queries \in Seq(Asked)
        BY <3>1 DEF BenchmarkInv, Typed
      <3>3. /\ Len(passes[i].efforts) = Len(queries)
            /\ IsTotalOf(summary[slot].total, passes[i].efforts)
        BY <2>3 DEF BenchmarkInv, Measured
      <3> QED
        BY <3>2, <3>3, LenProperties
    <2> QED
      BY <2>2, <2>3
  <1> QED
    BY <1>1, BenchmarkInvariant, PTL

(***************************************************************************)
(* The rotation: pass 3 q + r is the one of algorithm (q + r) mod 3, so    *)
(* at one place of the order the passes of an algorithm are nine apart.    *)
(* Moved down by three or by six they become those of another algorithm,   *)
(* but for one that may be too close to the beginning.                     *)
(***************************************************************************)
PassesAt(place, slot) ==
    {i \in DOMAIN passes : (i - 1) % 3 = place /\ passes[i].slot = slot}

Numbered == Len(passes) \in Nat /\ DOMAIN passes = 1 .. Len(passes)

LEMMA PassesAreNineApart ==
    ASSUME Rotated, Numbered,
           NEW place \in 0 .. 2, NEW slot \in Slots, NEW other \in Slots,
           NEW d \in {1, 2}, slot = (other + d) % 3
    PROVE  /\ \A i \in PassesAt(place, slot) :
                i > 3 * d => i - 3 * d \in PassesAt(place, other)
           /\ \A i, j \in PassesAt(place, slot) :
                i <= 3 * d /\ j <= 3 * d => i = j
  <1> DEFINE n == Len(passes)
  <1> n \in Nat /\ DOMAIN passes = 1 .. n
    BY DEF Numbered
  <1> HIDE DEF n
  <1>1. ASSUME NEW i \in 1 .. n
        PROVE  i \in PassesAt(place, slot) <=>
                    (i - 1) % 3 = place /\ (((i - 1) \div 3) + place) % 3 = slot
    BY <1>1 DEF PassesAt, Rotated
  <1>2. ASSUME NEW i \in 1 .. n
        PROVE  i \in PassesAt(place, other) <=>
                    (i - 1) % 3 = place /\ (((i - 1) \div 3) + place) % 3 = other
    BY <1>2 DEF PassesAt, Rotated
  <1>3. ASSUME NEW i \in PassesAt(place, slot), i > 3 * d
        PROVE  i - 3 * d \in PassesAt(place, other)
    <2>1. /\ i \in 1 .. n /\ i - 3 * d \in 1 .. n
          /\ (i - 1) % 3 = place /\ (((i - 1) \div 3) + place) % 3 = slot
      BY <1>1, <1>3 DEF PassesAt
    <2> DEFINE q == (i - 1) \div 3
    <2>2. q \in Nat /\ i - 1 = 3 * q + place
      BY <2>1
    <2> HIDE DEF q
    <2>3. i - 3 * d - 1 = 3 * (q - d) + place /\ q - d \in Int
      BY <2>1, <2>2
    <2>4. (i - 3 * d - 1) \div 3 = q - d /\ (i - 3 * d - 1) % 3 = place
      <3>1. \A x \in Int : /\ (3 * x + place) \div 3 = x
                           /\ (3 * x + place) % 3 = place
        OBVIOUS
      <3> QED
        BY <2>3, <3>1
    <2>5. (q - d + place) % 3 = other
      <3>1. (q + place) % 3 = (other + d) % 3
        BY <2>1 DEF q
      <3> QED
        BY <2>2, <3>1 DEF Slots
    <2> QED
      BY <1>2, <2>1, <2>4, <2>5
  <1>4. ASSUME NEW i \in PassesAt(place, slot), NEW j \in PassesAt(place, slot),
               i <= 3 * d, j <= 3 * d
        PROVE  i = j
    <2>1. /\ i \in 1 .. n /\ (i - 1) % 3 = place
          /\ (((i - 1) \div 3) + place) % 3 = slot
          /\ j \in 1 .. n /\ (j - 1) % 3 = place
          /\ (((j - 1) \div 3) + place) % 3 = slot
      BY <1>1, <1>4 DEF PassesAt
    <2>2. (i - 1) \div 3 \in 0 .. 1 /\ (j - 1) \div 3 \in 0 .. 1
      BY <1>4, <2>1
    <2>3. (i - 1) \div 3 = (j - 1) \div 3
      BY <2>1, <2>2
    <2> QED
      BY <2>1, <2>3
  <1> QED
    BY <1>3, <1>4

LEMMA PlacesAreShared ==
    ASSUME Rotated, Numbered,
           NEW place \in 0 .. 2, NEW slot \in Slots, NEW other \in Slots
    PROVE  TimesAt(place, slot) <= TimesAt(place, other) + 1
  <1> DEFINE S == PassesAt(place, slot)
             T == PassesAt(place, other)
  <1>1. IsFiniteSet(DOMAIN passes)
    BY FS_Interval DEF Numbered
  <1>2. IsFiniteSet(S) /\ IsFiniteSet(T)
    BY <1>1, FS_Subset DEF PassesAt
  <1>3. /\ TimesAt(place, slot) = Cardinality(S)
        /\ TimesAt(place, other) = Cardinality(T)
    BY DEF TimesAt, PassesAt
  <1>4. Cardinality(S) \in Nat /\ Cardinality(T) \in Nat
    BY <1>2, FS_CardinalityType
  <1>5. CASE slot = other
    BY <1>3, <1>4, <1>5
  <1>6. CASE slot # other
    <2>1. PICK d \in {1, 2} : slot = (other + d) % 3
      BY <1>6 DEF Slots
    <2>2. /\ \A i \in S : i \in Nat /\ (i > 3 * d => i - 3 * d \in T)
          /\ \A i, j \in S : i <= 3 * d /\ j <= 3 * d => i = j
      <3>1. /\ \A i \in PassesAt(place, slot) :
                    i > 3 * d => i - 3 * d \in PassesAt(place, other)
            /\ \A i, j \in PassesAt(place, slot) :
                    i <= 3 * d /\ j <= 3 * d => i = j
        BY <2>1, PassesAreNineApart
      <3>2. \A i \in S : i \in Nat
        BY DEF PassesAt, Numbered
      <3> QED
        BY <3>1, <3>2
    <2> HIDE DEF S, T
    <2>3. PICK first : \A i \in S : i # first => i > 3 * d
      <3>1. CASE \E i \in S : i <= 3 * d
        <4>1. PICK i \in S : i <= 3 * d
          BY <3>1
        <4>2. \A j \in S : j # i => j > 3 * d
          BY <2>2, <4>1
        <4> QED
          BY <4>2
      <3>2. CASE \A i \in S : i > 3 * d
        BY <3>2
      <3> QED
        BY <2>2, <3>1, <3>2
    <2> DEFINE R == S \ {first}
               down == [i \in R |-> i - 3 * d]
    <2>4. /\ Cardinality(R) = IF first \in S THEN Cardinality(S) - 1
                              ELSE Cardinality(S)
      BY <1>2, FS_RemoveElement
    <2>5. down \in [R -> T] /\ \A i, j \in R : down[i] = down[j] => i = j
      BY <2>2, <2>3
    <2> HIDE DEF R, down
    <2>6. down \in Injection(R, T)
      BY <2>5 DEF Injection, IsInjective
    <2>7. Cardinality(R) <= Cardinality(T)
      BY <1>2, <2>6, FS_Injection
    <2> QED
      BY <1>3, <1>4, <2>4, <2>7
  <1> QED
    BY <1>5, <1>6

\* No algorithm always runs first, nor second, nor last.
THEOREM OrderRotates == BenchmarkSpec => []NoneIsAlwaysFirst
  <1>1. BenchmarkInv => NoneIsAlwaysFirst
    <2> SUFFICES ASSUME BenchmarkInv PROVE NoneIsAlwaysFirst
      OBVIOUS
    <2> DEFINE n == Len(passes)
    <2>1. Rotated /\ Numbered /\ n \in Nat /\ DOMAIN passes = 1 .. n
      BY LenProperties DEF BenchmarkInv, Typed, Numbered
    <2> HIDE DEF n
    <2>2. ASSUME NEW i \in 1 .. n, NEW j \in 1 .. n,
                 passes[i].slot = passes[j].slot,
                 passes[i].repetition = passes[j].repetition
          PROVE  i = j
      <3>1. /\ (i - 1) \div 3 = (j - 1) \div 3
            /\ (((i - 1) \div 3) + ((i - 1) % 3)) % 3 =
                    (((j - 1) \div 3) + ((j - 1) % 3)) % 3
        BY <2>1, <2>2 DEF Rotated
      <3>2. (i - 1) % 3 = (j - 1) % 3
        BY <3>1
      <3> QED
        BY <3>1, <3>2
    <2>3. \A place \in 0 .. 2, slot, other \in Slots :
            TimesAt(place, slot) <= TimesAt(place, other) + 1
      BY <2>1, PlacesAreShared
    <2> QED
      BY <2>1, <2>2, <2>3 DEF NoneIsAlwaysFirst
  <1> QED
    BY <1>1, BenchmarkInvariant, PTL

-----------------------------------------------------------------------------
(***************************************************************************)
(* Powers of two, by counting sets of places.                              *)
(***************************************************************************)
\* A set of numbers that is not empty has a least one.
LEMMA LeastNatural ==
    ASSUME NEW T \in SUBSET Nat, T # {}
    PROVE  \E m \in T : \A k \in T : m <= k
<1> DEFINE Below == {0 .. k : k \in T}
           R == StrictSubsetOrdering(Nat)
<1>1. IsWellFoundedOn(R, FiniteSubsetsOf(Nat))
  BY FS_StrictSubsetOrderingWellFounded
<1>2. \A k \in T : 0 .. k \in FiniteSubsetsOf(Nat)
  BY FS_Interval DEF FiniteSubsetsOf
<1>3. Below \subseteq FiniteSubsetsOf(Nat) /\ Below # {}
  BY <1>2
<1>4. PICK X \in Below : \A Y \in Below : <<Y, X>> \notin R
  <2> HIDE DEF Below, R
  <2> QED
    BY <1>1, <1>3, WFMin
<1>5. PICK m \in T : X = 0 .. m
  OBVIOUS
<1>6. ASSUME NEW k \in T, k < m PROVE FALSE
  <2>1. 0 .. k \subseteq 0 .. m /\ 0 .. k # 0 .. m
    BY <1>6
  <2>2. <<0 .. k, 0 .. m>> \in R
    BY <2>1 DEF StrictSubsetOrdering
  <2>3. QED
    BY <1>4, <1>5, <2>2
<1>7. QED
  BY <1>6


LEMMA PowersArePositive == \A n \in Nat : 2^n \in Nat \ {0}
  <1> SUFFICES ASSUME NEW n \in Nat PROVE 2^n \in Nat \ {0}
    OBVIOUS
  <1>1. IsFiniteSet(1 .. n) /\ Cardinality(1 .. n) = n
    BY FS_Interval
  <1>2. /\ IsFiniteSet(SUBSET (1 .. n))
        /\ Cardinality(SUBSET (1 .. n)) = 2^n
    BY <1>1, FS_SUBSET
  <1>3. 2^n \in Nat
    BY <1>2, FS_CardinalityType
  <1>4. 2^n # 0
    <2>1. SUBSET (1 .. n) # {}
      OBVIOUS
    <2> QED
      BY <1>2, <2>1, FS_EmptySet
  <1> QED
    BY <1>3, <1>4

\* Half of the sets of places have the last one, half do not.
LEMMA PowersDouble == \A n \in Nat : 2^(n + 1) = 2 * 2^n
  <1> SUFFICES ASSUME NEW n \in Nat PROVE 2^(n + 1) = 2 * 2^n
    OBVIOUS
  <1> DEFINE A == SUBSET (1 .. n)
             B == {S \cup {n + 1} : S \in A}
             f == [S \in A |-> S \cup {n + 1}]
  <1>1. /\ IsFiniteSet(1 .. n) /\ Cardinality(1 .. n) = n
        /\ IsFiniteSet(1 .. n + 1) /\ Cardinality(1 .. n + 1) = n + 1
    BY FS_Interval
  <1>2. /\ IsFiniteSet(A) /\ Cardinality(A) = 2^n
        /\ Cardinality(SUBSET (1 .. n + 1)) = 2^(n + 1)
    BY <1>1, FS_SUBSET
  <1>3. \A S \in A : n + 1 \notin S
    OBVIOUS
  <1>4. f \in Bijection(A, B)
    <2>1. \A S, T \in A : f[S] = f[T] => S = T
      BY <1>3
    <2>2. f \in [A -> B] /\ \A T \in B : \E S \in A : f[S] = T
      OBVIOUS
    <2> HIDE DEF A, B, f
    <2> QED
      BY <2>1, <2>2 DEF Bijection, Injection, Surjection, IsInjective
  <1>5. IsFiniteSet(B) /\ Cardinality(B) = Cardinality(A)
    <2> HIDE DEF A, B, f
    <2>1. ExistsBijection(A, B)
      BY <1>4 DEF ExistsBijection
    <2> QED
      BY <1>2, <2>1, FS_Bijection
  <1>6. A \cap B = {}
    BY <1>3
  <1>7. SUBSET (1 .. n + 1) = A \cup B
    <2>1. ASSUME NEW S \in SUBSET (1 .. n + 1) PROVE S \in A \cup B
      <3>1. CASE n + 1 \in S
        <4>1. S \ {n + 1} \in A
          OBVIOUS
        <4>2. S = (S \ {n + 1}) \cup {n + 1}
          BY <3>1
        <4> QED
          BY <4>1, <4>2
      <3>2. CASE n + 1 \notin S
        BY <3>2
      <3> QED
        BY <3>1, <3>2
    <2>2. ASSUME NEW S \in A PROVE S \cup {n + 1} \subseteq 1 .. n + 1
      OBVIOUS
    <2>3. ASSUME NEW S \in A \cup B PROVE S \subseteq 1 .. n + 1
      BY <2>2
    <2> QED
      BY <2>1, <2>3
  <1>8. Cardinality(A \cup B) = Cardinality(A) + Cardinality(B)
    <2> HIDE DEF A, B
    <2>1. Cardinality(A \cap B) = 0
      BY <1>6, FS_EmptySet
    <2>2. Cardinality(A) \in Nat /\ Cardinality(B) \in Nat
      BY <1>2, <1>5, FS_CardinalityType
    <2>3. Cardinality(A \cup B) =
            Cardinality(A) + Cardinality(B) - Cardinality(A \cap B)
      BY <1>2, <1>5, FS_Union
    <2> QED
      BY <2>1, <2>2, <2>3
  <1>9. 2^n \in Nat
    BY PowersArePositive
  <1>10. Cardinality(A \cup B) = 2^(n + 1)
    BY <1>2, <1>7
  <1> HIDE DEF A, B
  <1>11. 2^(n + 1) = 2^n + 2^n
    BY <1>2, <1>5, <1>8, <1>10
  <1> QED
    BY <1>9, <1>11

LEMMA PowersOfSums == \A m \in Nat : \A n \in Nat : 2^(m + n) = 2^m * 2^n
  <1> SUFFICES ASSUME NEW m \in Nat PROVE \A n \in Nat : 2^(m + n) = 2^m * 2^n
    OBVIOUS
  <1> DEFINE Bad == {n \in Nat : 2^(m + n) # 2^m * 2^n}
  <1>1. ASSUME Bad # {} PROVE FALSE
    <2>1. PICK n \in Bad : \A k \in Bad : n <= k
      BY <1>1, LeastNatural
    <2>2. 2^0 = 1 /\ m + 0 = m
      OBVIOUS
    <2>3. 2^m \in Nat /\ 2^n \in Nat
      BY PowersArePositive
    <2>4. n # 0
      <3>1. 2^(m + 0) = 2^m * 2^0
        <4> DEFINE a == 2^m
        <4>1. a * 1 = a
          <5>1. a \in Nat
            BY <2>3
          <5> HIDE DEF a
          <5> QED
            BY <5>1
        <4> QED
          BY <2>2, <4>1
      <3> QED
        BY <2>1, <3>1
    <2>5. PICK k \in Nat : n = k + 1
      <3>1. n - 1 \in Nat /\ n = (n - 1) + 1
        BY <2>4
      <3> QED
        BY <3>1
    <2>6. 2^(m + k) = 2^m * 2^k
      BY <2>1, <2>5
    <2>7. /\ 2^(k + 1) = 2 * 2^k /\ 2^((m + k) + 1) = 2 * 2^(m + k)
          /\ 2^k \in Nat /\ 2^(m + k) \in Nat
      BY PowersDouble, PowersArePositive
    <2>8. m + n = (m + k) + 1
      BY <2>5
    <2>9. 2^(m + n) = 2 * (2^m * 2^k)
      BY <2>6, <2>7, <2>8
    <2> DEFINE a == 2^m
               b == 2^k
    <2>10. a \in Nat /\ b \in Nat /\ 2 * (a * b) = a * (2 * b)
      <3>1. a \in Nat /\ b \in Nat
        BY <2>3, <2>7
      <3> HIDE DEF a, b
      <3> QED
        BY <3>1
    <2>11. 2^(m + n) = 2^m * 2^n
      BY <2>5, <2>7, <2>9, <2>10
    <2> QED
      BY <2>1, <2>11
  <1> QED
    BY <1>1

-----------------------------------------------------------------------------
(***************************************************************************)
(* The sum of the powers of two of a finite set of places: it exists, is a *)
(* number, and any place may be taken out first.                           *)
(***************************************************************************)
Some(S) == CHOOSE k \in S : TRUE

SumAt(f, s) == IF s = {} THEN 0 ELSE 2^Some(s) + f[s \ {Some(s)}]

IsSum(f, S) == f = [s \in SUBSET S |-> SumAt(f, s)]

LEMMA WordOfIsSum == \A S : WordOf(S) = (CHOOSE f : IsSum(f, S))[S]
  BY DEF WordOf, MapThenSumSet, MapThenFoldSet, IsSum, SumAt, Some

LEMMA SomeIsIn == \A S : S # {} => Some(S) \in S
  BY DEF Some

\* The sums over the sets of up to n places.
SumsUpTo(f, S, n) ==
    \A s \in SUBSET S : Cardinality(s) <= n => f[s] = SumAt(f, s)

LEMMA SomeRemoved ==
    ASSUME NEW S, IsFiniteSet(S), NEW s \in SUBSET S, s # {}
    PROVE  /\ s \ {Some(s)} \in SUBSET S
           /\ Cardinality(s) \in Nat \ {0}
           /\ Cardinality(s \ {Some(s)}) = Cardinality(s) - 1
  <1>1. IsFiniteSet(s)
    BY FS_Subset
  <1>2. Cardinality(s) \in Nat /\ Cardinality(s) # 0
    BY <1>1, FS_CardinalityType, FS_EmptySet
  <1>3. Some(s) \in s
    BY SomeIsIn
  <1>4. Cardinality(s \ {Some(s)}) = Cardinality(s) - 1
    BY <1>1, <1>3, FS_RemoveElement
  <1> QED
    BY <1>2, <1>4

LEMMA MoreSums ==
    ASSUME NEW S, IsFiniteSet(S), NEW n \in Nat, NEW f, SumsUpTo(f, S, n)
    PROVE  \E g : SumsUpTo(g, S, n + 1)
  <1> DEFINE g == [s \in SUBSET S |-> IF Cardinality(s) <= n THEN f[s]
                                                           ELSE SumAt(f, s)]
  <1>1. \A s \in SUBSET S : Cardinality(s) <= n => g[s] = f[s]
    OBVIOUS
  <1>2. \A s \in SUBSET S : ~(Cardinality(s) <= n) => g[s] = SumAt(f, s)
    OBVIOUS
  <1> HIDE DEF g
  <1>3. ASSUME NEW s \in SUBSET S, Cardinality(s) <= n + 1
        PROVE  g[s] = SumAt(g, s)
    <2>1. SumAt(g, s) = SumAt(f, s)
      <3>1. CASE s = {}
        BY <3>1 DEF SumAt
      <3>2. CASE s # {}
        <4>1. /\ s \ {Some(s)} \in SUBSET S
              /\ Cardinality(s) \in Nat \ {0}
              /\ Cardinality(s \ {Some(s)}) = Cardinality(s) - 1
          BY <3>2, SomeRemoved
        <4>2. Cardinality(s \ {Some(s)}) <= n
          BY <1>3, <4>1
        <4>3. g[s \ {Some(s)}] = f[s \ {Some(s)}]
          BY <1>1, <4>1, <4>2
        <4> QED
          BY <3>2, <4>3 DEF SumAt
      <3> QED
        BY <3>1, <3>2
    <2>2. g[s] = SumAt(f, s)
      BY <1>1, <1>2 DEF SumsUpTo
    <2> QED
      BY <2>1, <2>2
  <1>4. SumsUpTo(g, S, n + 1)
    BY <1>3 DEF SumsUpTo
  <1> QED
    BY <1>4

LEMMA SumsExist ==
    ASSUME NEW S, IsFiniteSet(S)
    PROVE  \E f : IsSum(f, S)
  <1> DEFINE Bad == {n \in Nat : ~ \E f : SumsUpTo(f, S, n)}
  <1>1. ASSUME Bad # {} PROVE FALSE
    <2>1. PICK n \in Bad : \A k \in Bad : n <= k
      BY <1>1, LeastNatural
    <2>2. n # 0
      <3> DEFINE f == [s \in SUBSET S |-> 0]
      <3>1. ASSUME NEW s \in SUBSET S, Cardinality(s) <= 0 PROVE f[s] = SumAt(f, s)
        <4>1. s = {}
          <5>1. s # {} => Cardinality(s) \in Nat \ {0}
            BY SomeRemoved
          <5> QED
            BY <3>1, <5>1
        <4> QED
          BY <4>1 DEF SumAt
      <3>2. SumsUpTo(f, S, 0)
        <4> HIDE DEF f
        <4> QED
          BY <3>1 DEF SumsUpTo
      <3> QED
        BY <2>1, <3>2
    <2>3. n - 1 \in Nat /\ n - 1 \notin Bad /\ (n - 1) + 1 = n
      BY <2>1, <2>2
    <2>4. PICK f : SumsUpTo(f, S, n - 1)
      BY <2>3
    <2>5. \E g : SumsUpTo(g, S, (n - 1) + 1)
      BY <2>3, <2>4, MoreSums
    <2> QED
      BY <2>1, <2>3, <2>5
  <1>2. Cardinality(S) \in Nat
    BY FS_CardinalityType
  <1>3. PICK f : SumsUpTo(f, S, Cardinality(S))
    BY <1>1, <1>2
  <1> DEFINE g == [s \in SUBSET S |-> f[s]]
  <1>4. ASSUME NEW s \in SUBSET S PROVE g[s] = SumAt(g, s)
    <2>1. Cardinality(s) <= Cardinality(S)
      BY FS_Subset
    <2>2. f[s] = SumAt(f, s)
      BY <1>3, <2>1 DEF SumsUpTo
    <2>3. s # {} => g[s \ {Some(s)}] = f[s \ {Some(s)}]
      OBVIOUS
    <2>4. g[s] = f[s]
      OBVIOUS
    <2> HIDE DEF g
    <2> QED
      BY <2>2, <2>3, <2>4 DEF SumAt
  <1>5. g = [s \in SUBSET S |-> g[s]]
    OBVIOUS
  <1>6. IsSum(g, S)
    <2> HIDE DEF g
    <2> QED
      BY <1>4, <1>5 DEF IsSum
  <1> QED
    BY <1>6

\* Sums over a set and over a part of it agree where both are defined.
LEMMA SumsAgree ==
    ASSUME NEW S, IsFiniteSet(S), NEW T \in SUBSET S,
           NEW f, IsSum(f, S), NEW g, IsSum(g, T)
    PROVE  \A s \in SUBSET T : f[s] = g[s]
  <1> DEFINE Bad == {s \in SUBSET T : f[s] # g[s]}
             Sizes == {Cardinality(s) : s \in Bad}
  <1>1. ASSUME NEW s \in SUBSET T
        PROVE  /\ s \in SUBSET S
               /\ f[s] = SumAt(f, s) /\ g[s] = SumAt(g, s)
    BY DEF IsSum
  <1>2. ASSUME Bad # {} PROVE FALSE
    <2>1. Sizes # {} /\ Sizes \in SUBSET Nat
      <3>1. \A s \in Bad : Cardinality(s) \in Nat
        BY FS_Subset, FS_CardinalityType
      <3> QED
        BY <1>2, <3>1
    <2>2. PICK m \in Sizes : \A k \in Sizes : m <= k
      <3> HIDE DEF Sizes
      <3> QED
        BY <2>1, LeastNatural
    <2>3. PICK s \in Bad : m = Cardinality(s)
      BY <2>2
    <2>4. s # {}
      BY <1>1, <2>3 DEF SumAt
    <2> DEFINE r == s \ {Some(s)}
    <2>5. r \in SUBSET T /\ Cardinality(r) = Cardinality(s) - 1 /\ m \in Nat
      BY <1>1, <2>1, <2>3, <2>4, SomeRemoved
    <2>6. r \notin Bad
      BY <2>2, <2>3, <2>5
    <2>7. f[r] = g[r]
      BY <2>5, <2>6
    <2>8. f[s] = g[s]
      BY <1>1, <2>3, <2>4, <2>7 DEF SumAt
    <2> QED
      BY <2>3, <2>8
  <1> QED
    BY <1>2

LEMMA WordOfNothing == WordOf({}) = 0
  <1>1. PICK f : IsSum(f, {})
    BY SumsExist, FS_EmptySet
  <1>2. IsSum((CHOOSE h : IsSum(h, {})), {})
    BY <1>1
  <1>3. (CHOOSE h : IsSum(h, {}))[{}] = 0
    BY <1>2 DEF IsSum, SumAt
  <1> QED
    BY <1>3, WordOfIsSum

LEMMA WordOfSome ==
    ASSUME NEW S, IsFiniteSet(S), S # {}
    PROVE  WordOf(S) = 2^Some(S) + WordOf(S \ {Some(S)})
  <1> DEFINE T == S \ {Some(S)}
             f == CHOOSE h : IsSum(h, S)
             g == CHOOSE h : IsSum(h, T)
  <1>1. IsFiniteSet(T) /\ T \in SUBSET S
    BY FS_Subset
  <1>2. IsSum(f, S) /\ IsSum(g, T)
    BY <1>1, SumsExist
  <1>3. WordOf(S) = f[S] /\ WordOf(T) = g[T]
    BY WordOfIsSum
  <1> HIDE DEF T, f, g
  <1>4. f[T] = g[T]
    BY <1>1, <1>2, SumsAgree
  <1>5. f[S] = SumAt(f, S)
    BY <1>2 DEF IsSum
  <1> QED
    BY <1>3, <1>4, <1>5 DEF SumAt, T

LEMMA WordOfIsNatural ==
    ASSUME NEW S \in SUBSET Nat, IsFiniteSet(S)
    PROVE  WordOf(S) \in Nat
  <1> DEFINE Bad == {s \in SUBSET S : WordOf(s) \notin Nat}
             Sizes == {Cardinality(s) : s \in Bad}
  <1>1. ASSUME Bad # {} PROVE FALSE
    <2>1. Sizes # {} /\ Sizes \in SUBSET Nat
      <3>1. \A s \in Bad : Cardinality(s) \in Nat
        BY FS_Subset, FS_CardinalityType
      <3> QED
        BY <1>1, <3>1
    <2>2. PICK m \in Sizes : \A k \in Sizes : m <= k
      <3> HIDE DEF Sizes
      <3> QED
        BY <2>1, LeastNatural
    <2>3. PICK s \in Bad : m = Cardinality(s)
      BY <2>2
    <2>4. s # {}
      <3>1. s = {} => WordOf(s) = 0
        BY WordOfNothing, Zenon
      <3>2. WordOf(s) \notin Nat
        BY <2>3
      <3> QED
        BY <3>1, <3>2
    <2> DEFINE r == s \ {Some(s)}
    <2>5. r \in SUBSET S /\ Cardinality(r) = Cardinality(s) - 1 /\ m \in Nat
      BY <2>1, <2>3, <2>4, SomeRemoved
    <2>6. r \notin Bad
      BY <2>2, <2>3, <2>5
    <2>7. WordOf(r) \in Nat
      BY <2>5, <2>6
    <2>8. 2^Some(s) \in Nat
      <3>1. Some(s) \in Nat
        BY <2>4, SomeIsIn
      <3> QED
        BY <3>1, PowersArePositive
    <2>9. WordOf(s) = 2^Some(s) + WordOf(r)
      <3>1. IsFiniteSet(s)
        BY FS_Subset
      <3> QED
        BY <2>4, <3>1, WordOfSome
    <2>10. WordOf(s) \in Nat
      BY <2>7, <2>8, <2>9
    <2> QED
      BY <2>3, <2>10
  <1> QED
    BY <1>1

\* Any place may be taken out first.
TakenOut(s) == \A k \in s : WordOf(s) = 2^k + WordOf(s \ {k})

LEMMA AnyTakenOut ==
    ASSUME NEW S \in SUBSET Nat, IsFiniteSet(S)
    PROVE  TakenOut(S)
  <1> DEFINE Bad == {s \in SUBSET S : ~TakenOut(s)}
             Sizes == {Cardinality(s) : s \in Bad}
  <1>1. ASSUME Bad # {} PROVE FALSE
    <2>1. Sizes # {} /\ Sizes \in SUBSET Nat
      <3>1. \A s \in Bad : Cardinality(s) \in Nat
        BY FS_Subset, FS_CardinalityType
      <3> QED
        BY <1>1, <3>1
    <2>2. PICK m \in Sizes : \A k \in Sizes : m <= k
      <3> HIDE DEF Sizes
      <3> QED
        BY <2>1, LeastNatural
    <2>3. PICK s \in Bad : m = Cardinality(s)
      BY <2>2
    <2>4. PICK y \in s : WordOf(s) # 2^y + WordOf(s \ {y})
      BY <2>3 DEF TakenOut
    <2> DEFINE x == Some(s)
               r == s \ {x}
               q == s \ {y}
               p == s \ {x, y}
    <2>5. /\ r \in SUBSET S /\ Cardinality(r) = Cardinality(s) - 1
          /\ m \in Nat /\ x \in s
      BY <2>1, <2>3, <2>4, SomeRemoved, SomeIsIn
    <2>6. /\ IsFiniteSet(s) /\ Cardinality(q) = Cardinality(s) - 1
          /\ IsFiniteSet(q) /\ IsFiniteSet(r) /\ IsFiniteSet(p)
      <3>1. IsFiniteSet(s)
        BY FS_Subset
      <3>2. p \in SUBSET s /\ q \in SUBSET s /\ r \in SUBSET s
        OBVIOUS
      <3>3. IsFiniteSet(q) /\ IsFiniteSet(r) /\ IsFiniteSet(p)
        <4> HIDE DEF p, q, r
        <4> QED
          BY <3>1, <3>2, FS_Subset
      <3> QED
        BY <3>1, <3>3, FS_RemoveElement
    <2>7. TakenOut(r) /\ TakenOut(q)
      BY <2>2, <2>3, <2>5, <2>6
    <2>8. WordOf(s) = 2^x + WordOf(r)
      BY <2>4, <2>6, WordOfSome
    <2>9. x # y
      BY <2>4, <2>8
    <2>10. y \in r /\ x \in q /\ r \ {y} = p /\ q \ {x} = p
      BY <2>4, <2>5, <2>9
    <2>11. WordOf(r) = 2^y + WordOf(p) /\ WordOf(q) = 2^x + WordOf(p)
      <3> HIDE DEF p, q, r, x
      <3> QED
        BY <2>7, <2>10 DEF TakenOut
    <2>12. WordOf(p) \in Nat /\ 2^x \in Nat /\ 2^y \in Nat
      <3>1. x \in Nat /\ y \in Nat /\ p \in SUBSET Nat
        BY <2>4, <2>5
      <3> HIDE DEF p, x
      <3> QED
        BY <2>6, <3>1, WordOfIsNatural, PowersArePositive
    <2>13. WordOf(s) = 2^y + WordOf(q)
      <3> HIDE DEF p, q, r, x
      <3> QED
        BY <2>8, <2>11, <2>12
    <2> QED
      BY <2>4, <2>13
  <1> QED
    BY <1>1

LEMMA WordOfAdded ==
    ASSUME NEW S \in SUBSET Nat, IsFiniteSet(S), NEW k \in Nat \ S
    PROVE  WordOf(S \cup {k}) = 2^k + WordOf(S)
  <1> DEFINE T == S \cup {k}
  <1>1. T \in SUBSET Nat /\ IsFiniteSet(T) /\ T \ {k} = S /\ k \in T
    BY FS_AddElement
  <1> HIDE DEF T
  <1>2. TakenOut(T)
    BY <1>1, AnyTakenOut
  <1> QED
    BY <1>1, <1>2 DEF TakenOut, T

-----------------------------------------------------------------------------
(***************************************************************************)
(* Words and the places of their one bits are the same thing: a sum of     *)
(* places below n is less than 2^n, and its bits are these places.         *)
(***************************************************************************)
LEMMA SumsAreBelow ==
    \A n \in Nat : \A S \in SUBSET (0 .. n - 1) :
        IsFiniteSet(S) /\ WordOf(S) \in 0 .. 2^n - 1
  <1> DEFINE Below(n) == \A S \in SUBSET (0 .. n - 1) : WordOf(S) < 2^n
             Bad == {n \in Nat : ~Below(n)}
  <1>1. ASSUME NEW n \in Nat, NEW S \in SUBSET (0 .. n - 1)
        PROVE  IsFiniteSet(S) /\ S \in SUBSET Nat /\ WordOf(S) \in Nat
    <2>1. IsFiniteSet(0 .. n - 1) /\ S \in SUBSET Nat
      BY FS_Interval
    <2>2. IsFiniteSet(S)
      BY <2>1, FS_Subset
    <2> QED
      BY <2>1, <2>2, WordOfIsNatural
  <1>2. ASSUME Bad # {} PROVE FALSE
    <2>1. PICK n \in Bad : \A k \in Bad : n <= k
      BY <1>2, LeastNatural
    <2>2. PICK S \in SUBSET (0 .. n - 1) : ~(WordOf(S) < 2^n)
      BY <2>1
    <2>3. n # 0
      <3>1. n = 0 => S = {}
        BY <2>2
      <3>2. S = {} => WordOf(S) = 0
        BY WordOfNothing, Zenon
      <3>3. n = 0 => 2^n = 1
        OBVIOUS
      <3> QED
        BY <2>2, <3>1, <3>2, <3>3
    <2>4. PICK m \in Nat : n = m + 1
      <3>1. n - 1 \in Nat /\ n = (n - 1) + 1
        BY <2>1, <2>3
      <3> QED
        BY <3>1
    <2>5. \A T \in SUBSET (0 .. m - 1) : WordOf(T) < 2^m
      BY <2>1, <2>4
    <2> DEFINE T == S \ {m}
    <2>6. T \in SUBSET (0 .. m - 1)
      BY <2>2, <2>4
    <2>7. WordOf(T) < 2^m /\ WordOf(T) \in Nat
      <3> HIDE DEF T
      <3> QED
        BY <1>1, <2>5, <2>6
    <2>8. 2^n = 2 * 2^m /\ 2^m \in Nat
      BY <2>4, PowersDouble, PowersArePositive
    <2>9. WordOf(S) = WordOf(T) \/ WordOf(S) = 2^m + WordOf(T)
      <3>1. CASE m \notin S
        <4>1. T = S
          BY <3>1
        <4> HIDE DEF T
        <4> QED
          BY <4>1
      <3>2. CASE m \in S
        <4>1. T \cup {m} = S /\ m \in Nat \ T
          BY <3>2
        <4>2. WordOf(T \cup {m}) = 2^m + WordOf(T)
          <5> HIDE DEF T
          <5> QED
            BY <1>1, <2>6, <4>1, WordOfAdded
        <4> QED
          BY <4>1, <4>2
      <3> QED
        BY <3>1, <3>2
    <2> HIDE DEF T
    <2> QED
      BY <2>2, <2>7, <2>8, <2>9
  <1>3. \A n \in Nat : Below(n)
    BY <1>2
  <1>4. ASSUME NEW n \in Nat, NEW S \in SUBSET (0 .. n - 1)
        PROVE  IsFiniteSet(S) /\ WordOf(S) \in 0 .. 2^n - 1
    <2>1. IsFiniteSet(S) /\ WordOf(S) \in Nat /\ WordOf(S) < 2^n
      BY <1>1, <1>3
    <2>2. 2^n \in Nat
      BY PowersArePositive
    <2> QED
      BY <2>1, <2>2
  <1> QED
    BY <1>4

LEMMA QuotientsAreUnique ==
    ASSUME NEW b \in Nat \ {0}, NEW q \in Nat, NEW r \in Nat, r < b
    PROVE  /\ (q * b + r) \div b = q
           /\ (q * b + r) % b = r
  OBVIOUS

\* A sum of places, around one of them: what is below, its bit, what is above.
LEMMA AroundAPlace ==
    ASSUME NEW k \in Nat
    PROVE  \A n \in Nat : n > k => \A S \in SUBSET (0 .. n - 1) :
               \E low \in 0 .. 2^k - 1 : \E high \in Nat :
                   WordOf(S) = (2 * high + (IF k \in S THEN 1 ELSE 0)) * 2^k + low
  <1> DEFINE Bit(S) == IF k \in S THEN 1 ELSE 0
             Parts(S) == \E low \in 0 .. 2^k - 1 : \E high \in Nat :
                            WordOf(S) = (2 * high + Bit(S)) * 2^k + low
             Bad == {n \in Nat : n > k /\ ~ \A S \in SUBSET (0 .. n - 1) : Parts(S)}
  <1>1. 2^k \in Nat \ {0}
    BY PowersArePositive
  <1>2. ASSUME Bad # {} PROVE FALSE
    <2>1. PICK n \in Bad : \A l \in Bad : n <= l
      BY <1>2, LeastNatural
    <2>2. PICK S \in SUBSET (0 .. n - 1) : ~Parts(S)
      BY <2>1
    <2>3. PICK m \in Nat : n = m + 1 /\ m >= k
      <3>1. n - 1 \in Nat /\ n = (n - 1) + 1 /\ n - 1 >= k
        BY <2>1
      <3> QED
        BY <3>1
    <2> DEFINE T == S \ {m}
    <2>4. T \in SUBSET (0 .. m - 1) /\ T \in SUBSET Nat
      BY <2>2, <2>3
    <2>5. IsFiniteSet(T) /\ WordOf(T) \in 0 .. 2^m - 1
      <3> HIDE DEF T
      <3> QED
        BY <2>4, SumsAreBelow
    <2>6. CASE m \notin S
      <3>1. T = S
        BY <2>6
      <3>2. m # k => m > k
        BY <2>3
      <3>3. CASE m = k
        <4>1. Bit(S) = 0
          BY <2>6, <3>3
        <4>2. WordOf(S) \in 0 .. 2^k - 1
          BY <2>5, <3>1, <3>3
        <4>3. (2 * 0 + Bit(S)) * 2^k = 0
          <5> DEFINE a == 2^k
                     b == Bit(S)
          <5>1. a \in Nat /\ b = 0
            BY <1>1, <4>1
          <5>2. (2 * 0 + b) * a = 0
            <6> HIDE DEF a, b
            <6> QED
              BY <5>1
          <5> QED
            BY <5>2
        <4>4. WordOf(S) = (2 * 0 + Bit(S)) * 2^k + WordOf(S)
          <5> HIDE DEF Bit
          <5> QED
            BY <4>2, <4>3
        <4>5. 0 \in Nat
          OBVIOUS
        <4> HIDE DEF Bit
        <4> QED
          BY <2>2, <4>2, <4>4, <4>5
      <3>4. CASE m # k
        <4>1. ~(n <= m)
          BY <2>3
        <4>2. m \notin Bad
          <5> HIDE DEF Bad
          <5> QED
            BY <2>1, <4>1
        <4>3. \A R \in SUBSET (0 .. m - 1) : Parts(R)
          <5> HIDE DEF Parts
          <5> QED
            BY <3>2, <3>4, <4>2
        <4> HIDE DEF Parts
        <4> QED
          BY <2>2, <2>4, <3>1, <4>3
      <3> QED
        BY <3>3, <3>4
    <2>7. CASE m \in S
      <3>1. WordOf(S) = 2^m + WordOf(T)
        <4>1. T \cup {m} = S /\ m \in Nat \ T
          BY <2>3, <2>7
        <4>2. WordOf(T \cup {m}) = 2^m + WordOf(T)
          <5> HIDE DEF T
          <5> QED
            BY <2>4, <2>5, <4>1, WordOfAdded
        <4> QED
          BY <4>1, <4>2
      <3>2. CASE m = k
        <4>1. Bit(S) = 1
          BY <2>7, <3>2
        <4>2. (2 * 0 + Bit(S)) * 2^k = 2^k
          <5> DEFINE a == 2^k
                     b == Bit(S)
          <5>1. a \in Nat /\ b = 1
            BY <1>1, <4>1
          <5>2. (2 * 0 + b) * a = a
            <6> HIDE DEF a, b
            <6> QED
              BY <5>1
          <5> QED
            BY <5>2
        <4>3. WordOf(S) = (2 * 0 + Bit(S)) * 2^k + WordOf(T)
          <5> HIDE DEF Bit, T
          <5> QED
            BY <3>1, <3>2, <4>2
        <4>4. 0 \in Nat /\ WordOf(T) \in 0 .. 2^k - 1
          BY <2>5, <3>2
        <4> HIDE DEF Bit, T
        <4> QED
          BY <2>2, <4>3, <4>4
      <3>3. CASE m # k
        <4>1. m > k /\ ~(n <= m)
          BY <2>3, <3>3
        <4>11. m \notin Bad
          <5> HIDE DEF Bad
          <5> QED
            BY <2>1, <4>1
        <4>12. \A R \in SUBSET (0 .. m - 1) : Parts(R)
          <5> HIDE DEF Parts
          <5> QED
            BY <4>1, <4>11
        <4>13. Bit(T) = Bit(S)
          BY <3>3
        <4>2. Parts(T) /\ Bit(T) = Bit(S)
          <5> HIDE DEF Parts, T
          <5> QED
            BY <2>4, <4>12, <4>13
        <4>3. PICK low \in 0 .. 2^k - 1, high \in Nat :
                  WordOf(T) = (2 * high + Bit(S)) * 2^k + low
          BY <4>2
        <4>4. PICK l \in Nat : m = (l + 1) + k
          <5>1. m - k - 1 \in Nat /\ m = ((m - k - 1) + 1) + k
            BY <4>1, <2>3
          <5> QED
            BY <5>1
        <4>5. /\ 2^m = 2^(l + 1) * 2^k
              /\ 2^(l + 1) = 2 * 2^l
              /\ 2^l \in Nat
          <5>1. l + 1 \in Nat
            OBVIOUS
          <5>2. 2^((l + 1) + k) = 2^(l + 1) * 2^k
            BY <5>1, PowersOfSums
          <5>3. 2^(l + 1) = 2 * 2^l /\ 2^l \in Nat
            BY PowersDouble, PowersArePositive
          <5>4. 2^m = 2^((l + 1) + k)
            BY <4>4, Zenon
          <5> QED
            BY <5>2, <5>3, <5>4
        <4> DEFINE a == 2^k
                   c == 2^l
                   d == 2^m
                   b == Bit(S)
                   w == WordOf(T)
        <4>6. /\ a \in Nat /\ b \in Nat /\ c \in Nat /\ low \in Nat /\ d = (2 * c) * a
              /\ w = (2 * high + b) * a + low
          BY <1>1, <4>3, <4>5
        <4>7. d + w = (2 * (high + c) + b) * a + low
          <5> HIDE DEF a, b, c, d, w
          <5>1. (2 * (high + c) + b) * a = (2 * high + b) * a + (2 * c) * a
            BY <4>6
          <5> QED
            BY <4>6, <5>1
        <4>8. WordOf(S) = (2 * (high + c) + Bit(S)) * 2^k + low
          BY <3>1, <4>7
        <4>9. high + c \in Nat
          BY <4>6
        <4> HIDE DEF Bit, c
        <4> QED
          BY <2>2, <4>8, <4>9
      <3> QED
        BY <3>2, <3>3
    <2> QED
      BY <2>6, <2>7
  <1> QED
    BY <1>2

Places == 0 .. WordBits - 1

\* A function of equally large finite sets that is one-to-one comes to everything.
LEMMA OneToOneIsOnto ==
    ASSUME NEW S, NEW T, IsFiniteSet(T), NEW f \in [S -> T],
           Cardinality(S) = Cardinality(T),
           \A x, y \in S : f[x] = f[y] => x = y
    PROVE  \A z \in T : \E x \in S : f[x] = z
  <1>1. f \in Injection(S, T)
    BY DEF Injection, IsInjective
  <1>2. f \in Surjection(S, T)
    BY <1>1, FS_Injection
  <1> QED
    BY <1>2 DEF Surjection

LEMMA WordsAreCounted ==
    /\ WordBits \in Nat \ {0} /\ 2^WordBits \in Nat \ {0}
    /\ IsFiniteSet(Words) /\ Cardinality(Words) = 2^WordBits
    /\ IsFiniteSet(Places) /\ Cardinality(Places) = WordBits
    /\ IsFiniteSet(SUBSET Places) /\ Cardinality(SUBSET Places) = 2^WordBits
  <1>1. WordBits \in Nat \ {0} /\ 2^WordBits \in Nat \ {0}
    BY SplitMix64Assumption, PowersArePositive
  <1>2. IsFiniteSet(Places) /\ Cardinality(Places) = WordBits
    <2>1. 0 \in Int /\ WordBits - 1 \in Int /\ ~(0 > WordBits - 1)
          /\ (WordBits - 1) - 0 + 1 = WordBits
      BY <1>1
    <2> QED
      BY <2>1, FS_Interval DEF Places
  <1>3. IsFiniteSet(Words) /\ Cardinality(Words) = 2^WordBits
    <2> DEFINE n == 2^WordBits
    <2>1. n \in Nat \ {0}
      BY <1>1
    <2> HIDE DEF n
    <2>2. 0 \in Int /\ n - 1 \in Int /\ ~(0 > n - 1) /\ (n - 1) - 0 + 1 = n
      BY <2>1
    <2>3. IsFiniteSet(0 .. n - 1) /\ Cardinality(0 .. n - 1) = n
      BY <2>2, FS_Interval
    <2> QED
      BY <2>3 DEF n, Words
  <1> QED
    BY <1>1, <1>2, <1>3, FS_SUBSET

LEMMA OnesOfWord ==
    ASSUME NEW S \in SUBSET Places
    PROVE  WordOf(S) \in Words /\ Ones[WordOf(S)] = S
  <1>1. WordBits \in Nat
    BY WordsAreCounted
  <1>2. WordOf(S) \in Words
    BY <1>1, SumsAreBelow DEF Places, Words
  <1>3. ASSUME NEW k \in Places
        PROVE  (WordOf(S) \div 2^k) % 2 = 1 <=> k \in S
    <2> DEFINE bit == IF k \in S THEN 1 ELSE 0
    <2>1. k \in Nat /\ WordBits > k
      BY <1>1 DEF Places
    <2>2. PICK low \in 0 .. 2^k - 1, high \in Nat :
              WordOf(S) = (2 * high + bit) * 2^k + low
      <3>1. \A n \in Nat : n > k => \A R \in SUBSET (0 .. n - 1) :
                \E low \in 0 .. 2^k - 1 : \E high \in Nat :
                    WordOf(R) = (2 * high + (IF k \in R THEN 1 ELSE 0)) * 2^k + low
        BY <2>1, AroundAPlace
      <3>2. S \in SUBSET (0 .. WordBits - 1)
        BY DEF Places
      <3> QED
        BY <1>1, <2>1, <3>1, <3>2
    <2> DEFINE b == 2^k
               q == 2 * high + bit
    <2>3. b \in Nat \ {0} /\ bit \in {0, 1}
      BY <2>1, PowersArePositive
    <2>4. q \in Nat /\ q % 2 = bit
      <3> HIDE DEF bit
      <3> QED
        BY <2>3
    <2>5. low \in Nat /\ low < b
      <3> HIDE DEF q
      <3> QED
        BY <2>3
    <2>6. (q * b + low) \div b = q
      <3> HIDE DEF q, b
      <3> QED
        BY <2>3, <2>4, <2>5, QuotientsAreUnique
    <2>7. WordOf(S) \div 2^k = q
      BY <2>2, <2>6
    <2>8. bit = 1 <=> k \in S
      OBVIOUS
    <2> HIDE DEF q, bit
    <2> QED
      BY <2>4, <2>7, <2>8
  <1>4. Ones[WordOf(S)] = {k \in Places : (WordOf(S) \div 2^k) % 2 = 1}
    BY <1>2 DEF Ones, Places
  <1> QED
    BY <1>2, <1>3, <1>4

LEMMA OnesArePlaces == \A w \in Words : Ones[w] \in SUBSET Places
  BY DEF Ones, Places

LEMMA WordOfOnes == \A w \in Words : WordOf(Ones[w]) = w
  <1> DEFINE f == [S \in SUBSET Places |-> WordOf(S)]
  <1>1. f \in [SUBSET Places -> Words]
    BY OnesOfWord
  <1>2. \A S, T \in SUBSET Places : f[S] = f[T] => S = T
    <2>1. \A S \in SUBSET Places : Ones[f[S]] = S
      BY OnesOfWord
    <2> QED
      BY <2>1
  <1>3. \A w \in Words : \E S \in SUBSET Places : f[S] = w
    <2> HIDE DEF f
    <2> QED
      BY <1>1, <1>2, WordsAreCounted, OneToOneIsOnto
  <1>4. ASSUME NEW w \in Words PROVE WordOf(Ones[w]) = w
    <2>1. PICK S \in SUBSET Places : f[S] = w
      BY <1>3
    <2>2. WordOf(S) = w
      BY <2>1
    <2> QED
      BY <2>2, OnesOfWord
  <1> QED
    BY <1>4

LEMMA SameOnesSameWord ==
    ASSUME NEW v \in Words, NEW w \in Words, Ones[v] = Ones[w]
    PROVE  v = w
  BY WordOfOnes

-----------------------------------------------------------------------------
(***************************************************************************)
(* One-to-one: the exclusive or with a shift, and the product with an odd  *)
(* number, hence the output as a function of the state.                    *)
(***************************************************************************)
LEMMA WordsAreNumbers == \A w \in Words : w \in Nat /\ w < 2^WordBits
  <1>1. 2^WordBits \in Nat
    BY WordsAreCounted
  <1> QED
    BY <1>1 DEF Words

LEMMA QuotientAndRemainder ==
    ASSUME NEW z \in Nat, NEW b \in Nat \ {0}
    PROVE  /\ z \div b \in Nat /\ z % b \in Nat /\ z % b < b
           /\ z = (z \div b) * b + (z % b)
  OBVIOUS

LEMMA QuotientsAreSmaller ==
    ASSUME NEW z \in Nat, NEW a \in Nat \ {0}
    PROVE  z \div a \in Nat /\ z \div a <= z
  <1> DEFINE q == z \div a
             r == z % a
  <1>1. q \in Nat /\ r \in Nat /\ z = q * a + r
    BY QuotientAndRemainder
  <1> HIDE DEF q, r
  <1>2. q * a >= q
    BY <1>1
  <1>3. q <= z
    BY <1>1, <1>2
  <1> QED
    BY <1>1, <1>3 DEF q

\* Dividing twice.
LEMMA QuotientsOfQuotients ==
    ASSUME NEW z \in Nat, NEW a \in Nat \ {0}, NEW b \in Nat \ {0}
    PROVE  (z \div a) \div b = z \div (a * b)
  <1> DEFINE q == z \div a
             r == z % a
             p == q \div b
             s == q % b
  <1>1. q \in Nat /\ r \in Nat /\ r < a /\ z = q * a + r
    BY QuotientAndRemainder
  <1>2. p \in Nat /\ s \in Nat /\ s < b /\ q = p * b + s
    <2> HIDE DEF q
    <2> QED
      BY <1>1, QuotientAndRemainder
  <1>3. a * b \in Nat /\ a * b # 0
    OBVIOUS
  <1> HIDE DEF q, r, p, s
  <1>5. (p * b + s) * a = p * (a * b) + s * a
    BY <1>2
  <1>6. z = p * (a * b) + (s * a + r)
    <2>1. s * a \in Nat /\ p * (a * b) \in Nat
      BY <1>2
    <2> QED
      BY <1>1, <1>2, <1>5, <2>1
  <1>7. s * a + r \in Nat /\ s * a + r < a * b
    <2>1. PICK d \in Nat : b = s + 1 + d
      <3>1. b - s - 1 \in Nat /\ b = s + 1 + (b - s - 1)
        BY <1>2
      <3> QED
        BY <3>1
    <2>2. a * (s + 1 + d) = s * a + a + a * d
      BY <1>2
    <2>3. s * a \in Nat /\ a * d \in Nat
      BY <1>2
    <2> QED
      BY <1>1, <2>1, <2>2, <2>3
  <1> DEFINE c == a * b
             t == s * a + r
  <1>8. (p * c + t) \div c = p
    <2>1. c \in Nat \ {0} /\ p \in Nat /\ t \in Nat /\ t < c
      BY <1>2, <1>3, <1>7
    <2> HIDE DEF c, t
    <2> QED
      BY <2>1, QuotientsAreUnique
  <1>9. z \div c = p
    BY <1>6, <1>8
  <1> QED
    BY <1>9 DEF p, q

LEMMA ShiftsOfShifts ==
    ASSUME NEW z \in Nat, NEW s \in Nat, NEW k \in Nat
    PROVE  (z \div 2^s) \div 2^k = z \div 2^(k + s)
  <1> DEFINE low == 2^s
             high == 2^k
  <1>1. low \in Nat \ {0} /\ high \in Nat \ {0}
    BY PowersArePositive
  <1>2. k + s = s + k
    OBVIOUS
  <1>3. 2^(s + k) = low * high
    BY PowersOfSums
  <1>4. 2^(k + s) = low * high
    BY <1>2, <1>3
  <1>5. (z \div low) \div high = z \div (low * high)
    <2> HIDE DEF low, high
    <2>1. \A c, d \in Nat \ {0} : (z \div c) \div d = z \div (c * d)
      BY QuotientsOfQuotients
    <2> QED
      BY <1>1, <2>1
  <1> QED
    BY <1>4, <1>5

LEMMA OnesOfShifted ==
    ASSUME NEW z \in Words, NEW s \in Nat
    PROVE  /\ z \div 2^s \in Words
           /\ \A k \in Places : k \in Ones[z \div 2^s] <=> k + s \in Ones[z]
  <1>1. z \in Nat /\ z < 2^WordBits /\ WordBits \in Nat /\ s \in Nat
    BY WordsAreNumbers, WordsAreCounted
  <1>2. \A n \in Nat : 2^n \in Nat \ {0}
    BY PowersArePositive
  <1>3. z \div 2^s \in Nat /\ z \div 2^s <= z
    <2> DEFINE a == 2^s
    <2>1. a \in Nat \ {0}
      BY <1>1, <1>2
    <2> HIDE DEF a
    <2>2. z \div a \in Nat /\ z \div a <= z
      BY <1>1, <2>1, QuotientsAreSmaller
    <2> QED
      BY <2>2 DEF a
  <1>4. z \div 2^s \in Words
    <2>1. 2^WordBits \in Nat
      BY <1>1, <1>2
    <2> QED
      BY <1>1, <1>3, <2>1 DEF Words
  <1>5. ASSUME NEW k \in Places
        PROVE  k \in Ones[z \div 2^s] <=> k + s \in Ones[z]
    <2>1. k \in Nat /\ k < WordBits /\ s + k \in Nat /\ s + k = k + s
      BY <1>1 DEF Places
    <2>2. (z \div 2^s) \div 2^k = z \div 2^(k + s)
      BY <1>1, <2>1, ShiftsOfShifts
    <2>3. k \in Ones[z \div 2^s] <=> (z \div 2^(k + s)) % 2 = 1
      BY <1>4, <2>2 DEF Ones, Places
    <2>4. CASE k + s < WordBits
      <3>1. k + s \in 0 .. WordBits - 1
        BY <1>1, <2>1, <2>4
      <3> QED
        BY <2>3, <3>1 DEF Ones
    <2>5. CASE ~(k + s < WordBits)
      <3>1. k + s \notin 0 .. WordBits - 1
        BY <1>1, <2>1, <2>5
      <3>2. k + s \notin Ones[z]
        BY <3>1 DEF Ones
      <3>3. z < 2^(k + s)
        <4> DEFINE d == (k + s) - WordBits
                   a == 2^WordBits
                   b == 2^d
        <4>1. d \in Nat /\ k + s = WordBits + d
          BY <1>1, <2>1, <2>5
        <4>2. 2^(WordBits + d) = a * b
          <5> HIDE DEF d
          <5> QED
            BY <1>1, <4>1, PowersOfSums
        <4>3. a \in Nat \ {0} /\ b \in Nat \ {0} /\ z < a
          <5> HIDE DEF d
          <5> QED
            BY <1>1, <1>2, <4>1
        <4>4. a * b >= a
          <5> HIDE DEF a, b
          <5> QED
            BY <4>3
        <4> HIDE DEF a, b, d
        <4>5. a * b \in Nat
          BY <4>3
        <4> QED
          BY <1>1, <4>1, <4>2, <4>3, <4>4, <4>5
      <3>4. z \div 2^(k + s) = 0
        <4> DEFINE a == 2^(k + s)
        <4>1. a \in Nat \ {0}
          BY <1>2, <2>1
        <4>2. z < a
          BY <3>3
        <4> HIDE DEF a
        <4>3. z \div a = 0
          BY <1>1, <4>1, <4>2
        <4> QED
          BY <4>3 DEF a
      <3> QED
        BY <2>3, <3>2, <3>4
    <2> QED
      BY <2>4, <2>5
  <1> QED
    BY <1>4, <1>5

LEMMA OnesOfXor ==
    ASSUME NEW v \in Words, NEW w \in Words
    PROVE  /\ Xor(v, w) \in Words
           /\ \A k \in Places : k \in Ones[Xor(v, w)] <=> ~(k \in Ones[v] <=> k \in Ones[w])
  <1> DEFINE D == SymDiff(Ones[v], Ones[w])
  <1>1. Ones[v] \in SUBSET Places /\ Ones[w] \in SUBSET Places
    BY OnesArePlaces
  <1>2. /\ D \in SUBSET Places
        /\ \A k \in Places : k \in D <=> ~(k \in Ones[v] <=> k \in Ones[w])
    BY <1>1 DEF SymDiff
  <1>3. Xor(v, w) = WordOf(D)
    BY DEF Xor
  <1> HIDE DEF D
  <1> QED
    BY <1>2, <1>3, OnesOfWord

LEMMA OnesOfOr ==
    ASSUME NEW v \in Words, NEW w \in Words
    PROVE  Or(v, w) \in Words /\ Ones[Or(v, w)] = Ones[v] \cup Ones[w]
  <1>1. Ones[v] \cup Ones[w] \in SUBSET Places
    BY OnesArePlaces
  <1> QED
    BY <1>1, OnesOfWord DEF Or

LEMMA OnesOfFolded ==
    ASSUME NEW z \in Words, NEW s \in 1 .. WordBits
    PROVE  /\ Folded(z, s) \in Words
           /\ \A k \in Places : k \in Ones[Folded(z, s)] <=>
                                   ~(k \in Ones[z] <=> k + s \in Ones[z])
  <1>1. Folded(z, s) = Xor(z, z \div 2^s)
    BY DEF Folded
  <1>2. s \in Nat
    OBVIOUS
  <1> QED
    BY <1>1, <1>2, OnesOfShifted, OnesOfXor

\* The places in which two words differ have no greatest one.
LEMMA FoldedIsOneToOne ==
    ASSUME NEW y \in Words, NEW z \in Words, NEW s \in 1 .. WordBits,
           Folded(y, s) = Folded(z, s)
    PROVE  y = z
  <1> DEFINE D == {k \in Places : ~(k \in Ones[y] <=> k \in Ones[z])}
             Distances == {WordBits - k : k \in D}
  <1>1. WordBits \in Nat /\ s \in Nat /\ s >= 1
    BY WordsAreCounted
  <1>2. /\ \A k \in Places : (k \in Ones[y] <=> k + s \in Ones[y]) <=>
                             (k \in Ones[z] <=> k + s \in Ones[z])
    BY OnesOfFolded
  <1>3. ASSUME D # {} PROVE FALSE
    <2>1. Distances # {} /\ Distances \in SUBSET Nat
      BY <1>1, <1>3 DEF Places
    <2>2. PICK d \in Distances : \A e \in Distances : d <= e
      <3> HIDE DEF Distances
      <3> QED
        BY <2>1, LeastNatural
    <2>3. PICK k \in D : d = WordBits - k
      BY <2>2
    <2>4. k + s \in D
      <3>1. k + s \in Ones[y] \cup Ones[z]
        BY <1>2, <2>3
      <3>2. k + s \in Places
        BY <3>1, OnesArePlaces
      <3> QED
        BY <1>2, <2>3, <3>2
    <2>5. WordBits - (k + s) \in Distances
      BY <2>4
    <2>6. k \in Nat
      BY <2>3 DEF Places
    <2>7. d <= WordBits - (k + s)
      <3> HIDE DEF Distances
      <3> QED
        BY <2>2, <2>5
    <2> QED
      BY <1>1, <2>3, <2>6, <2>7
  <1>4. Ones[y] = Ones[z]
    <2>1. Ones[y] \in SUBSET Places /\ Ones[z] \in SUBSET Places
      BY OnesArePlaces
    <2> QED
      BY <1>3, <2>1
  <1> QED
    BY <1>4, SameOnesSameWord

\* A power of two that divides an odd multiple divides the number.
LEMMA OddFactorsKeepPowers ==
    ASSUME NEW f \in Nat, f % 2 = 1
    PROVE  \A n \in Nat : \A d \in Nat : \A m \in Nat :
               d * f = 2^n * m => \E e \in Nat : d = 2^n * e
  <1> DEFINE Divides(n) == \A d \in Nat : \A m \in Nat :
                 d * f = 2^n * m => \E e \in Nat : d = 2^n * e
             Bad == {n \in Nat : ~Divides(n)}
  <1>1. PICK g \in Nat : f = 2 * g + 1
    <2>1. f \div 2 \in Nat /\ f = 2 * (f \div 2) + 1
      OBVIOUS
    <2> QED
      BY <2>1
  <1>2. ASSUME Bad # {} PROVE FALSE
    <2>1. PICK n \in Bad : \A k \in Bad : n <= k
      BY <1>2, LeastNatural
    <2>2. PICK d \in Nat, m \in Nat :
              d * f = 2^n * m /\ \A e \in Nat : d # 2^n * e
      BY <2>1
    <2>3. n # 0
      <3>1. n = 0 => 2^n = 1
        OBVIOUS
      <3>2. n = 0 => d # 1 * d
        BY <2>2, <3>1
      <3>3. d = 1 * d
        OBVIOUS
      <3> QED
        BY <3>2, <3>3
    <2>4. PICK j \in Nat : n = j + 1
      <3>1. n - 1 \in Nat /\ n = (n - 1) + 1
        BY <2>1, <2>3
      <3> QED
        BY <3>1
    <2>5. Divides(j)
      <3>1. ~(n <= j)
        BY <2>4
      <3>2. j \notin Bad
        <4> HIDE DEF Bad
        <4> QED
          BY <2>1, <3>1
      <3> HIDE DEF Divides
      <3> QED
        BY <3>2
    <2> DEFINE a == 2^j
    <2>6. 2^n = 2 * a /\ a \in Nat \ {0}
      BY <2>4, PowersDouble, PowersArePositive
    <2>7. d * f = a * (2 * m) /\ 2 * m \in Nat
      <3>1. d * f = (2 * a) * m
        BY <2>2, <2>6
      <3>2. a \in Nat
        BY <2>6
      <3> HIDE DEF a
      <3> QED
        BY <3>1, <3>2
    <2>8. PICK e \in Nat : d = a * e
      BY <2>5, <2>7
    <2> HIDE DEF a
    <2>9. e * f = 2 * m
      <3>1. a * (e * f) = a * (2 * m)
        <4>1. (a * e) * f = a * (e * f)
          BY <2>6
        <4> QED
          BY <2>7, <2>8, <4>1
      <3> DEFINE u == e * f
                 v == 2 * m
      <3>2. u \in Nat /\ v \in Nat /\ a \in Nat \ {0} /\ a * u = a * v
        BY <2>6, <3>1
      <3> HIDE DEF u, v
      <3>3. u = v
        BY <3>2
      <3> QED
        BY <3>3 DEF u, v
    <2>10. PICK h \in Nat : e = 2 * h
      <3>1. e = 2 * (m - e * g)
        <4>1. e * (2 * g + 1) = 2 * (e * g) + e
          OBVIOUS
        <4>2. e * g \in Nat
          OBVIOUS
        <4> QED
          BY <1>1, <2>9, <4>1, <4>2
      <3>2. m - e * g \in Int
        OBVIOUS
      <3>3. m - e * g \in Nat
        <4> DEFINE x == m - e * g
        <4>1. x \in Int /\ e = 2 * x
          BY <3>1, <3>2
        <4> HIDE DEF x
        <4>2. x \in Nat
          BY <4>1
        <4> QED
          BY <4>2 DEF x
      <3> QED
        BY <3>1, <3>3
    <2>11. d = 2^n * h
      <3>1. a * (2 * h) = (2 * a) * h
        BY <2>6
      <3> QED
        BY <2>6, <2>8, <2>10, <3>1
    <2> QED
      BY <2>2, <2>11
  <1>3. \A n \in Nat : Divides(n)
    BY <1>2
  <1> QED
    BY <1>3

LEMMA OddProductsAreOneToOne ==
    ASSUME NEW x \in Words, NEW y \in Words, NEW f \in Words, f % 2 = 1,
           (x * f) % 2^WordBits = (y * f) % 2^WordBits, x <= y
    PROVE  x = y
  <1> DEFINE b == 2^WordBits
  <1>1. /\ b \in Nat \ {0} /\ WordBits \in Nat /\ f \in Nat
        /\ x \in Nat /\ y \in Nat /\ y < b
    BY WordsAreNumbers, WordsAreCounted
  <1>2. x * f \in Nat /\ y * f \in Nat /\ x * f <= y * f
    <2>1. PICK d \in Nat : y = x + d
      <3>1. y - x \in Nat /\ y = x + (y - x)
        BY <1>1
      <3> QED
        BY <3>1
    <2>2. (x + d) * f = x * f + d * f /\ d * f \in Nat /\ x * f \in Nat
      BY <1>1
    <2> QED
      BY <2>1, <2>2
  <1> DEFINE u == x * f
             v == y * f
             p == u \div b
             q == v \div b
             r == u % b
  <1>3. /\ p \in Nat /\ q \in Nat /\ r \in Nat /\ r < b
        /\ u = p * b + r /\ v = q * b + r
    <2>1. u \in Nat /\ v \in Nat /\ u % b = v % b
      BY <1>2
    <2> HIDE DEF u, v, b
    <2> QED
      BY <1>1, <2>1, QuotientAndRemainder
  <1>4. (y - x) * f = b * (q - p) /\ y - x \in Nat
    <2>1. (y - x) * f = v - u
      BY <1>1
    <2>2. u \in Nat /\ v \in Nat
      BY <1>2
    <2>3. y - x \in Nat
      BY <1>1
    <2> HIDE DEF u, v, b, p, q, r
    <2>4. b * (q - p) = q * b - p * b
      BY <1>1, <1>3
    <2>5. q * b \in Nat /\ p * b \in Nat
      BY <1>1, <1>3
    <2> QED
      BY <1>3, <2>1, <2>2, <2>3, <2>4, <2>5
  <1>5. q - p \in Nat
    <2>1. u <= v /\ u \in Nat /\ v \in Nat
      BY <1>2
    <2> HIDE DEF u, v, b, p, q, r
    <2>2. ASSUME q < p PROVE FALSE
      <3>1. PICK d \in Nat : p = q + 1 + d
        <4>1. p - q - 1 \in Nat /\ p = q + 1 + (p - q - 1)
          BY <1>3, <2>2
        <4> QED
          BY <4>1
      <3>2. (q + 1 + d) * b = q * b + b + d * b /\ d * b \in Nat /\ q * b \in Nat
        BY <1>1, <1>3
      <3> QED
        BY <1>1, <1>3, <2>1, <3>1, <3>2
    <2> QED
      BY <1>3, <2>2
  <1> DEFINE d == y - x
             m == q - p
  <1>6. \E e \in Nat : d = b * e
    <2>1. d * f = 2^WordBits * m /\ d \in Nat /\ m \in Nat
      BY <1>4, <1>5
    <2> HIDE DEF d, m
    <2>2. \A n \in Nat : \A c \in Nat : \A k \in Nat :
              c * f = 2^n * k => \E e \in Nat : c = 2^n * e
      BY <1>1, OddFactorsKeepPowers
    <2>3. WordBits \in Nat
      BY <1>1
    <2>4. \A c \in Nat : \A k \in Nat :
              c * f = 2^WordBits * k => \E e \in Nat : c = 2^WordBits * e
      BY <2>2, <2>3, Zenon
    <2>5. \E e \in Nat : d = 2^WordBits * e
      BY <2>1, <2>4, Zenon
    <2> QED
      BY <2>5
  <1>7. PICK e \in Nat : d = b * e
    BY <1>6
  <1>8. d \in Nat /\ d < b
    BY <1>1
  <1>9. e = 0
    <2> HIDE DEF d, b
    <2>1. ASSUME e # 0 PROVE FALSE
      <3>1. b * e >= b
        BY <1>1, <2>1
      <3> QED
        BY <1>1, <1>7, <1>8, <3>1
    <2> QED
      BY <2>1
  <1>10. d = 0
    <2> HIDE DEF d, b
    <2> QED
      BY <1>1, <1>7, <1>9
  <1> QED
    BY <1>1, <1>10

LEMMA MixedIsOneToOne ==
    ASSUME NEW i \in 1 .. 2
    PROVE  /\ \A z \in Words : Mixed(z, i) \in Words
           /\ \A y, z \in Words : Mixed(y, i) = Mixed(z, i) => y = z
  <1> DEFINE f == Factors[i]
             s == Shifts[i]
             b == 2^WordBits
  <1>1. /\ f \in Words /\ f % 2 = 1 /\ s \in 1 .. WordBits
        /\ b \in Nat \ {0} /\ f \in Nat
    BY SplitMix64Assumption, WordsAreCounted, WordsAreNumbers
  <1>2. Words = 0 .. b - 1
    BY DEF Words
  <1>3. ASSUME NEW z \in Words PROVE Mixed(z, i) \in Words
    <2> DEFINE u == Folded(z, s)
    <2>1. u \in Nat
      <3> HIDE DEF s
      <3> QED
        BY <1>1, OnesOfFolded, WordsAreNumbers
    <2>2. Mixed(z, i) = (u * f) % b
      BY DEF Mixed
    <2> HIDE DEF u, f, b
    <2>3. u * f \in Nat
      BY <1>1, <2>1
    <2>4. (u * f) % b \in 0 .. b - 1
      <3> DEFINE p == u * f
      <3>1. p \in Nat
        BY <2>3
      <3> HIDE DEF p
      <3>2. p % b \in 0 .. b - 1
        BY <1>1, <3>1
      <3> QED
        BY <3>2 DEF p
    <2> QED
      BY <1>2, <2>2, <2>4
  <1>4. ASSUME NEW y \in Words, NEW z \in Words, Mixed(y, i) = Mixed(z, i)
        PROVE  y = z
    <2> DEFINE u == Folded(y, s)
               v == Folded(z, s)
    <2>1. u \in Words /\ v \in Words
      <3> HIDE DEF s
      <3> QED
        BY <1>1, OnesOfFolded
    <2>2. (u * f) % 2^WordBits = (v * f) % 2^WordBits
      BY <1>4 DEF Mixed
    <2>3. u = v
      <3> HIDE DEF u, v, f
      <3>1. u <= v => u = v
        BY <1>1, <2>1, <2>2, OddProductsAreOneToOne
      <3>2. v <= u => v = u
        BY <1>1, <2>1, <2>2, OddProductsAreOneToOne
      <3>3. u \in Nat /\ v \in Nat
        BY <2>1, WordsAreNumbers
      <3> QED
        BY <3>1, <3>2, <3>3
    <2> HIDE DEF s
    <2> QED
      BY <1>1, <2>3, FoldedIsOneToOne
  <1> QED
    BY <1>3, <1>4

LEMMA OutputIsOneToOne ==
    /\ \A w \in Words : Output(w) \in Words
    /\ \A v, w \in Words : Output(v) = Output(w) => v = w
    /\ \A y \in Words : \E w \in Words : Output(w) = y
  <1> DEFINE s == Shifts[3]
             M(w) == Mixed(Mixed(w, 1), 2)
  <1>1. s \in 1 .. WordBits
    BY SplitMix64Assumption
  <1>2. /\ \A w \in Words : M(w) \in Words
        /\ \A v, w \in Words : M(v) = M(w) => v = w
    <2>1. 1 \in 1 .. 2 /\ 2 \in 1 .. 2
      OBVIOUS
    <2>2. /\ \A z \in Words : Mixed(z, 1) \in Words
          /\ \A y, z \in Words : Mixed(y, 1) = Mixed(z, 1) => y = z
      BY <2>1, MixedIsOneToOne
    <2>3. /\ \A z \in Words : Mixed(z, 2) \in Words
          /\ \A y, z \in Words : Mixed(y, 2) = Mixed(z, 2) => y = z
      BY <2>1, MixedIsOneToOne
    <2> QED
      BY <2>2, <2>3
  <1>3. \A w : Output(w) = Folded(M(w), s)
    BY DEF Output
  <1> HIDE DEF s, M
  <1>4. \A w \in Words : Output(w) \in Words
    BY <1>1, <1>2, <1>3, OnesOfFolded
  <1>5. \A v, w \in Words : Output(v) = Output(w) => v = w
    BY <1>1, <1>2, <1>3, FoldedIsOneToOne
  <1> DEFINE f == [w \in Words |-> Output(w)]
  <1>6. f \in [Words -> Words] /\ \A v, w \in Words : f[v] = f[w] => v = w
    BY <1>4, <1>5
  <1>7. \A w \in Words : f[w] = Output(w)
    OBVIOUS
  <1> HIDE DEF f
  <1>8. \A y \in Words : \E w \in Words : f[w] = y
    BY <1>6, WordsAreCounted, OneToOneIsOnto
  <1> QED
    BY <1>4, <1>5, <1>7, <1>8

-----------------------------------------------------------------------------
(***************************************************************************)
(* The mask.  After i smears every place has been reached that lies less   *)
(* than 2^i below a one bit of bound - 1; there are smears enough to reach *)
(* every place below the highest one.                                      *)
(***************************************************************************)
SmearedAt(f, i, bound) ==
    IF i = 0 THEN bound - 1 ELSE Smear(f[i - 1], Smears[i])

IsSmearing(f, bound) == f = [i \in 0 .. Len(Smears) |-> SmearedAt(f, i, bound)]

LEMMA MaskIsSmeared ==
    \A bound : Mask(bound) = (CHOOSE f : IsSmearing(f, bound))[Len(Smears)]
  BY DEF Mask, IsSmearing, SmearedAt

Reached(bound, i) == {k \in Places : \E h \in Ones[bound - 1] : k <= h /\ h < k + 2^i}

Masked(bound) == {k \in Places : \E h \in Ones[bound - 1] : k <= h}

LEMMA SmearReachesOn ==
    ASSUME NEW bound \in Words \ {0}, NEW i \in 1 .. Len(Smears)
    PROVE  Smear(WordOf(Reached(bound, i - 1)), Smears[i]) =
               WordOf(Reached(bound, i))
  <1> DEFINE a == 2^(i - 1)
             R == Reached(bound, i - 1)
             m == WordOf(R)
             T == Ones[bound - 1]
  <1>1. i \in Nat /\ i - 1 \in Nat /\ (i - 1) + 1 = i /\ Smears[i] = a
    BY SplitMix64Assumption
  <1>2. a \in Nat \ {0} /\ 2^i = 2 * a
    BY <1>1, PowersArePositive, PowersDouble
  <1>3. R \in SUBSET Places /\ m \in Words /\ Ones[m] = R
    <2>1. R \in SUBSET Places
      BY DEF Reached
    <2> HIDE DEF R
    <2> QED
      BY <2>1, OnesOfWord
  <1>4. bound - 1 \in Words /\ T \in SUBSET Places
    <2>1. bound - 1 \in Words
      BY WordsAreNumbers, WordsAreCounted DEF Words
    <2> QED
      BY <2>1, OnesArePlaces
  <1>5. /\ \A k \in Places : k \in Nat
        /\ \A k \in Places : k \in R <=> \E h \in T : k <= h /\ h < k + a
        /\ \A k \in Places : k \in Reached(bound, i) <=>
                               \E h \in T : k <= h /\ h < k + 2 * a
        /\ \A k, h \in Places : h >= k + a => k + a \in Places
    <2>1. \A k \in Places : k \in Nat
      BY DEF Places
    <2>2. \A k, h \in Places : h >= k + a => k + a \in Places
      <3> HIDE DEF a
      <3> QED
        BY <1>2, WordsAreCounted DEF Places
    <2> QED
      BY <1>2, <2>1, <2>2 DEF Reached
  <1> HIDE DEF R, T, a
  <1>6. /\ m \div 2^a \in Words
        /\ \A k \in Places : k \in Ones[m \div 2^a] <=> k + a \in Ones[m]
    <2> HIDE DEF m
    <2> QED
      BY <1>2, <1>3, OnesOfShifted
  <1> DEFINE shifted == m \div 2^a
  <1>7. /\ shifted \in Words
        /\ \A k \in Places : k \in Ones[shifted] <=> k + a \in R
    BY <1>3, <1>6
  <1>8. Smear(m, Smears[i]) = Or(m, shifted)
    BY <1>1 DEF Smear
  <1> HIDE DEF m, shifted
  <1>9. Or(m, shifted) \in Words /\ Ones[Or(m, shifted)] = R \cup Ones[shifted]
    BY <1>3, <1>7, OnesOfOr
  <1>10. R \cup Ones[shifted] = Reached(bound, i)
    <2>1. ASSUME NEW k \in Places
          PROVE  k \in R \cup Ones[shifted] <=> k \in Reached(bound, i)
      <3>1. ASSUME k \in R PROVE k \in Reached(bound, i)
        <4>1. PICK h \in T : k <= h /\ h < k + a
          BY <1>5, <3>1
        <4>2. h < k + 2 * a
          BY <1>2, <1>4, <1>5, <4>1
        <4> QED
          BY <1>5, <4>1, <4>2
      <3>2. ASSUME k + a \in R PROVE k \in Reached(bound, i)
        <4>1. k + a \in Places
          BY <1>3, <3>2
        <4>2. PICK h \in T : k + a <= h /\ h < (k + a) + a
          BY <1>5, <3>2, <4>1
        <4>3. k <= h /\ h < k + 2 * a
          BY <1>2, <1>4, <1>5, <4>2
        <4> QED
          BY <1>5, <4>2, <4>3
      <3>3. ASSUME k \in Reached(bound, i) PROVE k \in R \/ k + a \in R
        <4>1. PICK h \in T : k <= h /\ h < k + 2 * a
          BY <1>5, <3>3
        <4>2. k \in Nat /\ h \in Nat /\ h \in Places
          BY <1>4, <1>5
        <4>3. CASE h < k + a
          BY <1>5, <4>1, <4>3
        <4>4. CASE h >= k + a
          <5>1. k + a \in Places
            BY <1>5, <4>2, <4>4
          <5>2. k + a <= h /\ h < (k + a) + a
            BY <1>2, <4>1, <4>2, <4>4
          <5> QED
            BY <1>5, <5>1, <5>2
        <4> QED
          BY <1>2, <4>2, <4>3, <4>4
      <3> QED
        BY <1>7, <3>1, <3>2, <3>3
    <2>2. R \cup Ones[shifted] \in SUBSET Places /\ Reached(bound, i) \in SUBSET Places
      BY <1>3, <1>7, OnesArePlaces DEF Reached
    <2> QED
      BY <2>1, <2>2
  <1>11. Or(m, shifted) = WordOf(Reached(bound, i))
    BY <1>9, <1>10, WordOfOnes
  <1> QED
    BY <1>8, <1>11 DEF m, R

LEMMA MaskIsMasked ==
    ASSUME NEW bound \in Words \ {0}
    PROVE  Mask(bound) = WordOf(Masked(bound))
  <1> DEFINE n == Len(Smears)
             last == bound - 1
             g == [i \in 0 .. n |-> WordOf(Reached(bound, i))]
             f == CHOOSE h : IsSmearing(h, bound)
  <1>1. n \in Nat /\ WordBits <= 2^n /\ WordBits \in Nat
    BY SplitMix64Assumption
  <1>2. last \in Words /\ Ones[last] \in SUBSET Places
    <2>1. last \in Words
      BY WordsAreNumbers, WordsAreCounted DEF Words
    <2> HIDE DEF last
    <2> QED
      BY <2>1, OnesArePlaces
  <1>3. Reached(bound, 0) = Ones[last]
    <2>1. 2^0 = 1
      OBVIOUS
    <2>2. \A k \in Places : k \in Nat
      BY DEF Places
    <2>3. Reached(bound, 0) =
              {k \in Places : \E h \in Ones[last] : k <= h /\ h < k + 1}
      BY <2>1 DEF Reached
    <2> DEFINE T == Ones[last]
    <2>4. T \in SUBSET Places
      BY <1>2
    <2> HIDE DEF last, T
    <2>5. ASSUME NEW k \in Places
          PROVE  (\E h \in T : k <= h /\ h < k + 1) <=> k \in T
      <3>1. \A h \in T : (k <= h /\ h < k + 1) <=> k = h
        BY <2>2, <2>4
      <3> QED
        BY <3>1
    <2> QED
      BY <2>3, <2>4, <2>5 DEF T
  <1>4. g[0] = last
    BY <1>1, <1>2, <1>3, WordOfOnes
  <1>5. ASSUME NEW i \in 0 .. n PROVE g[i] = SmearedAt(g, i, bound)
    <2>1. CASE i = 0
      BY <1>4, <2>1 DEF SmearedAt
    <2>2. CASE i # 0
      <3>1. i \in 1 .. n /\ i - 1 \in 0 .. n
        BY <1>1, <2>2
      <3>2. g[i - 1] = WordOf(Reached(bound, i - 1)) /\ g[i] = WordOf(Reached(bound, i))
        BY <3>1
      <3>3. Smear(WordOf(Reached(bound, i - 1)), Smears[i]) = WordOf(Reached(bound, i))
        BY <3>1, SmearReachesOn
      <3> HIDE DEF g
      <3> QED
        BY <2>2, <3>2, <3>3 DEF SmearedAt
    <2> QED
      BY <2>1, <2>2
  <1>6. g = [i \in 0 .. n |-> g[i]]
    OBVIOUS
  <1>7. IsSmearing(g, bound)
    <2> HIDE DEF g
    <2> QED
      BY <1>5, <1>6 DEF IsSmearing
  <1>8. IsSmearing(f, bound)
    <2> HIDE DEF g
    <2> QED
      BY <1>7
  <1>9. \A i \in 0 .. n : f[i] = SmearedAt(f, i, bound)
    <2>1. f = [i \in 0 .. n |-> SmearedAt(f, i, bound)]
      BY <1>8 DEF IsSmearing
    <2> HIDE DEF f, n
    <2> QED
      BY <2>1
  <1> HIDE DEF f, g
  <1>10. \A i \in 0 .. n : f[i] = g[i]
    <2> DEFINE Bad == {i \in 0 .. n : f[i] # g[i]}
    <2>1. ASSUME Bad # {} PROVE FALSE
      <3>1. Bad \in SUBSET Nat
        BY <1>1
      <3>2. PICK i \in Bad : \A j \in Bad : i <= j
        <4> HIDE DEF Bad
        <4> QED
          BY <2>1, <3>1, LeastNatural
      <3>3. i # 0
        BY <1>1, <1>5, <1>9, <3>2 DEF SmearedAt
      <3>4. i \in 0 .. n /\ i - 1 \in 0 .. n /\ ~(i <= i - 1)
        BY <1>1, <3>3
      <3>5. f[i - 1] = g[i - 1]
        BY <3>2, <3>4
      <3>6. f[i] = g[i]
        BY <1>5, <1>9, <3>3, <3>4, <3>5 DEF SmearedAt
      <3> QED
        BY <3>6
    <2> QED
      BY <2>1
  <1>11. Reached(bound, n) = Masked(bound)
    <2> DEFINE all == 2^n
    <2>1. all \in Nat /\ WordBits <= all
      BY <1>1, PowersArePositive
    <2>2. Reached(bound, n) =
              {k \in Places : \E h \in Ones[last] : k <= h /\ h < k + all}
      BY DEF Reached
    <2>3. Masked(bound) = {k \in Places : \E h \in Ones[last] : k <= h}
      BY DEF Masked
    <2> HIDE DEF all, last, n
    <2>4. \A k, h \in Places : h < k + all
      BY <1>1, <2>1 DEF Places
    <2> QED
      BY <1>2, <2>2, <2>3, <2>4
  <1>12. n \in 0 .. n
    BY <1>1
  <1>13. Mask(bound) = f[n]
    BY MaskIsSmeared DEF f
  <1>14. g[n] = WordOf(Reached(bound, n))
    BY <1>12 DEF g
  <1> QED
    BY <1>10, <1>11, <1>12, <1>13, <1>14

-----------------------------------------------------------------------------
(***************************************************************************)
(* Candidates: the places under the mask are given, the others are free.   *)
(***************************************************************************)
Hits(bound, v) == Cardinality({w \in Words : Candidate(w, bound) = v})

LEMMA CandidateIsMasked ==
    ASSUME NEW w \in Words, NEW bound \in Words \ {0}
    PROVE  /\ Candidate(w, bound) = WordOf(Ones[Output(w)] \cap Masked(bound))
           /\ Ones[Output(w)] \cap Masked(bound) \in SUBSET Places
  <1>1. Mask(bound) = WordOf(Masked(bound))
    BY MaskIsMasked
  <1>2. Masked(bound) \in SUBSET Places
    BY DEF Masked
  <1>3. Ones[Mask(bound)] = Masked(bound)
    BY <1>1, <1>2, OnesOfWord
  <1> QED
    BY <1>2, <1>3 DEF Candidate, And

LEMMA CandidatesAreNumbers ==
    \A w \in Words : \A bound : Candidate(w, bound) \in Nat
  <1> SUFFICES ASSUME NEW w \in Words, NEW bound
               PROVE  Candidate(w, bound) \in Nat
    OBVIOUS
  <1> DEFINE S == Ones[Output(w)] \cap Ones[Mask(bound)]
  <1>1. Ones[Output(w)] \in SUBSET Places
    BY OutputIsOneToOne, OnesArePlaces
  <1>2. Candidate(w, bound) = WordOf(S) /\ S \in SUBSET Places
    BY <1>1 DEF Candidate, And
  <1> HIDE DEF S
  <1> QED
    BY <1>2, OnesOfWord, WordsAreNumbers

\* The words that give a candidate correspond to the sets of unmasked places.
LEMMA HitsAreCounted ==
    ASSUME NEW bound \in Words \ {0},
           NEW v \in Words, Ones[v] \subseteq Masked(bound)
    PROVE  Hits(bound, v) = Cardinality(SUBSET (Places \ Masked(bound)))
  <1> DEFINE M == Masked(bound)
             H == {w \in Words : Candidate(w, bound) = v}
             Free == SUBSET (Places \ M)
             f == [w \in H |-> Ones[Output(w)] \ M]
  <1>1. ASSUME NEW w \in Words
        PROVE  /\ Ones[Output(w)] \in SUBSET Places
               /\ w \in H <=> Ones[Output(w)] \cap M = Ones[v]
    <2>1. Ones[Output(w)] \in SUBSET Places
      BY OutputIsOneToOne, OnesArePlaces
    <2> DEFINE S == Ones[Output(w)] \cap M
    <2>2. Candidate(w, bound) = WordOf(S) /\ S \in SUBSET Places
      BY CandidateIsMasked
    <2>3. w \in H <=> WordOf(S) = v
      BY <2>2
    <2> HIDE DEF S, H
    <2>4. WordOf(S) = v <=> S = Ones[v]
      BY <2>2, OnesOfWord, WordOfOnes
    <2> QED
      BY <2>1, <2>3, <2>4 DEF S
  <1>2. f \in [H -> Free]
    BY <1>1
  <1>3. ASSUME NEW x \in H, NEW y \in H, f[x] = f[y] PROVE x = y
    <2>1. x \in Words /\ y \in Words
      OBVIOUS
    <2>2. f[x] = Ones[Output(x)] \ M /\ f[y] = Ones[Output(y)] \ M
      OBVIOUS
    <2> HIDE DEF f, H, M
    <2>3. Ones[Output(x)] = Ones[Output(y)]
      BY <1>1, <1>3, <2>1, <2>2
    <2> QED
      BY <2>1, <2>3, OutputIsOneToOne, SameOnesSameWord
  <1>4. ASSUME NEW R \in Free PROVE \E w \in H : f[w] = R
    <2> DEFINE S == R \cup Ones[v]
    <2>1. S \in SUBSET Places /\ S \cap M = Ones[v] /\ S \ M = R
      BY OnesArePlaces
    <2> HIDE DEF S
    <2>2. WordOf(S) \in Words /\ Ones[WordOf(S)] = S
      BY <2>1, OnesOfWord
    <2>3. PICK w \in Words : Output(w) = WordOf(S)
      BY <2>2, OutputIsOneToOne
    <2>4. w \in H
      <3> HIDE DEF H, M
      <3> QED
        BY <1>1, <2>1, <2>2, <2>3
    <2>5. f[w] = S \ M
      BY <2>2, <2>3, <2>4
    <2> QED
      BY <2>1, <2>4, <2>5
  <1>5. IsFiniteSet(H)
    <2>1. H \in SUBSET Words
      OBVIOUS
    <2> HIDE DEF H
    <2> QED
      BY <2>1, WordsAreCounted, FS_Subset
  <1>6. Hits(bound, v) = Cardinality(H)
    BY DEF Hits
  <1> HIDE DEF f, H, Free
  <1>7. f \in Bijection(H, Free)
    BY <1>2, <1>3, <1>4 DEF Bijection, Injection, Surjection, IsInjective
  <1>8. ExistsBijection(H, Free)
    BY <1>7 DEF ExistsBijection
  <1>9. Cardinality(Free) = Cardinality(H)
    BY <1>5, <1>8, FS_Bijection
  <1> QED
    BY <1>6, <1>9 DEF Free

\* A word with a one bit is at least that power of two.
LEMMA OnesAreBelow ==
    ASSUME NEW w \in Words, NEW k \in Ones[w]
    PROVE  k \in Nat /\ k < WordBits /\ 2^k <= w
  <1>1. w \in Nat /\ WordBits \in Nat
    BY WordsAreNumbers, WordsAreCounted
  <1>2. k \in 0 .. WordBits - 1 /\ (w \div 2^k) % 2 = 1
    BY DEF Ones
  <1>3. k \in Nat /\ k < WordBits
    BY <1>1, <1>2
  <1> DEFINE a == 2^k
  <1>4. a \in Nat \ {0}
    BY <1>3, PowersArePositive
  <1>5. (w \div a) % 2 = 1
    BY <1>2
  <1> HIDE DEF a
  <1>6. a <= w
    <2>1. ASSUME w < a PROVE FALSE
      <3>1. w \div a = 0
        BY <1>1, <1>4, <2>1
      <3> QED
        BY <1>5, <3>1
    <2> QED
      BY <1>1, <1>4, <2>1
  <1> QED
    BY <1>3, <1>6 DEF a

\* A value below the bound has no bit above the mask.
LEMMA MaskCovers ==
    ASSUME NEW bound \in Words \ {0}, NEW v \in 0 .. bound - 1
    PROVE  v \in Words /\ Ones[v] \subseteq Masked(bound)
  <1> DEFINE last == bound - 1
  <1>1. bound \in Nat /\ bound < 2^WordBits /\ 2^WordBits \in Nat
    BY WordsAreNumbers, WordsAreCounted
  <1>2. v \in Words /\ last \in Words
    BY <1>1 DEF Words
  <1>3. ASSUME NEW k \in Ones[v] PROVE \E h \in Ones[last] : k <= h
    <2>1. k \in Nat /\ k < WordBits /\ 2^k <= v
      BY <1>2, OnesAreBelow
    <2>2. SUFFICES ASSUME \A h \in Ones[last] : ~(k <= h)
                   PROVE  FALSE
      OBVIOUS
    <2> HIDE DEF last
    <2>3. \A h \in Ones[last] : h \in Nat
      BY <1>2, OnesAreBelow
    <2>4. Ones[last] \in SUBSET (0 .. k - 1)
      BY <2>1, <2>2, <2>3
    <2>5. WordOf(Ones[last]) \in 0 .. 2^k - 1
      BY <2>1, <2>4, SumsAreBelow
    <2>6. last \in 0 .. 2^k - 1
      BY <1>2, <2>5, WordOfOnes
    <2>7. 2^k \in Nat
      BY <2>1, PowersArePositive
    <2>8. v <= last /\ v \in Nat
      BY <1>1 DEF last
    <2> QED
      BY <2>1, <2>6, <2>7, <2>8
  <1>4. Ones[v] \in SUBSET Places
    BY <1>2, OnesArePlaces
  <1> QED
    BY <1>2, <1>3, <1>4 DEF Masked

\* More than half of the candidates are below the bound.
LEMMA MaskIsTight ==
    ASSUME NEW bound \in Words \ {0}
    PROVE  2 * bound * Cardinality(SUBSET (Places \ Masked(bound))) > 2^WordBits
  <1> DEFINE last == bound - 1
             M == Masked(bound)
             Free == SUBSET (Places \ M)
  <1>1. /\ bound \in Nat \ {0} /\ bound < 2^WordBits /\ 2^WordBits \in Nat \ {0}
        /\ WordBits \in Nat \ {0}
    BY WordsAreNumbers, WordsAreCounted
  <1>2. last \in Words
    BY <1>1 DEF Words
  <1>3. \A k \in Ones[last] : k \in Nat /\ k < WordBits /\ 2^k <= last
    <2> HIDE DEF last
    <2> QED
      BY <1>2, OnesAreBelow
  <1>4. CASE Ones[last] = {}
    <2>1. Places \ M = Places
      BY <1>4 DEF Masked
    <2>2. Cardinality(Free) = 2^WordBits
      BY <2>1, WordsAreCounted
    <2> DEFINE b == 2^WordBits
    <2>3. b \in Nat \ {0}
      BY <1>1
    <2> HIDE DEF b
    <2>4. 2 * bound * b > b
      BY <1>1, <2>3
    <2> QED
      BY <2>2, <2>4 DEF b
  <1>5. CASE Ones[last] # {}
    <2> DEFINE Distances == {WordBits - k : k \in Ones[last]}
    <2>1. PICK h \in Ones[last] : \A k \in Ones[last] : k <= h
      <3>1. Distances # {} /\ Distances \in SUBSET Nat
        <4> HIDE DEF last
        <4> QED
          BY <1>1, <1>3, <1>5
      <3>2. PICK d \in Distances : \A e \in Distances : d <= e
        <4> HIDE DEF Distances
        <4> QED
          BY <3>1, LeastNatural
      <3>3. PICK h \in Ones[last] : d = WordBits - h
        BY <3>2
      <3>4. ASSUME NEW k \in Ones[last] PROVE k <= h
        <4>1. d <= WordBits - k
          BY <3>2
        <4> HIDE DEF last
        <4> QED
          BY <1>1, <1>3, <3>3, <4>1
      <3> QED
        BY <3>3, <3>4
    <2>2. h \in Nat /\ h < WordBits /\ 2^h <= last
      BY <1>3, <2>1
    <2>3. M = 0 .. h
      <3>1. \A k \in Places : k \in M <=> k <= h
        <4>1. \A k \in Places : k \in Nat
          BY DEF Places
        <4>2. \A k \in Places : k \in M <=> \E g \in Ones[last] : k <= g
          BY DEF Masked
        <4> HIDE DEF M, last
        <4> QED
          BY <1>3, <2>1, <2>2, <4>1, <4>2
      <3>2. M \in SUBSET Places
        BY DEF Masked
      <3> HIDE DEF M
      <3> QED
        <4>1. 0 .. h \in SUBSET Places
          BY <1>1, <2>2 DEF Places
        <4>2. \A k \in Places : k <= h <=> k \in 0 .. h
          BY <1>1, <2>2 DEF Places
        <4> QED
          BY <3>1, <3>2, <4>1, <4>2
    <2> DEFINE r == WordBits - h - 1
               a == 2^h
               c == 2^r
    <2>4. Places \ M = h + 1 .. WordBits - 1
      BY <1>1, <2>2, <2>3 DEF Places
    <2>5. /\ IsFiniteSet(h + 1 .. WordBits - 1)
          /\ Cardinality(h + 1 .. WordBits - 1) = r
      <3>1. /\ h + 1 \in Int /\ WordBits - 1 \in Int
            /\ (IF h + 1 > WordBits - 1 THEN 0
                ELSE WordBits - 1 - (h + 1) + 1) = r
        BY <1>1, <2>2
      <3> HIDE DEF r
      <3> QED
        BY <3>1, FS_Interval
    <2>6. Cardinality(Free) = c
      <3> HIDE DEF r, M
      <3> QED
        BY <2>4, <2>5, FS_SUBSET
    <2>7. r \in Nat /\ a \in Nat \ {0} /\ c \in Nat \ {0}
      BY <1>1, <2>2, PowersArePositive
    <2>8. 2^WordBits = (2 * a) * c
      <3>1. h + 1 \in Nat /\ WordBits = (h + 1) + r
        BY <1>1, <2>2
      <3>2. 2^(h + 1) = 2 * a
        BY <2>2, PowersDouble
      <3>3. 2^((h + 1) + r) = 2^(h + 1) * c
        <4> HIDE DEF r
        <4> QED
          BY <2>7, <3>1, PowersOfSums
      <3> HIDE DEF r, a, c
      <3> QED
        BY <3>1, <3>2, <3>3
    <2>9. a <= last
      BY <2>2
    <2>10. bound \in Nat /\ a < bound
      <3> HIDE DEF a
      <3> QED
        BY <1>1, <2>7, <2>9
    <2>11. 2 * bound * c > (2 * a) * c
      <3> HIDE DEF a, c
      <3>1. PICK d \in Nat : bound = a + 1 + d
        <4>1. bound - a - 1 \in Nat /\ bound = a + 1 + (bound - a - 1)
          BY <2>7, <2>10
        <4> QED
          BY <4>1
      <3>2. 2 * (a + 1 + d) * c = (2 * a) * c + 2 * c + 2 * (d * c)
        BY <2>7
      <3>3. (2 * a) * c \in Nat /\ d * c \in Nat
        BY <2>7
      <3> QED
        BY <2>7, <3>1, <3>2, <3>3
    <2> HIDE DEF c, a, Free
    <2> QED
      BY <2>6, <2>8, <2>11 DEF Free
  <1> QED
    BY <1>4, <1>5

LEMMA HitsAreAlike ==
    ASSUME NEW bound \in Words \ {0}
    PROVE  /\ 0 \in 0 .. bound - 1
           /\ \A v \in 0 .. bound - 1 : Hits(bound, v) = Hits(bound, 0)
           /\ 2 * bound * Hits(bound, 0) > 2^WordBits
  <1> DEFINE free == Cardinality(SUBSET (Places \ Masked(bound)))
  <1>1. \A v \in 0 .. bound - 1 : Hits(bound, v) = free
    BY MaskCovers, HitsAreCounted
  <1>2. 0 \in 0 .. bound - 1
    <2>1. bound \in Nat \ {0}
      BY WordsAreNumbers
    <2> QED
      BY <2>1
  <1>3. 2 * bound * free > 2^WordBits
    BY MaskIsTight
  <1> HIDE DEF free
  <1>4. Hits(bound, 0) = free
    BY <1>1, <1>2
  <1> QED
    BY <1>1, <1>2, <1>3, <1>4

-----------------------------------------------------------------------------
(***************************************************************************)
(* Type correctness: what is drawn is a node, and the target is not the    *)
(* source.                                                                 *)
(***************************************************************************)
Drawn ==
    /\ source \in Nodes(graph) \cup {NoSource}
    /\ stage = "draw" => graph.node_count >= 2
    /\ \A i \in DOMAIN queries :
        /\ {queries[i].source, queries[i].target} \subseteq Nodes(graph)
        /\ queries[i].source # queries[i].target

LEMMA TargetIsAnotherNode ==
    ASSUME NEW n \in Nat, n >= 2, source \in 0 .. n - 1,
           NEW drawn \in Nat, drawn < n - 1
    PROVE  Target(n, drawn) \in 0 .. n - 1 /\ Target(n, drawn) # source
  <1>1. ASSUME NEW s \in 0 .. n - 1 PROVE (s + (1 + drawn)) % n # s
    OBVIOUS
  <1>2. ASSUME NEW x \in Nat PROVE x % n \in 0 .. n - 1
    OBVIOUS
  <1> QED
    BY <1>1, <1>2 DEF Target

LEMMA DrawnIsKept ==
    ASSUME BenchmarkInv, Drawn, BenchmarkNext \/ UNCHANGED benchmarkVars
    PROVE  Drawn'
  <1>1. graph' = graph
    BY DEF BenchmarkNext, BenchmarkStep, BenchmarkOver, CallMakeQueries,
           DrawSource, DrawTarget, Drawing, CallRun, SearchReference,
           SearchAndCompare, BeginMeasuring, SearchTimed, EndPass, Report,
           benchmarkVars
  <1>2. graph.node_count \in Nat
    BY BenchmarkAssumption, LimitAssumption
       DEF BenchmarkInv, Typed, IsGraph, IsCsr
  <1>3. ASSUME Drawing
        PROVE  /\ stage = "draw" /\ stage' = stage /\ graph.node_count >= 2
               /\ rng' \in Words /\ queries \in Seq(Asked)
    BY <1>3, AdvanceIsAWord DEF Drawing, Drawn, BenchmarkInv, Typed
  <1>4. CASE CallMakeQueries
    <2>1. source' = source /\ queries' = queries
      BY <1>4 DEF CallMakeQueries
    <2>2. stage' = "draw" => graph.node_count >= 2
      BY <1>2, <1>4 DEF CallMakeQueries, QueriesError
    <2> QED
      BY <1>1, <2>1, <2>2 DEF Drawn, Nodes
  <1>5. CASE DrawSource
    <2>1. /\ Drawing /\ queries' = queries
          /\ source' = IF Draws(graph.node_count)
                       THEN Candidate(rng', graph.node_count) ELSE NoSource
      BY <1>5 DEF DrawSource
    <2>2. Candidate(rng', graph.node_count) \in Nat
      <3> DEFINE w == rng'
                 n == graph.node_count
      <3>1. w \in Words
        BY <2>1, <1>3
      <3> HIDE DEF w, n
      <3>2. Candidate(w, n) \in Nat
        BY <3>1, CandidatesAreNumbers
      <3> QED
        BY <3>2 DEF w, n
    <2>3. source' \in Nodes(graph) \cup {NoSource}
      BY <2>1, <2>2, <1>2 DEF Draws, Nodes
    <2> QED
      BY <1>1, <1>3, <2>1, <2>3 DEF Drawn, Nodes
  <1>6. CASE DrawTarget
    <2> DEFINE n == graph.node_count
    <2>1. Drawing /\ source # NoSource
      BY <1>6 DEF DrawTarget
    <2>2. /\ n \in Nat /\ n >= 2 /\ source \in 0 .. n - 1
      BY <1>2, <1>3, <2>1 DEF Drawn, Nodes
    <2>3. Candidate(rng', n - 1) \in Nat
      <3> DEFINE w == rng'
                 m == n - 1
      <3>1. w \in Words
        BY <2>1, <1>3
      <3> HIDE DEF w, m
      <3>2. Candidate(w, m) \in Nat
        BY <3>1, CandidatesAreNumbers
      <3> QED
        BY <3>2 DEF w, m
    <2>4. CASE queries' = queries /\ source' = source
      BY <1>1, <1>3, <2>1, <2>4 DEF Drawn, Nodes
    <2>5. CASE /\ Draws(n - 1) /\ source' = NoSource
               /\ queries' = Append(queries,
                    [source |-> source,
                     target |-> Target(n, Candidate(rng', n - 1))])
      <3> DEFINE target == Target(n, Candidate(rng', n - 1))
      <3>1. Candidate(rng', n - 1) < n - 1
        BY <2>5 DEF Draws
      <3>2. target \in 0 .. n - 1 /\ target # source
        <4> DEFINE c == Candidate(rng', n - 1)
        <4>1. c \in Nat /\ c < n - 1
          BY <2>3, <3>1
        <4> HIDE DEF c
        <4>2. Target(n, c) \in 0 .. n - 1 /\ Target(n, c) # source
          BY <2>2, <4>1, TargetIsAnotherNode
        <4> QED
          BY <4>2 DEF c
      <3> HIDE DEF target
      <3>3. queries' = Append(queries, [source |-> source, target |-> target])
        BY <2>5 DEF target
      <3>4. queries \in Seq(Asked)
        BY <1>3, <2>1
      <3>5. /\ DOMAIN queries = 1 .. Len(queries) /\ Len(queries) \in Nat
            /\ DOMAIN queries' = 1 .. Len(queries) + 1
            /\ queries'[Len(queries) + 1] =
                    [source |-> source, target |-> target]
            /\ \A i \in 1 .. Len(queries) : queries'[i] = queries[i]
        BY <3>3, <3>4
      <3>6. ASSUME NEW i \in DOMAIN queries'
            PROVE  /\ {queries'[i].source, queries'[i].target} \subseteq
                            Nodes(graph)
                   /\ queries'[i].source # queries'[i].target
        <4>1. CASE i = Len(queries) + 1
          BY <4>1, <3>2, <3>5, <2>2 DEF Nodes
        <4>2. CASE i # Len(queries) + 1
          <5>1. i \in DOMAIN queries /\ queries'[i] = queries[i]
            BY <4>2, <3>5
          <5> QED
            BY <5>1 DEF Drawn
        <4> QED
          BY <4>1, <4>2
      <3> QED
        BY <1>1, <1>3, <2>1, <2>5, <3>6 DEF Drawn, Nodes
    <2> QED
      BY <1>6, <2>4, <2>5 DEF DrawTarget
  <1>7. CASE ~(CallMakeQueries \/ DrawSource \/ DrawTarget)
    <2>1. /\ source' = source /\ queries' = queries
          /\ stage' = "draw" => stage = "draw"
      BY <1>7 DEF BenchmarkNext, BenchmarkStep, BenchmarkOver, CallRun,
                  SearchReference, SearchAndCompare, BeginMeasuring,
                  SearchTimed, EndPass, Report, benchmarkVars
    <2> QED
      BY <1>1, <2>1 DEF Drawn, Nodes
  <1> QED
    BY <1>4, <1>5, <1>6, <1>7

\* What is drawn, counted and reported is of its kind, and no query is from a
\* node to itself.
THEOREM BenchmarkTypeCorrect == BenchmarkSpec => []BenchmarkTypeOK
  <1>1. BenchmarkInit => Drawn
    BY DEF BenchmarkInit, BenchmarkIdle, Drawn
  <1>2. Drawn /\ BenchmarkInv /\ [BenchmarkNext]_benchmarkVars => Drawn'
    BY DrawnIsKept
  <1>3. BenchmarkInv /\ Drawn => BenchmarkTypeOK
    BY DEF BenchmarkInv, Typed, Drawn, BenchmarkTypeOK
  <1> QED
    BY <1>1, <1>2, <1>3, BenchmarkInvariant, PTL DEF BenchmarkSpec

-----------------------------------------------------------------------------
(***************************************************************************)
(* The period: the counter adds up an odd number, so in 2^WordBits steps,  *)
(* from wherever it stands, it comes to every word once.                   *)
(***************************************************************************)
ComingAt(f, k) == IF k = 0 THEN rng ELSE Advance(f[k - 1])

IsComing(f) == f = [k \in 0 .. Period |-> ComingAt(f, k)]

LEMMA ComingIsDefined == Coming = CHOOSE f : IsComing(f)
  BY DEF Coming, IsComing, ComingAt

LEMMA RemaindersAdd ==
    ASSUME NEW x \in Nat, NEW y \in Nat, NEW b \in Nat \ {0}
    PROVE  ((x % b) + y) % b = (x + y) % b
  <1> DEFINE q == x \div b
             r == x % b
  <1>1. q \in Nat /\ r \in Nat /\ x = q * b + r
    BY QuotientAndRemainder
  <1> HIDE DEF q, r
  <1> DEFINE z == r + y
             p == z \div b
             s == z % b
  <1>2. z \in Nat
    BY <1>1
  <1>3. p \in Nat /\ s \in Nat /\ s < b /\ z = p * b + s
    <2> HIDE DEF z
    <2> QED
      BY <1>2, QuotientAndRemainder
  <1>4. x + y = q * b + z
    BY <1>1
  <1> HIDE DEF z
  <1>5. q * b + z = (q + p) * b + s
    <2> HIDE DEF p, s
    <2>1. (q + p) * b = q * b + p * b
      BY <1>1, <1>3
    <2>2. q * b \in Nat /\ p * b \in Nat
      BY <1>1, <1>3
    <2> QED
      BY <1>3, <2>1, <2>2
  <1> DEFINE c == q + p
  <1>6. c \in Nat
    BY <1>1, <1>3
  <1>7. (c * b + s) % b = s
    <2> HIDE DEF c, s
    <2> QED
      BY <1>3, <1>6, QuotientsAreUnique
  <1>8. (x + y) % b = s
    <2> HIDE DEF s
    <2> QED
      BY <1>4, <1>5, <1>7
  <1> QED
    BY <1>8 DEF s, z, r

LEMMA ComingIsRotation ==
    ASSUME rng \in Words
    PROVE  \A k \in 0 .. Period : Coming[k] = (rng + k * Gamma) % Period
  <1> DEFINE b == Period
             g == [k \in 0 .. b |-> (rng + k * Gamma) % b]
             f == Coming
  <1>1. b \in Nat \ {0} /\ rng \in Nat /\ rng < b /\ Gamma \in Nat
    BY WordsAreCounted, WordsAreNumbers, SplitMix64Assumption DEF Period
  <1>2. \A w : Advance(w) = (w + Gamma) % b
    BY DEF Advance, Period
  <1> HIDE DEF b
  <1>3. g[0] = rng
    <2>1. 0 \in 0 .. b /\ rng + 0 * Gamma = rng
      BY <1>1
    <2>2. (0 * b + rng) % b = rng
      BY <1>1, QuotientsAreUnique
    <2>3. 0 * b + rng = rng
      BY <1>1
    <2> QED
      BY <2>1, <2>2, <2>3
  <1>4. ASSUME NEW k \in 0 .. b, k # 0
        PROVE  k - 1 \in 0 .. b /\ g[k] = Advance(g[k - 1])
    <2> DEFINE x == rng + (k - 1) * Gamma
    <2>1. k \in Nat /\ k - 1 \in Nat /\ k - 1 \in 0 .. b
      BY <1>1, <1>4
    <2>2. (k - 1) * Gamma \in Nat
      BY <1>1, <2>1
    <2>3. x \in Nat
      BY <1>1, <2>2
    <2>4. x + Gamma = rng + k * Gamma
      <3>1. (k - 1) * Gamma = k * Gamma - Gamma
        BY <1>1, <2>1
      <3>2. k * Gamma \in Nat
        BY <1>1, <2>1
      <3> QED
        BY <1>1, <3>1, <3>2
    <2>5. g[k - 1] = x % b /\ g[k] = (rng + k * Gamma) % b
      BY <2>1
    <2> HIDE DEF x, g
    <2>6. ((x % b) + Gamma) % b = (x + Gamma) % b
      BY <1>1, <2>3, RemaindersAdd
    <2> QED
      BY <1>2, <2>1, <2>4, <2>5, <2>6
  <1>5. IsComing(g)
    <2>1. g = [k \in 0 .. b |-> g[k]]
      OBVIOUS
    <2>2. \A k \in 0 .. b : g[k] = ComingAt(g, k)
      <3> HIDE DEF g
      <3> QED
        BY <1>3, <1>4 DEF ComingAt
    <2> HIDE DEF g
    <2> QED
      BY <2>1, <2>2 DEF IsComing, b
  <1>6. \A k \in 0 .. b : f[k] = ComingAt(f, k)
    <2>1. IsComing(f)
      <3> HIDE DEF g
      <3> QED
        BY <1>5, ComingIsDefined
    <2>2. f = [k \in 0 .. b |-> ComingAt(f, k)]
      BY <2>1 DEF IsComing, b
    <2> HIDE DEF f
    <2> QED
      BY <2>2
  <1> HIDE DEF f
  <1>7. \A k \in 0 .. b : f[k] = g[k]
    <2> DEFINE Bad == {k \in 0 .. b : f[k] # g[k]}
    <2>1. ASSUME Bad # {} PROVE FALSE
      <3> HIDE DEF g
      <3>1. Bad \in SUBSET Nat
        BY <1>1
      <3>2. PICK k \in Bad : \A j \in Bad : k <= j
        <4> HIDE DEF Bad
        <4> QED
          BY <2>1, <3>1, LeastNatural
      <3>3. k # 0
        BY <1>3, <1>6, <3>2 DEF ComingAt
      <3>4. k \in 0 .. b /\ k - 1 \in 0 .. b /\ ~(k <= k - 1)
        BY <1>1, <3>3
      <3>5. f[k - 1] = g[k - 1]
        BY <3>2, <3>4
      <3>6. f[k] = g[k]
        BY <1>4, <1>6, <3>3, <3>4, <3>5 DEF ComingAt
      <3> QED
        BY <3>6
    <2> QED
      BY <2>1
  <1>8. \A k \in 0 .. b : g[k] = (rng + k * Gamma) % b
    OBVIOUS
  <1> QED
    BY <1>7, <1>8 DEF f, b

LEMMA ComingAreWords ==
    ASSUME rng \in Words
    PROVE  \A k \in 1 .. Period : Coming[k] \in Words
  <1> DEFINE b == Period
  <1>1. b \in Nat \ {0} /\ rng \in Nat /\ Gamma \in Nat /\ Words = 0 .. b - 1
    BY WordsAreCounted, WordsAreNumbers, SplitMix64Assumption DEF Period, Words
  <1>2. \A k \in 0 .. b : Coming[k] = (rng + k * Gamma) % b
    BY ComingIsRotation
  <1> HIDE DEF b
  <1>3. ASSUME NEW k \in 1 .. b PROVE Coming[k] \in Words
    <2> DEFINE x == rng + k * Gamma
    <2>1. k \in Nat /\ k * Gamma \in Nat
      BY <1>1
    <2>2. x \in Nat
      BY <1>1, <2>1
    <2>3. Coming[k] = x % b
      BY <1>1, <1>2
    <2> HIDE DEF x
    <2>4. x % b \in 0 .. b - 1
      BY <1>1, <2>2
    <2> QED
      BY <1>1, <2>3, <2>4
  <1> QED
    BY <1>3 DEF b

LEMMA ComingIsOneToOne ==
    ASSUME rng \in Words
    PROVE  \A j, k \in 1 .. Period : Coming[j] = Coming[k] => j = k
  <1> DEFINE b == Period
  <1>1. /\ b \in Nat \ {0} /\ rng \in Nat /\ rng < b
        /\ Gamma \in Nat /\ Gamma < b /\ Gamma \in Words /\ Gamma % 2 = 1
        /\ Words = 0 .. b - 1
    BY WordsAreCounted, WordsAreNumbers, SplitMix64Assumption DEF Period, Words
  <1>2. \A k \in 0 .. b : Coming[k] = (rng + k * Gamma) % b
    BY ComingIsRotation
  <1>3. \A x, y \in Words : x <= y /\ (x * Gamma) % b = (y * Gamma) % b => x = y
    BY <1>1, OddProductsAreOneToOne DEF b, Period
  <1> HIDE DEF b
  \* Each product from its state: what is missing to twice the period is added.
  <1>4. ASSUME NEW k \in 1 .. b
        PROVE  (Coming[k] + (2 * b - rng - Gamma)) % b = ((k - 1) * Gamma) % b
    <2> DEFINE x == rng + k * Gamma
               y == 2 * b - rng - Gamma
               z == (k - 1) * Gamma
    <2>1. k \in Nat /\ k - 1 \in Nat /\ k * Gamma \in Nat /\ z \in Nat
      BY <1>1
    <2>2. x \in Nat /\ y \in Nat
      BY <1>1, <2>1
    <2>3. x + y = z + 2 * b
      <3>1. (k - 1) * Gamma = k * Gamma - Gamma
        BY <1>1, <2>1
      <3> DEFINE m == k * Gamma
      <3>2. m \in Nat /\ z = m - Gamma
        BY <2>1, <3>1
      <3> HIDE DEF m, z
      <3>3. (rng + m) + (2 * b - rng - Gamma) = (m - Gamma) + 2 * b
        BY <1>1, <3>2
      <3> QED
        BY <3>2, <3>3 DEF m
    <2>4. Coming[k] = x % b
      BY <1>1, <1>2
    <2> HIDE DEF x, y, z
    <2>5. ((x % b) + y) % b = (x + y) % b
      BY <1>1, <2>2, RemaindersAdd
    <2>6. (z + 2 * b) % b = z % b
      <3> DEFINE q == z \div b
                 r == z % b
      <3>1. q \in Nat /\ r \in Nat /\ r < b /\ z = q * b + r
        BY <1>1, <2>1, QuotientAndRemainder
      <3> HIDE DEF q, r
      <3>2. (q + 2) * b = q * b + 2 * b /\ q + 2 \in Nat /\ q * b \in Nat
        BY <1>1, <3>1
      <3>3. z + 2 * b = (q + 2) * b + r
        BY <1>1, <3>1, <3>2
      <3> DEFINE c == q + 2
      <3>4. c \in Nat /\ z + 2 * b = c * b + r
        BY <3>2, <3>3
      <3> HIDE DEF c
      <3>5. (c * b + r) % b = r
        BY <1>1, <3>1, <3>4, QuotientsAreUnique
      <3> QED
        BY <3>4, <3>5 DEF r
    <2> QED
      BY <2>3, <2>4, <2>5, <2>6 DEF y, z
  <1>5. ASSUME NEW j \in 1 .. b, NEW k \in 1 .. b, Coming[j] = Coming[k]
        PROVE  j = k
    <2>1. ((j - 1) * Gamma) % b = ((k - 1) * Gamma) % b
      BY <1>4, <1>5
    <2>2. j - 1 \in Words /\ k - 1 \in Words
      BY <1>1
    <2>3. j - 1 <= k - 1 => j - 1 = k - 1
      BY <1>3, <2>1, <2>2
    <2>4. k - 1 <= j - 1 => k - 1 = j - 1
      BY <1>3, <2>1, <2>2
    <2> QED
      BY <1>1, <2>3, <2>4
  <1> QED
    BY <1>5 DEF b

\* So a set of words has as many of the states to come as it has words.
LEMMA EveryWordComes ==
    ASSUME rng \in Words, NEW S \in SUBSET Words
    PROVE  Cardinality({k \in 1 .. Period : Coming[k] \in S}) = Cardinality(S)
  <1> DEFINE K == {k \in 1 .. Period : Coming[k] \in S}
             f == [k \in 1 .. Period |-> Coming[k]]
             h == [k \in K |-> Coming[k]]
  <1>1. Period \in Nat \ {0} /\ IsFiniteSet(Words) /\ Cardinality(Words) = Period
    BY WordsAreCounted DEF Period
  <1>2. IsFiniteSet(1 .. Period) /\ Cardinality(1 .. Period) = Period
    <2> DEFINE b == Period
    <2>1. 1 \in Int /\ b \in Int /\ ~(1 > b) /\ b - 1 + 1 = b
      BY <1>1
    <2> HIDE DEF b
    <2>2. IsFiniteSet(1 .. b) /\ Cardinality(1 .. b) = b
      BY <2>1, FS_Interval
    <2> QED
      BY <2>2 DEF b
  <1>3. f \in [1 .. Period -> Words]
    BY ComingAreWords
  <1>4. \A j, k \in 1 .. Period : f[j] = f[k] => j = k
    BY ComingIsOneToOne
  <1>5. \A w \in Words : \E k \in 1 .. Period : f[k] = w
    <2> HIDE DEF f
    <2> QED
      BY <1>1, <1>2, <1>3, <1>4, OneToOneIsOnto
  <1>6. h \in Bijection(K, S)
    <2>1. h \in [K -> S]
      OBVIOUS
    <2>2. \A j, k \in K : h[j] = h[k] => j = k
      BY ComingIsOneToOne
    <2>3. \A w \in S : \E k \in K : h[k] = w
      BY <1>5
    <2> HIDE DEF h, K
    <2> QED
      BY <2>1, <2>2, <2>3 DEF Bijection, Injection, Surjection, IsInjective
  <1>7. IsFiniteSet(K)
    BY <1>2, FS_Subset
  <1> HIDE DEF h, K
  <1>8. ExistsBijection(K, S)
    BY <1>6 DEF ExistsBijection
  <1>9. Cardinality(S) = Cardinality(K)
    BY <1>7, <1>8, FS_Bijection
  <1> QED
    BY <1>9 DEF K

LEMMA AttemptsAreHits ==
    ASSUME rng \in Words, NEW bound, NEW v
    PROVE  Attempts(bound, v) = Hits(bound, v)
  <1> DEFINE S == {w \in Words : Candidate(w, bound) = v}
  <1>1. Cardinality({k \in 1 .. Period : Coming[k] \in S}) = Cardinality(S)
    <2>1. S \in SUBSET Words
      OBVIOUS
    <2> HIDE DEF S
    <2> QED
      BY <2>1, EveryWordComes
  <1>2. {k \in 1 .. Period : Coming[k] \in S} =
            {k \in 1 .. Period : Candidate(Coming[k], bound) = v}
    BY ComingAreWords
  <1> QED
    BY <1>1, <1>2 DEF Attempts, Hits

\* The source and the offset tell the target, and one offset leads to each.
LEMMA OneOffsetPerTarget ==
    ASSUME NEW n \in Nat, n >= 2, source \in 0 .. n - 1,
           NEW t \in 0 .. n - 1, t # source
    PROVE  \E d \in 0 .. n - 2 : \A c \in Nat :
               (c < n - 1 /\ Target(n, c) = t) <=> c = d
  <1> DEFINE s == source
             d == IF t > s THEN t - s - 1 ELSE t + n - s - 1
  <1>1. s \in Nat /\ s < n /\ t \in Nat /\ t < n
    OBVIOUS
  <1>2. d \in 0 .. n - 2
    BY <1>1
  <1>3. ASSUME NEW c \in Nat, c < n - 1
        PROVE  Target(n, c) = IF s + 1 + c < n THEN s + 1 + c ELSE s + 1 + c - n
    <2> DEFINE x == s + (1 + c)
               y == x - n
    <2>1. x \in Nat /\ x < 2 * n /\ n \in Nat \ {0} /\ x = s + 1 + c
      BY <1>1, <1>3
    <2>2. Target(n, c) = x % n
      BY DEF Target
    <2>3. CASE x < n
      <3> HIDE DEF x
      <3>1. (0 * n + x) % n = x
        BY <2>1, <2>3, QuotientsAreUnique
      <3>2. 0 * n + x = x
        BY <2>1
      <3> QED
        BY <2>1, <2>2, <2>3, <3>1, <3>2
    <2>4. CASE ~(x < n)
      <3>1. y \in Nat /\ y < n /\ 1 * n + y = x
        BY <2>1, <2>4
      <3> HIDE DEF x, y
      <3>2. (1 * n + y) % n = y
        BY <2>1, <3>1, QuotientsAreUnique
      <3> QED
        BY <2>1, <2>2, <2>4, <3>1, <3>2 DEF y
    <2> QED
      BY <2>3, <2>4
  <1>4. ASSUME NEW c \in Nat
        PROVE  (c < n - 1 /\ Target(n, c) = t) <=> c = d
    <2> HIDE DEF s
    <2> QED
      BY <1>1, <1>2, <1>3
  <1> QED
    BY <1>2, <1>4

\* While queries are drawn, no node is favoured, as a source or as a target.
THEOREM DrawsAreUnbiased == BenchmarkSpec => []NodesAreDrawnAlike
  <1>1. BenchmarkInit => Drawn
    BY DEF BenchmarkInit, BenchmarkIdle, Drawn
  <1>2. Drawn /\ BenchmarkInv /\ [BenchmarkNext]_benchmarkVars => Drawn'
    BY DrawnIsKept
  <1>3. ASSUME BenchmarkInv, Drawn PROVE NodesAreDrawnAlike
    <2> SUFFICES ASSUME stage = "draw" PROVE NodesAreDrawnAlike
      BY DEF NodesAreDrawnAlike
    <2> DEFINE n == graph.node_count
               m == n - 1
    <2>1. rng \in Words
      BY <1>3 DEF BenchmarkInv, Typed
    <2>2. n \in Nat /\ n >= 2 /\ n <= MaxNodes /\ MaxNodes \in Words
      BY <1>3, BenchmarkAssumption, LimitAssumption
         DEF BenchmarkInv, Typed, Drawn, IsGraph, IsCsr
    <2>3. Nodes(graph) = 0 .. n - 1
      BY DEF Nodes
    <2>4. source \in Nodes(graph) \cup {NoSource}
      BY <1>3 DEF Drawn
    <2> HIDE DEF n
    <2>5. n \in Words \ {0} /\ m \in Words \ {0}
      BY <2>2, WordsAreCounted DEF Words
    <2> DEFINE each == Attempts(n, 0)
               rest == Attempts(m, 0)
    <2>6. /\ \A s \in 0 .. n - 1 : Attempts(n, s) = each
          /\ 2 * n * each > Period
      <3>1. \A s \in 0 .. n - 1 : Hits(n, s) = Hits(n, 0)
        BY <2>5, HitsAreAlike
      <3>2. 2 * n * Hits(n, 0) > 2^WordBits
        BY <2>5, HitsAreAlike
      <3>3. \A s : Attempts(n, s) = Hits(n, s)
        BY <2>1, AttemptsAreHits
      <3> QED
        BY <3>1, <3>2, <3>3 DEF Period
    <2>7. 2 * m * rest > Period
      <3> HIDE DEF m
      <3>1. 2 * m * Hits(m, 0) > 2^WordBits
        BY <2>5, HitsAreAlike
      <3>2. Attempts(m, 0) = Hits(m, 0)
        BY <2>1, AttemptsAreHits
      <3> QED
        BY <3>1, <3>2 DEF Period
    <2>8. ASSUME source # NoSource, NEW t \in 0 .. n - 1, t # source
          PROVE  AttemptsAt(t) = rest
      <3>1. source \in 0 .. n - 1
        BY <2>3, <2>4, <2>8
      <3>2. PICK d \in 0 .. n - 2 : \A c \in Nat :
                (c < n - 1 /\ Target(n, c) = t) <=> c = d
        BY <2>2, <2>8, <3>1, OneOffsetPerTarget
      <3>3. \A k \in 1 .. Period : Candidate(Coming[k], m) \in Nat
        BY <2>1, ComingAreWords, CandidatesAreNumbers
      <3>4. {k \in 1 .. Period : /\ Candidate(Coming[k], m) < m
                                 /\ Target(n, Candidate(Coming[k], m)) = t}
                = {k \in 1 .. Period : Candidate(Coming[k], m) = d}
        BY <3>2, <3>3
      <3>5. AttemptsAt(t) = Attempts(m, d)
        BY <3>4 DEF AttemptsAt, Attempts, n
      <3>6. d \in 0 .. m - 1
        BY <2>2
      <3> HIDE DEF m
      <3>7. Hits(m, d) = Hits(m, 0)
        BY <2>5, <3>6, HitsAreAlike
      <3>8. Attempts(m, d) = Hits(m, d) /\ Attempts(m, 0) = Hits(m, 0)
        BY <2>1, AttemptsAreHits
      <3> QED
        BY <3>5, <3>7, <3>8
    <2> HIDE DEF each, rest
    <2>9. /\ \A s \in Nodes(graph) : Attempts(n, s) = each
          /\ 2 * n * each > Period
          /\ source # NoSource =>
                /\ \A t \in Nodes(graph) \ {source} : AttemptsAt(t) = rest
                /\ 2 * (n - 1) * rest > Period
      BY <2>3, <2>6, <2>7, <2>8
    <2> QED
      BY <2>9 DEF NodesAreDrawnAlike, each, rest, n, m
  <1> QED
    BY <1>1, <1>2, <1>3, BenchmarkInvariant, PTL DEF BenchmarkSpec
=============================================================================
