-------------------------- MODULE GraphBuilderProofs --------------------------
(***************************************************************************)
(* GraphBuilder, for every limit, every point type and every client: its   *)
(* vectors keep one size, build() counts right, and what it returns is the *)
(* graph that the search assumes, whatever the order of the calls.         *)
(***************************************************************************)
EXTENDS GraphBuilder, FiniteSetTheorems, FunctionTheorems, SequenceTheorems,
        WellFoundedInduction, TLAPS

(***************************************************************************)
(* TypeOK is not inductive: assigned_count stays within the limit because  *)
(* it is the number of the flags that are set, and a builder that is not   *)
(* yet constructed holds nothing that its vectors would be too short for.  *)
(***************************************************************************)
SetNodes == {i \in DOMAIN assigned : assigned[i]}

CountIsRight == ~consumed => assigned_count = Cardinality(SetNodes)

Unborn ==
    ~alive =>
        /\ ~consumed
        /\ coordinates = NoVector /\ external_ids = NoVector
        /\ assigned = NoVector /\ assigned_count = 0
        /\ staged = <<>>

BuilderInv == TypeOK /\ CountIsRight /\ Unborn

-----------------------------------------------------------------------------
(***************************************************************************)
(* Counting.  A set of positions without gaps is the initial segment that  *)
(* has as many elements.                                                   *)
(***************************************************************************)
LEMMA InitialSegment ==
    ASSUME NEW m \in Nat, NEW S \in SUBSET (1 .. m),
           \A i, j \in 1 .. m : i <= j /\ j \in S => i \in S
    PROVE  /\ Cardinality(S) \in 0 .. m
           /\ S = 1 .. Cardinality(S)
<1>1. /\ IsFiniteSet(S) /\ Cardinality(S) \in Nat
      /\ Cardinality(S) <= m
  <2>1. IsFiniteSet(1 .. m) /\ Cardinality(1 .. m) = m
    BY FS_Interval
  <2>2. IsFiniteSet(S) /\ Cardinality(S) <= Cardinality(1 .. m)
    BY <2>1, FS_Subset
  <2>3. QED
    BY <2>1, <2>2, FS_CardinalityType
<1>2. ASSUME NEW j \in S PROVE j \in 1 .. Cardinality(S)
  <2>1. 1 .. j \in SUBSET S
    OBVIOUS
  <2>2. Cardinality(1 .. j) = j
    BY FS_Interval
  <2>3. QED
    BY <1>1, <2>1, <2>2, FS_Subset
<1>3. S \in SUBSET (1 .. Cardinality(S))
  BY <1>2
<1>4. /\ IsFiniteSet(1 .. Cardinality(S))
      /\ Cardinality(1 .. Cardinality(S)) = Cardinality(S)
  BY <1>1, FS_Interval
<1>5. S = 1 .. Cardinality(S)
  BY <1>3, <1>4, FS_Subset
<1>6. QED
  BY <1>1, <1>5

\* The size of the builder is that of its vectors.
LEMMA SizeFact ==
    ASSUME NEW n \in 0 .. MaxNodes, DOMAIN coordinates = 0 .. n - 1
    PROVE  Size = n
BY FS_Interval, LimitAssumption DEF Size

LEMMA FlagsFact ==
    ASSUME NEW n \in 0 .. MaxNodes, NEW flag \in [0 .. n - 1 -> BOOLEAN]
    PROVE  LET T == {i \in DOMAIN flag : flag[i]}
           IN  /\ IsFiniteSet(T) /\ Cardinality(T) \in 0 .. n
               /\ Cardinality(T) = n => \A i \in DOMAIN flag : flag[i]
<1> DEFINE T == {i \in DOMAIN flag : flag[i]}
<1>1. T \in SUBSET (0 .. n - 1) /\ DOMAIN flag = 0 .. n - 1
  OBVIOUS
<1>2. n \in Nat /\ IsFiniteSet(0 .. n - 1) /\ Cardinality(0 .. n - 1) = n
  BY FS_Interval, LimitAssumption
<1>3. /\ IsFiniteSet(T)
      /\ Cardinality(T) <= Cardinality(0 .. n - 1)
      /\ Cardinality(0 .. n - 1) = Cardinality(T) => 0 .. n - 1 = T
  BY <1>1, <1>2, FS_Subset
<1>4. Cardinality(T) = n => \A i \in DOMAIN flag : flag[i]
  BY <1>1, <1>2, <1>3
<1>5. QED
  BY <1>2, <1>3, <1>4, FS_CardinalityType

-----------------------------------------------------------------------------
(***************************************************************************)
(* The invariant is inductive.                                             *)
(***************************************************************************)
LEMMA EmptyBuilder ==
    /\ \E n \in 0 .. MaxNodes :
        /\ NoVector \in [0 .. n - 1 -> Coord]
        /\ NoVector \in [0 .. n - 1 -> ExternalId]
        /\ NoVector \in [0 .. n - 1 -> BOOLEAN]
        /\ <<>> \in Seq(StagedArc(n))
    /\ 0 \in 0 .. MaxNodes /\ Len(<<>>) <= MaxArcs
<1>1. 0 \in 0 .. MaxNodes /\ Len(<<>>) <= MaxArcs
  BY LimitAssumption
<1>2. \A S : NoVector \in [0 .. 0 - 1 -> S]
  BY DEF NoVector
<1>3. <<>> \in Seq(StagedArc(0))
  OBVIOUS
<1>4. QED
  BY <1>1, <1>2, <1>3

LEMMA InitBuilderInv == Init => BuilderInv
<1>1. SUFFICES ASSUME Init PROVE BuilderInv
  OBVIOUS
<1>2. TypeOK
  BY <1>1, EmptyBuilder DEF Init, TypeOK, Errors, Answer
<1>3. CountIsRight
  <2>1. SetNodes = {}
    BY <1>1 DEF Init, NoVector, SetNodes
  <2>2. QED
    BY <1>1, <2>1, FS_EmptySet DEF Init, CountIsRight
<1>4. QED
  BY <1>1, <1>2, <1>3 DEF BuilderInv, Unborn, Init

\* A call that changes nothing but the answer.
LEMMA ThrowKeepsInv ==
    ASSUME BuilderInv, UNCHANGED builder, reply'.error \in Errors
    PROVE  BuilderInv'
<1>1. TypeOK'
  BY DEF BuilderInv, TypeOK, builder
<1>2. CountIsRight' /\ Unborn'
  BY DEF BuilderInv, CountIsRight, SetNodes, Unborn, builder
<1>3. QED
  BY <1>1, <1>2 DEF BuilderInv

LEMMA ConstructKeepsInv ==
    ASSUME BuilderInv, NEW n \in 0 .. MaxNodes + 1, Construct(n)
    PROVE  BuilderInv'
<1>1. CASE Throws("construct", "capacity")
  BY <1>1, ThrowKeepsInv DEF Throws, Answer, Errors
<1>2. CASE ~Throws("construct", "capacity")
  <2>1. /\ ~alive /\ n \in 0 .. MaxNodes /\ alive' = TRUE
        /\ coordinates' = [i \in 0 .. n - 1 |-> Origin]
        /\ external_ids' = [i \in 0 .. n - 1 |-> ZeroId]
        /\ assigned' = [i \in 0 .. n - 1 |-> FALSE]
        /\ reply' = Answer("construct", "none")
        /\ UNCHANGED <<consumed, assigned_count, staged, graph>>
    BY <1>2, LimitAssumption DEF Construct
  <2>2. staged = <<>> /\ assigned_count = 0 /\ ~consumed
    BY <2>1 DEF BuilderInv, Unborn
  <2>3. staged' \in Seq(StagedArc(n)) /\ Len(staged') <= MaxArcs
    BY <2>1, <2>2, LimitAssumption
  <2>4. TypeOK'
    BY <2>1, <2>2, <2>3, BuilderAssumption, LimitAssumption
    DEF BuilderInv, TypeOK, Errors, Answer
  <2>5. SetNodes' = {}
    BY <2>1 DEF SetNodes
  <2>6. CountIsRight' /\ Unborn'
    BY <2>1, <2>2, <2>5, FS_EmptySet DEF CountIsRight, Unborn
  <2>7. QED
    BY <2>4, <2>6 DEF BuilderInv
<1>3. QED
  BY <1>1, <1>2

LEMMA SetNodeKeepsInv ==
    ASSUME BuilderInv, NEW id \in 0 .. MaxNodes,
           NEW c \in Coord \cup {NonFinite}, NEW e \in ExternalId,
           SetNode(id, c, e)
    PROVE  BuilderInv'
<1>1. CASE SetNodeError(id, c) # "none"
  <2>1. Throws("set_node", SetNodeError(id, c)) /\ SetNodeError(id, c) \in Errors
    BY <1>1 DEF SetNode, SetNodeError, Errors
  <2>2. QED
    BY <2>1, ThrowKeepsInv DEF Throws, Answer
<1>2. CASE SetNodeError(id, c) = "none"
  <2>1. PICK n \in 0 .. MaxNodes :
            /\ coordinates \in [0 .. n - 1 -> Coord]
            /\ external_ids \in [0 .. n - 1 -> ExternalId]
            /\ assigned \in [0 .. n - 1 -> BOOLEAN]
            /\ staged \in Seq(StagedArc(n))
    BY DEF BuilderInv, TypeOK
  <2>2. /\ alive
        /\ coordinates' = [coordinates EXCEPT ![id] = c]
        /\ external_ids' = [external_ids EXCEPT ![id] = e]
        /\ assigned' = [assigned EXCEPT ![id] = TRUE]
        /\ assigned_count' = assigned_count + 1
        /\ reply' = Answer("set_node", "none")
        /\ UNCHANGED <<alive, consumed, staged, graph>>
    BY <1>2 DEF SetNode
  <2>3. ~consumed /\ id < n /\ ~assigned[id] /\ c \in Coord
    BY <1>2, <2>1, SizeFact DEF SetNodeError
  <2>4. id \in 0 .. n - 1 /\ n \in Nat
    BY <2>3, LimitAssumption
  <2>5. /\ coordinates' \in [0 .. n - 1 -> Coord]
        /\ external_ids' \in [0 .. n - 1 -> ExternalId]
        /\ assigned' \in [0 .. n - 1 -> BOOLEAN]
        /\ staged' \in Seq(StagedArc(n))
    BY <2>1, <2>2, <2>3
  <2>6. SetNodes' = SetNodes \cup {id} /\ id \notin SetNodes
    BY <2>1, <2>2, <2>3, <2>4 DEF SetNodes
  <2>7. assigned_count' = Cardinality(SetNodes')
    <3>1. IsFiniteSet(SetNodes)
      BY <2>1, FlagsFact DEF SetNodes
    <3>2. Cardinality(SetNodes \cup {id}) = Cardinality(SetNodes) + 1
      BY <2>6, <3>1, FS_AddElement
    <3>3. assigned_count = Cardinality(SetNodes)
      BY <2>3 DEF BuilderInv, CountIsRight
    <3>4. QED
      BY <2>2, <2>6, <3>2, <3>3
  <2>8. Cardinality(SetNodes') \in 0 .. n
    BY <2>5, FlagsFact DEF SetNodes
  <2>9. TypeOK'
    <3>1. assigned_count' \in 0 .. MaxNodes
      BY <2>7, <2>8, LimitAssumption
    <3>2. reply'.error \in Errors
      BY <2>2 DEF Answer, Errors
    <3>3. QED
      BY <2>2, <2>5, <3>1, <3>2 DEF BuilderInv, TypeOK
  <2>10. QED
    BY <2>2, <2>7, <2>9 DEF BuilderInv, CountIsRight, Unborn
<1>3. QED
  BY <1>1, <1>2

LEMMA AddArcKeepsInv ==
    ASSUME BuilderInv, NEW s \in 0 .. MaxNodes, NEW t \in 0 .. MaxNodes,
           NEW w \in Weight \cup {NonFinite, Negative}, AddArc(s, t, w)
    PROVE  BuilderInv'
<1>1. CASE AddArcError(s, t, w) # "none"
  <2>1. Throws("add_arc", AddArcError(s, t, w)) /\ AddArcError(s, t, w) \in Errors
    BY <1>1 DEF AddArc, AddArcError, Errors
  <2>2. QED
    BY <2>1, ThrowKeepsInv DEF Throws, Answer
<1>2. CASE AddArcError(s, t, w) = "none"
  <2>1. PICK n \in 0 .. MaxNodes :
            /\ coordinates \in [0 .. n - 1 -> Coord]
            /\ external_ids \in [0 .. n - 1 -> ExternalId]
            /\ assigned \in [0 .. n - 1 -> BOOLEAN]
            /\ staged \in Seq(StagedArc(n))
    BY DEF BuilderInv, TypeOK
  <2> DEFINE a == [source |-> s, target |-> t, weight |-> w]
  <2>2. /\ alive
        /\ staged' = Append(staged, a)
        /\ reply' = Answer("add_arc", "none")
        /\ UNCHANGED <<alive, consumed, coordinates, external_ids, assigned,
                       assigned_count, graph>>
    BY <1>2 DEF AddArc
  <2>3. /\ s < n /\ t < n /\ w \in Weight
        /\ Len(staged) + 1 <= MaxArcs
    <3>1. ~(Len(staged) + 1 > MaxArcs) /\ Len(staged) \in Nat
      BY <1>2, <2>1, LenProperties DEF AddArcError
    <3>2. s < n /\ t < n /\ w \in Weight
      BY <1>2, <2>1, SizeFact, LimitAssumption DEF AddArcError
    <3>3. QED
      BY <3>1, <3>2, LimitAssumption
  <2>4. a \in StagedArc(n)
    BY <2>3, LimitAssumption DEF StagedArc
  <2>5. staged' \in Seq(StagedArc(n)) /\ Len(staged') <= MaxArcs
    BY <2>1, <2>2, <2>3, <2>4, AppendProperties
  <2>6. TypeOK'
    BY <2>1, <2>2, <2>5 DEF BuilderInv, TypeOK, Answer, Errors
  <2>7. QED
    BY <2>2, <2>6 DEF BuilderInv, CountIsRight, SetNodes, Unborn
<1>3. QED
  BY <1>1, <1>2

LEMMA BuildKeepsInv == BuilderInv /\ Build => BuilderInv'
<1>1. SUFFICES ASSUME BuilderInv, Build PROVE BuilderInv'
  OBVIOUS
<1>2. CASE BuildError # "none"
  <2>1. Throws("build", BuildError) /\ BuildError \in Errors
    BY <1>1, <1>2 DEF Build, BuildError, Errors
  <2>2. QED
    BY <1>1, <2>1, ThrowKeepsInv DEF Throws, Answer
<1>3. CASE BuildError = "none"
  <2>1. /\ alive /\ alive' = alive /\ consumed' = TRUE
        /\ coordinates' = NoVector /\ external_ids' = NoVector
        /\ assigned' = NoVector /\ staged' = <<>>
        /\ assigned_count' = assigned_count
        /\ reply' = Answer("build", "none")
    BY <1>1, <1>3 DEF Build
  <2>2. TypeOK'
    BY <1>1, <2>1, EmptyBuilder DEF BuilderInv, TypeOK, Answer, Errors
  <2>3. QED
    BY <1>1, <2>1, <2>2 DEF BuilderInv, CountIsRight, Unborn
<1>4. QED
  BY <1>2, <1>3

LEMMA NextBuilderInv == BuilderInv /\ [Next]_vars => BuilderInv'
<1>1. SUFFICES ASSUME BuilderInv, [Next]_vars PROVE BuilderInv'
  OBVIOUS
<1>2. CASE \E n \in 0 .. MaxNodes + 1 : Construct(n)
  BY <1>1, <1>2, ConstructKeepsInv
<1>3. CASE \E id \in 0 .. MaxNodes, c \in Coord \cup {NonFinite}, e \in ExternalId :
                SetNode(id, c, e)
  BY <1>1, <1>3, SetNodeKeepsInv
<1>4. CASE \E s, t \in 0 .. MaxNodes, w \in Weight \cup {NonFinite, Negative} :
                AddArc(s, t, w)
  BY <1>1, <1>4, AddArcKeepsInv
<1>5. CASE Build
  BY <1>1, <1>5, BuildKeepsInv
<1>6. CASE ReadCounts
  BY <1>1, <1>6, ThrowKeepsInv DEF ReadCounts, Throws, Answer, Errors
<1>7. CASE UNCHANGED vars
  BY <1>1, <1>7, ThrowKeepsInv DEF vars, builder, BuilderInv, TypeOK
<1>8. QED
  BY <1>1, <1>2, <1>3, <1>4, <1>5, <1>6, <1>7 DEF Next

\* The invariant is kept by every call, accepted or refused.
THEOREM BuilderInvariant == Spec => []BuilderInv
<1>1. QED
  BY InitBuilderInv, NextBuilderInv, PTL DEF Spec

(***************************************************************************)
(* Whatever calls a client makes and in whatever order, the three vectors  *)
(* of the builder keep one size, no staged arc leaves them, and neither    *)
(* counter passes its limit.                                               *)
(***************************************************************************)
THEOREM BuilderTypeCorrect == Spec => []TypeOK
<1>1. BuilderInv => TypeOK
  BY DEF BuilderInv
<1>2. QED
  BY BuilderInvariant, <1>1, PTL

-----------------------------------------------------------------------------
(***************************************************************************)
(* Two promises about single steps.                                        *)
(***************************************************************************)
LEMMA OnlyBuildMakesGraphs ==
    ASSUME [Next]_vars, graph' # graph
    PROVE  Build /\ BuildError = "none"
<1>1. ~UNCHANGED vars
  BY DEF vars
<1>2. ASSUME NEW n \in 0 .. MaxNodes + 1, Construct(n) PROVE FALSE
  BY <1>2 DEF Construct, Throws
<1>3. ASSUME NEW id \in 0 .. MaxNodes, NEW c \in Coord \cup {NonFinite},
             NEW e \in ExternalId, SetNode(id, c, e)
      PROVE  FALSE
  BY <1>3 DEF SetNode, Throws
<1>4. ASSUME NEW s \in 0 .. MaxNodes, NEW t \in 0 .. MaxNodes,
             NEW w \in Weight \cup {NonFinite, Negative}, AddArc(s, t, w)
      PROVE  FALSE
  BY <1>4 DEF AddArc, Throws
<1>5. ~ReadCounts
  BY DEF ReadCounts, Throws
<1>6. Build
  BY <1>1, <1>2, <1>3, <1>4, <1>5 DEF Next
<1>7. QED
  BY <1>6 DEF Build, Throws

(***************************************************************************)
(* build() succeeds only when every node was set, although it looks at no  *)
(* node: the number of successful set_node calls is the number of set      *)
(* nodes.                                                                  *)
(***************************************************************************)
THEOREM CompleteNodesOnly == Spec => OnlyCompleteNodesAreBuilt
<1>1. ASSUME BuilderInv, [Next]_vars, graph' # graph
      PROVE  \A i \in DOMAIN assigned : assigned[i]
  <2>1. BuildError = "none"
    BY <1>1, OnlyBuildMakesGraphs
  <2>2. PICK n \in 0 .. MaxNodes :
            /\ DOMAIN coordinates = 0 .. n - 1
            /\ assigned \in [0 .. n - 1 -> BOOLEAN]
    BY <1>1 DEF BuilderInv, TypeOK
  <2>3. ~consumed /\ assigned_count = n
    BY <2>1, <2>2, SizeFact DEF BuildError
  <2>4. Cardinality(SetNodes) = n
    BY <1>1, <2>3 DEF BuilderInv, CountIsRight
  <2>5. QED
    BY <2>2, <2>4, FlagsFact DEF SetNodes
<1>2. BuilderInv /\ [Next]_vars =>
        [graph' # graph => \A i \in DOMAIN assigned : assigned[i]]_vars
  BY <1>1
<1>3. QED
  BY BuilderInvariant, <1>2, PTL DEF Spec, OnlyCompleteNodesAreBuilt

(***************************************************************************)
(* A node that was set keeps its coordinate and identifier until they go   *)
(* into the graph, and a builder that was consumed never changes again.    *)
(***************************************************************************)
THEOREM SetNodesStay == Spec => NothingIsSetTwice
<1> DEFINE Kept ==
        /\ consumed => UNCHANGED <<builder, graph>>
        /\ consumed \/ consumed' \/
            \A i \in DOMAIN assigned : assigned[i] =>
                /\ coordinates'[i] = coordinates[i]
                /\ external_ids'[i] = external_ids[i]
<1>1. ASSUME UNCHANGED <<builder, graph>> PROVE Kept
  BY <1>1 DEF builder
<1>2. ASSUME BuilderInv, NEW n \in 0 .. MaxNodes + 1, Construct(n)
      PROVE  Kept
  <2>1. CASE Throws("construct", "capacity")
    BY <1>1, <2>1 DEF Throws
  <2>2. CASE ~alive
    BY <1>2, <2>2 DEF BuilderInv, Unborn, NoVector
  <2>3. QED
    BY <1>2, <2>1, <2>2 DEF Construct
<1>3. ASSUME BuilderInv, NEW id \in 0 .. MaxNodes,
             NEW c \in Coord \cup {NonFinite}, NEW e \in ExternalId,
             SetNode(id, c, e)
      PROVE  Kept
  <2>1. CASE SetNodeError(id, c) # "none"
    BY <1>1, <1>3, <2>1 DEF SetNode, Throws
  <2>2. CASE SetNodeError(id, c) = "none"
    <3>1. /\ coordinates' = [coordinates EXCEPT ![id] = c]
          /\ external_ids' = [external_ids EXCEPT ![id] = e]
      BY <1>3, <2>2 DEF SetNode
    <3>2. ~consumed /\ ~assigned[id]
      BY <2>2 DEF SetNodeError
    <3>3. PICK n \in 0 .. MaxNodes :
            /\ coordinates \in [0 .. n - 1 -> Coord]
            /\ external_ids \in [0 .. n - 1 -> ExternalId]
            /\ assigned \in [0 .. n - 1 -> BOOLEAN]
      BY <1>3 DEF BuilderInv, TypeOK
    <3>4. QED
      BY <3>1, <3>2, <3>3
  <2>3. QED
    BY <2>1, <2>2
<1>4. ASSUME NEW s \in 0 .. MaxNodes, NEW t \in 0 .. MaxNodes,
             NEW w \in Weight \cup {NonFinite, Negative}, AddArc(s, t, w)
      PROVE  Kept
  <2>1. CASE AddArcError(s, t, w) # "none"
    BY <1>1, <1>4, <2>1 DEF AddArc, Throws
  <2>2. CASE AddArcError(s, t, w) = "none"
    BY <1>4, <2>2 DEF AddArc, AddArcError
  <2>3. QED
    BY <2>1, <2>2
<1>5. ASSUME Build PROVE Kept
  <2>1. CASE BuildError # "none"
    BY <1>1, <1>5, <2>1 DEF Build, Throws
  <2>2. CASE BuildError = "none"
    BY <1>5, <2>2 DEF Build, BuildError
  <2>3. QED
    BY <2>1, <2>2
<1>6. ASSUME ReadCounts PROVE Kept
  BY <1>1, <1>6 DEF ReadCounts, Throws
<1>7. BuilderInv /\ Next => Kept
  BY <1>2, <1>3, <1>4, <1>5, <1>6 DEF Next
<1>8. BuilderInv /\ [Next]_vars => [Kept]_vars
  BY <1>7
<1>9. QED
  BY BuilderInvariant, <1>8, PTL DEF Spec, NothingIsSetTwice

-----------------------------------------------------------------------------
(***************************************************************************)
(* The sort.  Whatever permutation std::sort produces, the arcs whose      *)
(* source is below u come first, and the offset of u is their number.      *)
(***************************************************************************)
LEMMA StagedArcFacts ==
    ASSUME NEW n \in 0 .. MaxNodes, NEW a \in StagedArc(n)
    PROVE  /\ a.source \in 0 .. n - 1 /\ a.target \in 0 .. n - 1
           /\ a.weight \in Weight
           /\ a.source \in Nat /\ a.target \in Nat /\ a.weight \in Nat
<1>1. /\ a.source \in 0 .. n - 1 /\ a.target \in 0 .. n - 1
      /\ a.weight \in Weight
  BY DEF StagedArc
<1>2. \A w \in Weight : w \in Nat
  BY CostAssumption DEF Weight
<1>3. n \in Nat
  BY LimitAssumption
<1>4. QED
  BY <1>1, <1>2, <1>3

LEMMA SameArc ==
    ASSUME NEW n, NEW a \in StagedArc(n), NEW b \in StagedArc(n),
           a.source = b.source, a.target = b.target, a.weight = b.weight
    PROVE  a = b
BY DEF StagedArc

LEMMA ReorderedType ==
    ASSUME NEW n \in 0 .. MaxNodes, NEW arcs \in Seq(StagedArc(n)),
           NEW p, SortedBy(p, arcs)
    PROVE  LET sorted == Reordered(arcs, p) IN
           /\ DOMAIN arcs = 1 .. Len(arcs) /\ Len(arcs) \in Nat
           /\ p \in [1 .. Len(arcs) -> 1 .. Len(arcs)]
           /\ sorted \in [1 .. Len(arcs) -> StagedArc(n)]
           /\ DOMAIN sorted = 1 .. Len(arcs)
           /\ Len(sorted) = Len(arcs)
           /\ \A i \in 1 .. Len(arcs) : sorted[i] = arcs[p[i]]
<1> DEFINE m == Len(arcs)
           sorted == Reordered(arcs, p)
<1>1. /\ DOMAIN arcs = 1 .. m /\ m \in Nat
      /\ \A i \in 1 .. m : arcs[i] \in StagedArc(n)
  BY LenProperties, ElementOfSeq
<1>2. p \in [1 .. m -> 1 .. m]
  BY <1>1, Fun_BijectionProperties DEF SortedBy
<1>3. sorted = [i \in 1 .. m |-> arcs[p[i]]]
  BY <1>1 DEF Reordered
<1>4. sorted \in [1 .. m -> StagedArc(n)]
  BY <1>1, <1>2, <1>3
<1>5. Len(sorted) = m
  BY <1>1, <1>4
<1>6. QED
  BY <1>1, <1>2, <1>3, <1>4, <1>5

LEMMA SourcesAreSorted ==
    ASSUME NEW n \in 0 .. MaxNodes, NEW m \in Nat,
           NEW sorted \in [1 .. m -> StagedArc(n)], InOrder(sorted)
    PROVE  \A i, j \in 1 .. m : i <= j => sorted[i].source <= sorted[j].source
<1>1. SUFFICES ASSUME NEW i \in 1 .. m, NEW j \in 1 .. m, i <= j
               PROVE  sorted[i].source <= sorted[j].source
  OBVIOUS
<1>2. sorted[i].source \in Nat /\ sorted[j].source \in Nat
  BY LimitAssumption DEF StagedArc
<1>3. i < j => ~Before(sorted[j], sorted[i])
  BY DEF InOrder
<1>4. QED
  BY <1>1, <1>2, <1>3 DEF Before

\* A set of numbers that is not empty has a least one.
LEMMA LeastNatural ==
    ASSUME NEW T \in SUBSET Nat, T # {}
    PROVE  \E m \in T : \A k \in T : m <= k
<1> DEFINE Below == {0 .. k : k \in T}
           R == StrictSubsetOrdering(Nat)
<1>1. IsWellFoundedOn(R, FiniteSubsetsOf(Nat))
  BY FS_StrictSubsetOrderingWellFounded
<1>2. \A k \in T : 0 .. k \in FiniteSubsetsOf(Nat)
  BY FS_Interval DEF FiniteSubsetsOf
<1>3. Below \subseteq FiniteSubsetsOf(Nat) /\ Below # {}
  BY <1>2
<1>4. PICK X \in Below : \A Y \in Below : <<Y, X>> \notin R
  <2> HIDE DEF Below, R
  <2> QED
    BY <1>1, <1>3, WFMin
<1>5. PICK m \in T : X = 0 .. m
  OBVIOUS
<1>6. ASSUME NEW k \in T, k < m PROVE FALSE
  <2>1. 0 .. k \subseteq 0 .. m /\ 0 .. k # 0 .. m
    BY <1>6
  <2>2. <<0 .. k, 0 .. m>> \in R
    BY <2>1 DEF StrictSubsetOrdering
  <2>3. QED
    BY <1>4, <1>5, <2>2
<1>7. QED
  BY <1>6

(***************************************************************************)
(* The offsets: what the count and the sums over it leave in each place is *)
(* the number of arcs of the rows before it.                               *)
(***************************************************************************)
SumAt(f, arcs, row) ==
    IF row = 0 THEN Counted(arcs, row) ELSE f[row - 1] + Counted(arcs, row)

IsSummed(f, arcs, n) == f = [row \in 0 .. n |-> SumAt(f, arcs, row)]

LEMMA OffsetsAreSummed ==
    \A arcs, n : RowOffsets(arcs, n) = CHOOSE f : IsSummed(f, arcs, n)
  BY DEF RowOffsets, IsSummed, SumAt

Preceding(arcs, m, u) == {i \in 1 .. m : arcs[i].source < u}

LEMMA OffsetsCount ==
    ASSUME NEW n \in Nat, NEW m \in Nat, NEW arcs,
           DOMAIN arcs = 1 .. m, \A i \in 1 .. m : arcs[i].source \in Nat
    PROVE  RowOffsets(arcs, n) =
               [u \in 0 .. n |-> Cardinality(Preceding(arcs, m, u))]
<1> DEFINE f == RowOffsets(arcs, n)
           g == [u \in 0 .. n |-> Cardinality(Preceding(arcs, m, u))]
           At(u) == {i \in 1 .. m : arcs[i].source + 1 = u}
<1>1. \A u : Counted(arcs, u) = Cardinality(At(u))
  BY DEF Counted
<1>2. ASSUME NEW S \in SUBSET (1 .. m)
      PROVE  IsFiniteSet(S) /\ Cardinality(S) \in Nat
  <2>1. IsFiniteSet(1 .. m)
    BY FS_Interval
  <2>2. IsFiniteSet(S)
    BY <2>1, FS_Subset
  <2>3. QED
    BY <2>2, FS_CardinalityType
<1>3. Cardinality({}) = 0
  BY FS_EmptySet
<1>4. g[0] = Counted(arcs, 0)
  <2>1. Preceding(arcs, m, 0) = {} /\ At(0) = {}
    BY DEF Preceding
  <2>2. 0 \in 0 .. n
    OBVIOUS
  <2>3. g[0] = Cardinality(Preceding(arcs, m, 0))
    BY <2>2
  <2> HIDE DEF At, g
  <2>4. QED
    BY <1>1, <2>1, <2>3
<1>5. ASSUME NEW u \in 1 .. n PROVE g[u] = g[u - 1] + Counted(arcs, u)
  <2> DEFINE S == Preceding(arcs, m, u - 1)
             T == At(u)
  <2>1. /\ Preceding(arcs, m, u) = S \cup T /\ S \cap T = {}
        /\ S \in SUBSET (1 .. m) /\ T \in SUBSET (1 .. m)
    BY DEF Preceding
  <2>2. g[u] = Cardinality(S \cup T) /\ g[u - 1] = Cardinality(S)
    <3>1. u \in 0 .. n /\ u - 1 \in 0 .. n
      OBVIOUS
    <3>2. \A v \in 0 .. n : g[v] = Cardinality(Preceding(arcs, m, v))
      OBVIOUS
    <3> HIDE DEF g, T
    <3>3. QED
      BY <2>1, <3>1, <3>2
  <2>3. Counted(arcs, u) = Cardinality(T)
    BY <1>1
  <2> HIDE DEF S, T, g
  <2>4. /\ IsFiniteSet(S) /\ Cardinality(S) \in Nat
        /\ IsFiniteSet(T) /\ Cardinality(T) \in Nat
    BY <1>2, <2>1
  <2>5. Cardinality(S \cup T) = Cardinality(S) + Cardinality(T) - Cardinality(S \cap T)
    BY <2>4, FS_Union
  <2>6. Cardinality(S \cup T) = Cardinality(S) + Cardinality(T)
    <3> DEFINE x == Cardinality(S)
               y == Cardinality(T)
    <3>1. Cardinality(S \cap T) = 0 /\ x \in Nat /\ y \in Nat
      BY <1>3, <2>1, <2>4
    <3> HIDE DEF x, y
    <3>2. x + y - 0 = x + y
      BY <3>1
    <3>3. QED
      BY <2>5, <3>1, <3>2 DEF x, y
  <2>7. QED
    BY <2>2, <2>3, <2>6
<1>6. IsSummed(g, arcs, n)
  <2>1. g = [u \in 0 .. n |-> g[u]]
    OBVIOUS
  <2> HIDE DEF g
  <2>2. ASSUME NEW u \in 0 .. n PROVE g[u] = SumAt(g, arcs, u)
    <3>1. u # 0 => u \in 1 .. n
      OBVIOUS
    <3>2. QED
      BY <1>4, <1>5, <3>1 DEF SumAt
  <2>3. QED
    BY <2>1, <2>2 DEF IsSummed
<1>7. IsSummed(f, arcs, n)
  <2> HIDE DEF g
  <2>1. QED
    BY <1>6, OffsetsAreSummed
<1>8. f = [u \in 0 .. n |-> f[u]] /\ \A u \in 0 .. n : f[u] = SumAt(f, arcs, u)
  <2>1. f = [u \in 0 .. n |-> SumAt(f, arcs, u)]
    BY <1>7 DEF IsSummed
  <2> HIDE DEF f
  <2>2. \A u \in 0 .. n : f[u] = SumAt(f, arcs, u)
    BY <2>1
  <2>3. QED
    BY <2>1, <2>2
<1>9. g = [u \in 0 .. n |-> g[u]]
  OBVIOUS
<1> HIDE DEF f, g
<1>10. ASSUME NEW u \in 0 .. n, f[u] # g[u] PROVE FALSE
  <2> DEFINE Bad == {v \in 0 .. n : f[v] # g[v]}
  <2>1. Bad # {} /\ Bad \in SUBSET Nat
    BY <1>10
  <2>2. PICK v \in Bad : \A w \in Bad : v <= w
    <3> HIDE DEF Bad
    <3>1. QED
      BY <2>1, LeastNatural
  <2>3. v # 0
    BY <1>4, <1>8, <2>2 DEF SumAt
  <2>4. v \in 1 .. n /\ v - 1 \in 0 .. n /\ ~(v <= v - 1)
    BY <2>2, <2>3
  <2>5. f[v - 1] = g[v - 1]
    BY <2>2, <2>4
  <2>6. f[v] = g[v]
    BY <1>5, <1>8, <2>3, <2>4, <2>5 DEF SumAt
  <2>7. QED
    BY <2>2, <2>6
<1>11. \A u \in 0 .. n : f[u] = g[u]
  BY <1>10
<1>12. QED
  BY <1>8, <1>9, <1>11 DEF f, g

LEMMA OffsetsFact ==
    ASSUME NEW n \in 0 .. MaxNodes, NEW m \in Nat,
           NEW sorted \in [1 .. m -> StagedArc(n)], InOrder(sorted),
           NEW u \in 0 .. n
    PROVE  LET off == RowOffsets(sorted, n) IN
           /\ off[u] \in 0 .. m
           /\ \A i \in 1 .. m : sorted[i].source < u <=> i <= off[u]
<1> DEFINE T == {i \in 1 .. m : sorted[i].source < u}
<1>1. \A i \in 1 .. m : sorted[i].source \in Nat
  BY LimitAssumption DEF StagedArc
<1>2. \A i, j \in 1 .. m : i <= j /\ j \in T => i \in T
  <2>1. \A i, j \in 1 .. m : i <= j => sorted[i].source <= sorted[j].source
    BY SourcesAreSorted
  <2>2. u \in Nat
    BY LimitAssumption
  <2>3. QED
    BY <1>1, <2>1, <2>2
<1>3. Cardinality(T) \in 0 .. m /\ T = 1 .. Cardinality(T)
  <2>1. T \in SUBSET (1 .. m)
    OBVIOUS
  <2> HIDE DEF T
  <2>2. QED
    BY <1>2, <2>1, InitialSegment
<1>4. RowOffsets(sorted, n)[u] = Cardinality(T)
  <2>1. n \in Nat /\ DOMAIN sorted = 1 .. m
    BY LimitAssumption
  <2>2. RowOffsets(sorted, n) =
            [v \in 0 .. n |-> Cardinality(Preceding(sorted, m, v))]
    BY <1>1, <2>1, OffsetsCount
  <2>3. QED
    BY <2>2 DEF Preceding
<1>5. QED
  BY <1>3, <1>4

-----------------------------------------------------------------------------
(***************************************************************************)
(* The graph that build() hands over.                                      *)
(***************************************************************************)
BuiltFrom(g, n, arcs, sorted) ==
    g = NewGraph(n, coordinates, external_ids, RowOffsets(sorted, n),
                 Len(arcs), ArcArray(sorted))

LEMMA BuildMakes ==
    ASSUME BuilderInv, Build, BuildError = "none"
    PROVE  \E n \in 0 .. MaxNodes, p \in Orders(staged) :
            /\ coordinates \in [0 .. n - 1 -> Coord]
            /\ external_ids \in [0 .. n - 1 -> ExternalId]
            /\ staged \in Seq(StagedArc(n)) /\ Len(staged) <= MaxArcs
            /\ SortedBy(p, staged)
            /\ BuiltFrom(graph', n, staged, Reordered(staged, p))
<1>1. PICK n \in 0 .. MaxNodes :
        /\ coordinates \in [0 .. n - 1 -> Coord]
        /\ external_ids \in [0 .. n - 1 -> ExternalId]
        /\ staged \in Seq(StagedArc(n))
  BY DEF BuilderInv, TypeOK
<1>2. Size = n
  BY <1>1, SizeFact
<1>3. PICK p \in Orders(staged) :
        /\ SortedBy(p, staged)
        /\ graph' = NewGraph(Size, coordinates, external_ids,
                             RowOffsets(Reordered(staged, p), Size),
                             Len(staged), ArcArray(Reordered(staged, p)))
  BY DEF Build
<1>4. QED
  BY <1>1, <1>2, <1>3 DEF BuilderInv, TypeOK, BuiltFrom

LEMMA BuiltIsCsr ==
    ASSUME NEW n \in 0 .. MaxNodes, NEW arcs \in Seq(StagedArc(n)),
           Len(arcs) <= MaxArcs, NEW p, SortedBy(p, arcs),
           coordinates \in [0 .. n - 1 -> Coord],
           external_ids \in [0 .. n - 1 -> ExternalId],
           NEW g, BuiltFrom(g, n, arcs, Reordered(arcs, p))
    PROVE  IsCsr(g)
<1> DEFINE m == Len(arcs)
           sorted == Reordered(arcs, p)
           off == RowOffsets(sorted, n)
<1>1. /\ m \in Nat /\ sorted \in [1 .. m -> StagedArc(n)] /\ Len(sorted) = m
      /\ InOrder(sorted)
  BY ReorderedType DEF SortedBy
<1>2. /\ n \in Nat /\ m \in 0 .. MaxArcs
      /\ g.node_count = n /\ g.arc_count = m
      /\ g.coordinate = coordinates /\ g.external_id = external_ids
      /\ g.offset = off /\ g.arc = ArcArray(sorted)
  BY <1>1, LimitAssumption DEF BuiltFrom, NewGraph
<1> HIDE DEF sorted, m
<1>3. \A u \in 0 .. n : off[u] \in 0 .. m
                        /\ \A i \in 1 .. m : sorted[i].source < u <=> i <= off[u]
  BY <1>1, OffsetsFact
<1>4. off \in [0 .. n -> 0 .. m]
  <2>1. off = [u \in 0 .. n |-> off[u]]
    <3>1. /\ DOMAIN sorted = 1 .. m
          /\ \A i \in 1 .. m : sorted[i].source \in Nat
      BY <1>1, <1>2 DEF StagedArc
    <3>2. off = [u \in 0 .. n |-> Cardinality(Preceding(sorted, m, u))]
      BY <1>1, <1>2, <3>1, OffsetsCount
    <3>3. QED
      BY <3>2
  <2>2. QED
    BY <1>3, <2>1
<1> HIDE DEF off
<1>5. \A i \in 1 .. m : sorted[i].source \in 0 .. n - 1
  BY <1>1 DEF StagedArc
<1>6. off[0] = 0 /\ off[n] = m
  <2>1. off[0] \in 0 .. m /\ off[n] \in 0 .. m
    BY <1>2, <1>3
  <2>2. off[0] = 0
    <3>1. CASE off[0] >= 1
      <4>1. off[0] \in 1 .. m /\ 0 \in 0 .. n
        BY <1>2, <2>1, <3>1
      <4>2. sorted[off[0]].source < 0
        BY <1>3, <4>1
      <4>3. QED
        BY <1>5, <4>1, <4>2
    <3>2. QED
      BY <2>1, <3>1
  <2>3. off[n] = m
    <3>1. CASE m >= 1
      <4>1. m \in 1 .. m /\ n \in 0 .. n
        BY <1>1, <1>2, <3>1
      <4>2. sorted[m].source < n
        BY <1>2, <1>5, <4>1
      <4>3. m <= off[n]
        BY <1>3, <4>1, <4>2
      <4>4. QED
        BY <1>1, <2>1, <4>3
    <3>2. QED
      BY <1>1, <2>1, <3>1
  <2>4. QED
    BY <2>2, <2>3
<1>7. ASSUME NEW u \in 0 .. n, NEW v \in 0 .. n, u <= v
      PROVE  off[u] <= off[v]
  <2>1. CASE off[u] = 0
    BY <1>3, <2>1
  <2>2. CASE off[u] # 0
    <3>1. off[u] \in 1 .. m
      BY <1>3, <2>2
    <3>2. sorted[off[u]].source < u
      BY <1>3, <3>1
    <3>3. sorted[off[u]].source < v
      BY <1>2, <1>5, <1>7, <3>1, <3>2
    <3>4. QED
      BY <1>3, <3>1, <3>3
  <2>3. QED
    BY <2>1, <2>2
<1>8. g.arc \in [Arcs(g) -> ArcType(n)]
  <2>1. g.arc = [k \in 0 .. m - 1 |-> [target |-> sorted[k + 1].target,
                                       weight |-> sorted[k + 1].weight]]
    BY <1>1, <1>2 DEF ArcArray
  <2>2. \A k \in 0 .. m - 1 : k + 1 \in 1 .. m
    BY <1>1
  <2>3. \A k \in 0 .. m - 1 : /\ sorted[k + 1].target \in 0 .. n - 1
                              /\ sorted[k + 1].weight \in Weight
    BY <1>1, <2>2 DEF StagedArc
  <2>4. QED
    BY <1>2, <2>1, <2>3 DEF Arcs, ArcType
<1>9. QED
  BY <1>2, <1>4, <1>6, <1>7, <1>8 DEF IsCsr, Nodes

\* Slot k of the arc array is arc k + 1 of the sorted ones, in its source's row.
Slots(g, n, sorted, m) ==
    \A u \in 0 .. n - 1, k \in 0 .. m - 1 :
        /\ k + 1 \in 1 .. m
        /\ g.arc[k] = [target |-> sorted[k + 1].target,
                       weight |-> sorted[k + 1].weight]
        /\ k \in ArcsFrom(g, u) <=> sorted[k + 1].source = u

LEMMA BuiltSlots ==
    ASSUME NEW n \in 0 .. MaxNodes, NEW arcs \in Seq(StagedArc(n)),
           NEW p, SortedBy(p, arcs),
           NEW sorted, sorted = Reordered(arcs, p),
           NEW g, BuiltFrom(g, n, arcs, sorted)
    PROVE  Slots(g, n, sorted, Len(arcs))
<1> DEFINE m == Len(arcs)
           off == RowOffsets(sorted, n)
<1>1. /\ m \in Nat /\ sorted \in [1 .. m -> StagedArc(n)] /\ Len(sorted) = m
      /\ InOrder(sorted)
  BY ReorderedType DEF SortedBy
<1>2. n \in Nat /\ g.offset = off /\ g.arc = ArcArray(sorted)
  BY LimitAssumption DEF BuiltFrom, NewGraph
<1>3. SUFFICES ASSUME NEW u \in 0 .. n - 1, NEW k \in 0 .. m - 1
               PROVE  /\ k + 1 \in 1 .. m
                      /\ g.arc[k] = [target |-> sorted[k + 1].target,
                                     weight |-> sorted[k + 1].weight]
                      /\ k \in ArcsFrom(g, u) <=> sorted[k + 1].source = u
  BY DEF Slots
<1>4. u \in 0 .. n /\ u + 1 \in 0 .. n
  BY <1>2
<1>5. /\ off[u] \in 0 .. m /\ off[u + 1] \in 0 .. m
      /\ \A i \in 1 .. m : /\ sorted[i].source < u <=> i <= off[u]
                           /\ sorted[i].source < u + 1 <=> i <= off[u + 1]
  BY <1>1, <1>4, OffsetsFact
<1> HIDE DEF off
<1>6. k + 1 \in 1 .. m
  BY <1>1
<1>7. sorted[k + 1].source \in Nat
  BY <1>1, <1>6, LimitAssumption DEF StagedArc
<1>8. k \in off[u] .. off[u + 1] - 1 <=> sorted[k + 1].source = u
  BY <1>4, <1>5, <1>6, <1>7
<1>9. QED
  BY <1>1, <1>2, <1>6, <1>8 DEF ArcsFrom, ArcArray

LEMMA BuiltArcs ==
    ASSUME NEW n \in 0 .. MaxNodes, NEW arcs \in Seq(StagedArc(n)),
           NEW p, SortedBy(p, arcs),
           NEW sorted, sorted = Reordered(arcs, p),
           NEW g, BuiltFrom(g, n, arcs, sorted),
           NEW u \in 0 .. n - 1, NEW k \in 0 .. Len(arcs) - 1
    PROVE  /\ k + 1 \in 1 .. Len(arcs)
           /\ g.arc[k] = [target |-> sorted[k + 1].target,
                          weight |-> sorted[k + 1].weight]
           /\ k \in ArcsFrom(g, u) <=> sorted[k + 1].source = u
<1>1. Slots(g, n, sorted, Len(arcs))
  BY BuiltSlots
<1>2. QED
  BY <1>1 DEF Slots

LEMMA BuiltIsCanonical ==
    ASSUME NEW n \in 0 .. MaxNodes, NEW arcs \in Seq(StagedArc(n)),
           NEW p, SortedBy(p, arcs),
           NEW sorted, sorted = Reordered(arcs, p),
           NEW g, BuiltFrom(g, n, arcs, sorted), IsCsr(g)
    PROVE  IsCanonical(g)
<1> DEFINE m == Len(arcs)
<1>1. /\ m \in Nat /\ sorted \in [1 .. m -> StagedArc(n)]
      /\ DOMAIN sorted = 1 .. m /\ InOrder(sorted)
  BY ReorderedType DEF SortedBy
<1>2. g.node_count = n /\ g.arc_count = m
  BY DEF BuiltFrom, NewGraph
<1>3. SUFFICES ASSUME NEW u \in 0 .. n - 1,
                      NEW k \in ArcsFrom(g, u), NEW l \in ArcsFrom(g, u), k < l
               PROVE  \/ g.arc[k].target < g.arc[l].target
                      \/ /\ g.arc[k].target = g.arc[l].target
                         /\ g.arc[k].weight <= g.arc[l].weight
  BY <1>2 DEF IsCanonical, Nodes
<1>4. k \in 0 .. m - 1 /\ l \in 0 .. m - 1
  <2>1. u \in 0 .. n /\ u + 1 \in 0 .. n
    BY LimitAssumption
  <2>2. g.offset[u] \in 0 .. m /\ g.offset[u + 1] \in 0 .. m
    BY <1>2, <2>1 DEF IsCsr
  <2>3. QED
    BY <2>2 DEF ArcsFrom
<1>5. /\ k + 1 \in 1 .. m
      /\ g.arc[k] = [target |-> sorted[k + 1].target,
                     weight |-> sorted[k + 1].weight]
      /\ sorted[k + 1].source = u
  BY <1>4, BuiltArcs
<1>6. /\ l + 1 \in 1 .. m
      /\ g.arc[l] = [target |-> sorted[l + 1].target,
                     weight |-> sorted[l + 1].weight]
      /\ sorted[l + 1].source = u
  BY <1>4, BuiltArcs
<1>7. ~Before(sorted[l + 1], sorted[k + 1])
  <2>1. k + 1 < l + 1
    BY <1>3, <1>4
  <2>2. QED
    BY <1>1, <1>5, <1>6, <2>1 DEF InOrder
<1>8. /\ sorted[k + 1].target \in Nat /\ sorted[l + 1].target \in Nat
      /\ sorted[k + 1].weight \in Nat /\ sorted[l + 1].weight \in Nat
  BY <1>1, <1>5, <1>6, StagedArcFacts
<1>9. QED
  BY <1>5, <1>6, <1>7, <1>8 DEF Before

(***************************************************************************)
(* Whatever the calls and their order, what build() returns is a graph as  *)
(* the search assumes it: offsets that partition the arc array, every arc  *)
(* in range and in canonical order, a metric report of its own arrays.     *)
(* The assumption of Search about its graphs rests on this theorem.        *)
(***************************************************************************)
THEOREM BuiltGraphsAreSound == Spec => []BuiltGraphIsSound
<1>1. Init => BuiltGraphIsSound
  BY DEF Init, BuiltGraphIsSound
<1>2. BuilderInv /\ BuiltGraphIsSound /\ [Next]_vars => BuiltGraphIsSound'
  <2>1. SUFFICES ASSUME BuilderInv, BuiltGraphIsSound, [Next]_vars,
                        graph' # graph
                 PROVE  IsGraph(graph')
    BY DEF BuiltGraphIsSound
  <2>2. Build /\ BuildError = "none"
    BY <2>1, OnlyBuildMakesGraphs
  <2>3. PICK n \in 0 .. MaxNodes, p \in Orders(staged) :
            /\ coordinates \in [0 .. n - 1 -> Coord]
            /\ external_ids \in [0 .. n - 1 -> ExternalId]
            /\ staged \in Seq(StagedArc(n)) /\ Len(staged) <= MaxArcs
            /\ SortedBy(p, staged)
            /\ BuiltFrom(graph', n, staged, Reordered(staged, p))
    BY <2>1, <2>2, BuildMakes
  <2>4. IsCsr(graph')
    BY <2>3, BuiltIsCsr
  <2>5. IsCanonical(graph')
    BY <2>3, <2>4, BuiltIsCanonical
  <2>6. ReportIsRight(graph')
    BY <2>3 DEF BuiltFrom, NewGraph, ReportIsRight
  <2>7. QED
    BY <2>4, <2>5, <2>6 DEF IsGraph
<1>3. QED
  BY BuilderInvariant, <1>1, <1>2, PTL DEF Spec

-----------------------------------------------------------------------------
(***************************************************************************)
(* Insertion order.  The sort order is total on staged arcs, so a value    *)
(* fills consecutive places of the sorted sequence: as many as it occurs,  *)
(* after as many as there are arcs before it.  No permutation changes      *)
(* either number.                                                          *)
(***************************************************************************)
LEMMA BeforeIsTotal ==
    ASSUME NEW n \in 0 .. MaxNodes, NEW a \in StagedArc(n),
           NEW b \in StagedArc(n), NEW c \in StagedArc(n)
    PROVE  /\ ~Before(a, a)
           /\ ~Before(b, a) /\ Before(b, c) => Before(a, c)
           /\ ~Before(b, a) => Before(a, b) \/ a = b
<1>1. /\ a.source \in Nat /\ a.target \in Nat /\ a.weight \in Nat
      /\ b.source \in Nat /\ b.target \in Nat /\ b.weight \in Nat
      /\ c.source \in Nat /\ c.target \in Nat /\ c.weight \in Nat
  BY StagedArcFacts
<1>2. ~Before(a, a)
  BY <1>1 DEF Before
<1>3. ~Before(b, a) /\ Before(b, c) => Before(a, c)
  BY <1>1 DEF Before
<1>4. ASSUME ~Before(b, a), ~Before(a, b) PROVE a = b
  <2>1. a.source = b.source /\ a.target = b.target /\ a.weight = b.weight
    BY <1>1, <1>4 DEF Before
  <2>2. QED
    BY <2>1, SameArc
<1>5. QED
  BY <1>2, <1>3, <1>4

LEMMA PermutedCount ==
    ASSUME NEW D, NEW p \in Bijection(D, D), NEW T \in SUBSET D,
           NEW S, S = {j \in D : p[j] \in T}, IsFiniteSet(D)
    PROVE  Cardinality(S) = Cardinality(T)
<1> DEFINE f == [j \in S |-> p[j]]
<1>1. /\ p \in [D -> D]
      /\ \A a, b \in D : p[a] = p[b] => a = b
      /\ \A t \in D : \E s \in D : p[s] = t
  BY Fun_BijectionProperties
<1>2. f \in [S -> T]
  BY <1>1
<1>3. \A a, b \in S : f[a] = f[b] => a = b
  BY <1>1
<1>4. \A t \in T : \E s \in S : f[s] = t
  BY <1>1
<1>5. f \in Bijection(S, T)
  <2> HIDE DEF f
  <2>1. QED
    BY <1>2, <1>3, <1>4, Fun_IsBij
<1>6. ExistsBijection(S, T) /\ IsFiniteSet(S)
  <2>1. S \in SUBSET D
    OBVIOUS
  <2> HIDE DEF f
  <2>2. QED
    BY <1>5, <2>1, Fun_ExistsBij, FS_Subset
<1>7. QED
  BY <1>6, FS_Bijection

LEMMA SlotsAreFilled ==
    ASSUME NEW n \in 0 .. MaxNodes, NEW arcs \in Seq(StagedArc(n)),
           NEW p, SortedBy(p, arcs),
           NEW sorted, sorted = Reordered(arcs, p),
           NEW a \in StagedArc(n), NEW k \in SlotsOf(a, arcs)
    PROVE  k \in 0 .. Len(arcs) - 1 /\ sorted[k + 1] = a
<1> DEFINE m == Len(arcs)
           Below == {i \in 1 .. m : Before(sorted[i], a)}
           Same == {i \in 1 .. m : sorted[i] = a}
           Upto == Below \cup Same
<1>1. /\ m \in Nat /\ sorted \in [1 .. m -> StagedArc(n)] /\ InOrder(sorted)
      /\ DOMAIN sorted = 1 .. m /\ DOMAIN arcs = 1 .. m
      /\ p \in Bijection(1 .. m, 1 .. m) /\ p \in [1 .. m -> 1 .. m]
      /\ \A i \in 1 .. m : sorted[i] = arcs[p[i]]
  BY ReorderedType DEF SortedBy
<1>2. IsFiniteSet(1 .. m)
  BY <1>1, FS_Interval
<1>3. Cardinality({i \in 1 .. m : Before(arcs[i], a)}) = Cardinality(Below)
  <2> DEFINE T == {i \in 1 .. m : Before(arcs[i], a)}
  <2>1. Below = {j \in 1 .. m : p[j] \in T} /\ T \in SUBSET (1 .. m)
    BY <1>1
  <2> HIDE DEF T, Below
  <2>2. Cardinality(Below) = Cardinality(T)
    <3> DEFINE I == 1 .. m
    <3>1. /\ p \in Bijection(I, I) /\ T \in SUBSET I /\ IsFiniteSet(I)
          /\ Below = {j \in I : p[j] \in T}
      BY <1>1, <1>2, <2>1
    <3> HIDE DEF I
    <3>2. QED
      BY <3>1, PermutedCount
  <2>3. QED
    BY <2>1, <2>2 DEF T
<1>4. Cardinality({i \in 1 .. m : arcs[i] = a}) = Cardinality(Same)
  <2> DEFINE T == {i \in 1 .. m : arcs[i] = a}
  <2>1. Same = {j \in 1 .. m : p[j] \in T} /\ T \in SUBSET (1 .. m)
    BY <1>1
  <2> HIDE DEF T, Same
  <2>2. Cardinality(Same) = Cardinality(T)
    <3> DEFINE I == 1 .. m
    <3>1. /\ p \in Bijection(I, I) /\ T \in SUBSET I /\ IsFiniteSet(I)
          /\ Same = {j \in I : p[j] \in T}
      BY <1>1, <1>2, <2>1
    <3> HIDE DEF I
    <3>2. QED
      BY <3>1, PermutedCount
  <2>3. QED
    BY <2>1, <2>2 DEF T
<1>5. SlotsOf(a, arcs)
        = Cardinality(Below) .. Cardinality(Below) + Cardinality(Same) - 1
  BY <1>1, <1>3, <1>4, Zenon DEF SlotsOf
<1>6. ASSUME NEW i \in 1 .. m, NEW j \in 1 .. m, i <= j
      PROVE  ~Before(sorted[j], sorted[i])
  <2>1. CASE i = j
    BY <1>1, <2>1, BeforeIsTotal
  <2>2. CASE i < j
    BY <1>1, <2>2 DEF InOrder
  <2>3. QED
    BY <1>6, <2>1, <2>2
<1>7. Below \in SUBSET (1 .. m) /\ Upto \in SUBSET (1 .. m)
  OBVIOUS
<1>8. \A i, j \in 1 .. m : i <= j /\ j \in Below => i \in Below
  BY <1>1, <1>6, BeforeIsTotal
<1>9. \A i, j \in 1 .. m : i <= j /\ j \in Upto => i \in Upto
  BY <1>1, <1>6, BeforeIsTotal
<1>10. Below \cap Same = {}
  BY <1>1, BeforeIsTotal
<1>11. Same \in SUBSET (1 .. m) /\ Upto = Below \cup Same
       /\ \A i \in Upto : i \notin Below => sorted[i] = a
  OBVIOUS
<1> HIDE DEF Below, Same, Upto
<1>12. /\ Cardinality(Below) \in 0 .. m /\ Below = 1 .. Cardinality(Below)
       /\ Cardinality(Upto) \in 0 .. m /\ Upto = 1 .. Cardinality(Upto)
  BY <1>1, <1>7, <1>8, <1>9, InitialSegment
<1>13. Cardinality(Upto) = Cardinality(Below) + Cardinality(Same)
  <2>1. IsFiniteSet(Below) /\ IsFiniteSet(Same) /\ Cardinality(Same) \in Nat
    BY <1>2, <1>7, <1>11, FS_Subset, FS_CardinalityType
  <2>2. Cardinality(Upto) = Cardinality(Below) + Cardinality(Same) - 0
    BY <1>10, <1>11, <2>1, FS_Union, FS_EmptySet
  <2>3. QED
    BY <1>12, <2>1, <2>2
<1>14. k + 1 \in Upto /\ k + 1 \notin Below /\ k \in 0 .. m - 1
  <2> DEFINE b == Cardinality(Below)
             c == Cardinality(Same)
             d == Cardinality(Upto)
  <2>1. c \in Nat
    BY <1>2, <1>11, FS_Subset, FS_CardinalityType
  <2>2. k \in b .. b + c - 1
    BY <1>5
  <2>3. b \in 0 .. m /\ d \in 0 .. m /\ d = b + c
    BY <1>12, <1>13
  <2>4. Below = 1 .. b /\ Upto = 1 .. d
    BY <1>12
  <2> HIDE DEF b, c, d, m
  <2>5. k \in Int /\ b <= k /\ k < d /\ d <= m /\ 0 <= b /\ m \in Nat
        /\ d \in Nat /\ b \in Nat
    BY <1>1, <2>1, <2>2, <2>3
  <2>6. k + 1 \in 1 .. d /\ k + 1 \notin 1 .. b /\ k \in 0 .. m - 1
    BY <2>5
  <2>7. QED
    BY <2>4, <2>6
<1>15. QED
  BY <1>11, <1>14

(***************************************************************************)
(* The graph does not depend on the order in which arcs were added, nor on *)
(* which permutation the unstable sort produces: no arc is lost, invented  *)
(* or moved to another row, and each lies at the places that the multiset  *)
(* of the staged arcs gives it.                                            *)
(***************************************************************************)
THEOREM InsertionOrderDoesNotMatter == Spec => InsertionOrderIsInvisible
<1> DEFINE Placed ==
        /\ graph'.arc_count = Len(staged)
        /\ graph'.coordinate = coordinates
        /\ graph'.external_id = external_ids
        /\ \A i \in DOMAIN staged : \A k \in SlotsOf(staged[i], staged) :
            /\ graph'.arc[k] = [target |-> staged[i].target,
                                weight |-> staged[i].weight]
            /\ k \in ArcsFrom(graph', staged[i].source)
<1>1. ASSUME BuilderInv, [Next]_vars, graph' # graph
      PROVE  Placed
  <2>1. Build /\ BuildError = "none"
    BY <1>1, OnlyBuildMakesGraphs
  <2>2. PICK n \in 0 .. MaxNodes, p \in Orders(staged) :
            /\ coordinates \in [0 .. n - 1 -> Coord]
            /\ external_ids \in [0 .. n - 1 -> ExternalId]
            /\ staged \in Seq(StagedArc(n)) /\ Len(staged) <= MaxArcs
            /\ SortedBy(p, staged)
            /\ BuiltFrom(graph', n, staged, Reordered(staged, p))
    BY <1>1, <2>1, BuildMakes
  <2>3. /\ graph'.arc_count = Len(staged)
        /\ graph'.coordinate = coordinates
        /\ graph'.external_id = external_ids
    BY <2>2 DEF BuiltFrom, NewGraph
  <2>4. ASSUME NEW i \in DOMAIN staged, NEW k \in SlotsOf(staged[i], staged)
        PROVE  /\ graph'.arc[k] = [target |-> staged[i].target,
                                   weight |-> staged[i].weight]
               /\ k \in ArcsFrom(graph', staged[i].source)
    <3>1. staged[i] \in StagedArc(n)
      BY <2>2, ElementOfSeq, LenProperties
    <3>2. staged[i].source \in 0 .. n - 1
      BY <3>1, StagedArcFacts
    <3>3. /\ k \in 0 .. Len(staged) - 1
          /\ Reordered(staged, p)[k + 1] = staged[i]
      BY <2>2, <3>1, SlotsAreFilled
    <3> DEFINE sorted == Reordered(staged, p)
               u == staged[i].source
    <3>4. sorted = Reordered(staged, p)
      OBVIOUS
    <3> HIDE DEF sorted
    <3>5. /\ graph'.arc[k] = [target |-> sorted[k + 1].target,
                              weight |-> sorted[k + 1].weight]
          /\ k \in ArcsFrom(graph', u) <=> sorted[k + 1].source = u
      <4>1. BuiltFrom(graph', n, staged, sorted)
        BY <2>2, <3>4
      <4>2. u \in 0 .. n - 1 /\ k \in 0 .. Len(staged) - 1
        BY <3>2, <3>3
      <4> HIDE DEF u
      <4>3. QED
        BY <2>2, <3>4, <4>1, <4>2, BuiltArcs
    <3>6. sorted[k + 1] = staged[i]
      BY <3>3, <3>4
    <3>7. QED
      BY <3>5, <3>6
  <2>5. QED
    BY <2>3, <2>4
<1>2. BuilderInv /\ [Next]_vars => [graph' # graph => Placed]_vars
  BY <1>1
<1>3. QED
  BY BuilderInvariant, <1>2, PTL DEF Spec, InsertionOrderIsInvisible
=============================================================================
