----------------------------- MODULE HeelProofs -----------------------------
(***************************************************************************)
(* The generator for every description and all files of Operating Points   *)
(* that a user may give, whatever the texts of the features stand for.     *)
(*                                                                         *)
(* The tool goes from stage to stage, so the invariant HeelInv only says   *)
(* where the results of a stage come from; the work is in what each        *)
(* function makes of a description of any length.  First parse and         *)
(* validate, section by section, up to ValidBlock; from there              *)
(*   - the names are in order, so equal ones are neighbours and refused;   *)
(*   - parse undoes compose, and the type of a segment holds the others;   *)
(*   - val_to_knob undoes knob_to_val;                                     *)
(*   - each state is emitted once and has at most one constraint;          *)
(*   - a cluster that was just added wins the tournament of                *)
(*     select_feature_cluster, so the generated calls, by induction on     *)
(*     their number, leave every Operating Point with its features.        *)
(***************************************************************************)
EXTENDS Heel, FiniteSetTheorems, SequenceTheorems, WellFoundedInduction, TLAPS

----------------------------------------------------------------------------
(* Sequences and their orders.                                             *)

\* std::sort only reorders.
LEMMA OrdersFacts ==
  ASSUME NEW S, NEW seq \in Seq(S), NEW s \in OrdersOf(seq)
  PROVE  /\ s \in Seq(S) /\ Len(s) = Len(seq) /\ DOMAIN s = DOMAIN seq /\ ToSet(s) = ToSet(seq)
         /\ \A i \in DOMAIN seq : \E j \in DOMAIN seq : s[i] = seq[j]
<1>1. PICK p \in Bijection(DOMAIN seq, DOMAIN seq) : s = [i \in DOMAIN seq |-> seq[p[i]]]
  BY DEF OrdersOf
<1>2. p \in [DOMAIN seq -> DOMAIN seq] /\ \A j \in DOMAIN seq : \E i \in DOMAIN seq : p[i] = j
  BY DEF Bijection, Injection, Surjection
<1>3. DOMAIN seq = 1 .. Len(seq) /\ Len(seq) \in Nat /\ \A i \in DOMAIN seq : seq[i] \in S
  OBVIOUS
<1>4. DOMAIN s = DOMAIN seq /\ \A i \in DOMAIN seq : s[i] = seq[p[i]] /\ s[i] \in S
  BY <1>1, <1>2, <1>3
<1>5. s \in [1 .. Len(seq) -> S] BY <1>1, <1>3, <1>4
<1>6. s \in Seq(S) /\ Len(s) = Len(seq)
  BY <1>3, <1>5, SeqDef, LenProperties
<1>7. ToSet(s) = ToSet(seq)
  <2>1. ASSUME NEW x \in ToSet(s) PROVE x \in ToSet(seq)
    BY <1>2, <1>4 DEF ToSet
  <2>2. ASSUME NEW x \in ToSet(seq) PROVE x \in ToSet(s)
    <3>1. PICK j \in DOMAIN seq : x = seq[j] BY DEF ToSet
    <3>2. PICK i \in DOMAIN seq : p[i] = j BY <1>2
    <3>3. s[i] = x /\ i \in DOMAIN s BY <1>4, <3>1, <3>2
    <3> QED BY <3>3 DEF ToSet
  <2> QED BY <2>1, <2>2
<1> QED BY <1>2, <1>4, <1>6, <1>7

----------------------------------------------------------------------------
(* The invariant: where the block and what is generated come from.         *)

Projected(files, file) ==
  \A i \in DOMAIN files : \A j \in DOMAIN files[i] : DOMAIN files[i][j].features = DOMAIN file.features

Featured(ops, file) ==
  /\ ops \in Seq(OperatingPointElement)
  /\ \A j \in DOMAIN ops : DOMAIN ops[j].features = DOMAIN file.features

\* A block that validate accepted.
Segmented(b, types) == [Typed(b) EXCEPT !.segments = types]

\* v is what validate makes of one of the blocks that parse may return.
Validated(v, file) ==
  \E b \in ParseBlock(file) :
    Accepted(b) /\ \E types \in SegmentsOf(Typed(b)) : v = Segmented(b, types)

HeelInv ==
  /\ input \in [file : Description, files : Seq(Seq(OperatingPointElement))]
  /\ Projected(input.files, input.file)
  /\ Featured(points, input.file)
  /\ stage = "validate" => BlockUnderstood(input.file) /\ block \in ParseBlock(input.file)
  /\ stage \in {"points", "done"} => BlockUnderstood(input.file) /\ Validated(block, input.file)
  /\ stage = "done" => ~Unnameable /\ interface = KnowledgeCpp(block, points) /\ description = Compose(block)

\* The invariant holds before the description is parsed.
LEMMA HeelInvInit == HeelInit => HeelInv
<1> SUFFICES ASSUME HeelInit PROVE HeelInv OBVIOUS
<1>1. input \in Projects /\ stage = "parse" /\ points = <<>> BY DEF HeelInit
<1>2. input \in [file : Description, files : Seq(Seq(OperatingPointElement))]
  BY <1>1, ProjectsAssumption
<1>3. Projected(input.files, input.file) BY <1>1, ProjectsAssumption DEF Projected
<1>4. Featured(points, input.file)
  <2>1. points \in Seq(OperatingPointElement) /\ DOMAIN points = {} BY <1>1
  <2> QED BY <2>1 DEF Featured
<1> QED BY <1>1, <1>2, <1>3, <1>4 DEF HeelInv

\* A file is read: what is left of the files, and the Operating Points there are.
LEMMA FeaturedMore ==
  ASSUME HeelInv, input.files # <<>>
  PROVE  /\ Featured(points \o Head(input.files), input.file)
         /\ Tail(input.files) \in Seq(Seq(OperatingPointElement))
         /\ Projected(Tail(input.files), input.file)
<1> DEFINE E == OperatingPointElement
           fs == input.files
           ops == points \o Head(fs)
<1>1. fs \in Seq(Seq(E)) /\ fs # <<>> /\ points \in Seq(E) BY DEF HeelInv, Featured
<1>2. /\ Head(fs) \in Seq(E) /\ Head(fs) = fs[1] /\ 1 \in DOMAIN fs /\ Tail(fs) \in Seq(Seq(E))
      /\ \A i \in DOMAIN Tail(fs) : i + 1 \in DOMAIN fs /\ Tail(fs)[i] = fs[i + 1]
  <2> HIDE DEF fs, E
  <2>1. Tail(fs) \in Seq(Seq(E)) /\ Len(Tail(fs)) = Len(fs) - 1 BY <1>1, HeadTailProperties
  <2>2. Head(fs) = fs[1] BY <1>1, HeadTailProperties
  <2>3. Len(fs) \in Nat /\ Len(fs) # 0 /\ DOMAIN fs = 1 .. Len(fs) BY <1>1, EmptySeq
  <2>4. DOMAIN Tail(fs) = 1 .. Len(fs) - 1 BY <2>1
  <2>5. \A i \in DOMAIN Tail(fs) : i + 1 \in DOMAIN fs BY <2>3, <2>4
  <2>6. \A i \in 1 .. Len(fs) - 1 : Tail(fs)[i] = fs[i + 1] BY <1>1, HeadTailProperties
  <2> QED BY <1>1, <2>1, <2>2, <2>3, <2>4, <2>5, <2>6
<1>3. Projected(Tail(fs), input.file) BY <1>2 DEF HeelInv, Projected
<1>4. Featured(ops, input.file)
  <2>1. ops \in Seq(E) /\ Len(ops) = Len(points) + Len(Head(fs)) BY <1>1, <1>2, ConcatProperties
  <2>2. ASSUME NEW j \in DOMAIN ops PROVE DOMAIN ops[j].features = DOMAIN input.file.features
    <3>1. CASE j <= Len(points)
      <4>1. j \in DOMAIN points /\ ops[j] = points[j] BY <1>1, <1>2, <3>1, <2>1, ConcatProperties
      <4> QED BY <4>1 DEF HeelInv, Featured
    <3>2. CASE ~(j <= Len(points))
      <4> DEFINE n == j - Len(points)
      <4>1. n \in DOMAIN Head(fs) BY <1>1, <1>2, <3>2, <2>1
      <4>2. ops[j] = Head(fs)[n] BY <1>1, <1>2, <3>2, <2>1, ConcatProperties
      <4>3. DOMAIN fs[1][n].features = DOMAIN input.file.features
        BY <1>2, <4>1 DEF HeelInv, Projected
      <4> QED BY <1>2, <4>2, <4>3
    <3> QED BY <3>1, <3>2
  <2> QED BY <2>1, <2>2 DEF Featured
<1> QED BY <1>2, <1>3, <1>4

\* Every step keeps track of where its results come from.
LEMMA HeelInvStep == HeelInv /\ [HeelNext]_heelVars => HeelInv'
<1> SUFFICES ASSUME HeelInv, [HeelNext]_heelVars PROVE HeelInv' OBVIOUS
<1> USE DEF HeelInv
<1>1. CASE Parses BY <1>1 DEF Parses, Featured
<1>2. CASE Validates BY <1>2 DEF Validates, Validated, Segmented, Featured
<1>3. CASE ReadsPoints
  <2>1. input.files # <<>> /\ stage = "points" /\ block' = block BY <1>3 DEF ReadsPoints
  <2>2. input' = [input EXCEPT !.files = Tail(@)] BY <1>3 DEF ReadsPoints
  <2>3. input'.file = input.file /\ input'.files = Tail(input.files)
        /\ input' \in [file : Description, files : Seq(Seq(OperatingPointElement))]
    BY <2>1, <2>2, FeaturedMore
  <2>4. points' \in {points, points \o Head(input.files)} /\ stage' \in {"points", "failed"}
    BY <1>3 DEF ReadsPoints
  <2>5. Featured(points, input.file)' /\ Projected(input.files, input.file)'
    BY <2>1, <2>3, <2>4, FeaturedMore
  <2> QED BY <2>1, <2>3, <2>4, <2>5
<1>4. CASE Generates
  <2>1. PICK ops \in SortedByFeatures(points) : points' = ops /\ interface' = KnowledgeCpp(block, ops)
    BY <1>4 DEF Generates
  <2>2. ops \in OrdersOf(points) /\ points \in Seq(OperatingPointElement)
    BY <2>1 DEF SortedByFeatures, Featured
  <2>3. \A i \in DOMAIN points : \E j \in DOMAIN points : ops[i] = points[j]
    BY <2>2, OrdersFacts
  <2>4. ops \in Seq(OperatingPointElement) /\ DOMAIN ops = DOMAIN points BY <2>2, OrdersFacts
  <2>5. Featured(ops, input.file) BY <2>3, <2>4 DEF Featured
  <2>6. stage = "points" /\ UNCHANGED <<input, block>> /\ ~Unnameable /\ stage' = "done"
        /\ description' = Compose(block)
    BY <1>4 DEF Generates
  <2>7. ~Unnameable' BY <2>6 DEF Unnameable
  <2> QED BY <2>1, <2>5, <2>6, <2>7
<1>5. CASE NotGenerated BY <1>5 DEF NotGenerated
<1>6. CASE UNCHANGED heelVars
  <2>1. UNCHANGED <<input, stage, block, points, interface, description>> BY <1>6 DEF heelVars
  <2>2. Unnameable' = Unnameable BY <2>1 DEF Unnameable
  <2> QED BY <2>1, <2>2
<1> QED BY <1>1, <1>2, <1>3, <1>4, <1>5, <1>6 DEF HeelNext

\* The invariant holds at every stage of the tool.
LEMMA HeelAlways == HeelSpec => []HeelInv
BY HeelInvInit, HeelInvStep, PTL DEF HeelSpec

----------------------------------------------------------------------------
(* What parse and validate make of a description, section by section.      *)

Tags == {"knobs", "metrics", "monitors", "features", "distance", "agora", "states", "segments"}

\* parse of a block rewrites some of the sections and keeps the others.
LEMMA ParsedTags ==
  ASSUME NEW file, DOMAIN file = Tags, NEW b \in ParseBlock(file)
  PROVE  /\ DOMAIN b = Tags
         /\ b.knobs \in SortedByName([i \in DOMAIN file.knobs |-> ParseKnob(file.knobs[i])])
         /\ b.metrics \in SortedByName([i \in DOMAIN file.metrics |-> ParseMetric(file.metrics[i])])
         /\ b.monitors \in SortedByName(file.monitors)
         /\ b.features \in SortedByName([i \in DOMAIN file.features |-> ParseFeature(file.features[i])])
         /\ b.states = [i \in DOMAIN file.states |-> ParseState(file.states[i])]
         /\ b.distance = DistanceOf(file.distance) /\ b.agora = file.agora
<1> DEFINE ks == [i \in DOMAIN file.knobs |-> ParseKnob(file.knobs[i])]
           ms == [i \in DOMAIN file.metrics |-> ParseMetric(file.metrics[i])]
           fs == [i \in DOMAIN file.features |-> ParseFeature(file.features[i])]
           ss == [i \in DOMAIN file.states |-> ParseState(file.states[i])]
<1>1. PICK o \in [knobs : SortedByName(ks), metrics : SortedByName(ms),
                  monitors : SortedByName(file.monitors), features : SortedByName(fs)] :
        b = [file EXCEPT !.knobs = o.knobs, !.metrics = o.metrics, !.monitors = o.monitors,
                         !.features = o.features, !.states = ss, !.distance = DistanceOf(@)]
  BY DEF ParseBlock, Each
<1> HIDE DEF ks, ms, fs, ss
<1> QED BY <1>1 DEF Tags, ks, ms, fs, ss

\* The same for a description.
LEMMA ParsedBlock ==
  ASSUME NEW file \in Description, NEW b \in ParseBlock(file)
  PROVE  /\ DOMAIN b = Tags
         /\ b.knobs \in SortedByName([i \in DOMAIN file.knobs |-> ParseKnob(file.knobs[i])])
         /\ b.metrics \in SortedByName([i \in DOMAIN file.metrics |-> ParseMetric(file.metrics[i])])
         /\ b.monitors \in SortedByName(file.monitors)
         /\ b.features \in SortedByName([i \in DOMAIN file.features |-> ParseFeature(file.features[i])])
         /\ b.states = [i \in DOMAIN file.states |-> ParseState(file.states[i])]
         /\ b.distance = DistanceOf(file.distance) /\ b.agora = file.agora
<1>1. DOMAIN file = Tags BY DEF Description, Tags
<1> QED BY <1>1, ParsedTags

\* validate names the elements, replaces their types and adds the types of the
\* segments.
LEMMA ValidatedBlock ==
  ASSUME NEW b, DOMAIN b = Tags, NEW types, NEW v, v = Segmented(b, types)
  PROVE  /\ DOMAIN v = Tags
         /\ v.knobs = Sanitized(SetNames(b.knobs, "knobs"))
         /\ v.metrics = Sanitized(SetNames(b.metrics, "metrics"))
         /\ v.features = Sanitized(SetNames(b.features, "features"))
         /\ v.monitors = WithDefaults(SetNames(b.monitors, "monitors"))
         /\ v.states = SetNames(b.states, "states")
         /\ v.distance = b.distance /\ v.agora = b.agora /\ v.segments = types
         /\ \A s \in Sections : Named(b)[s] = SetNames(b[s], s)
         /\ \A s \in Tags \ {"segments"} : v[s] = Typed(b)[s]
<1> DEFINE n == Named(b)
<1>1. /\ DOMAIN n = Tags
      /\ \A s \in Sections : n[s] = SetNames(b[s], s)
      /\ n.distance = b.distance /\ n.agora = b.agora
  BY DEF Named, Tags, Sections
<1> HIDE DEF n
<1>2. Typed(b) = [n EXCEPT !.knobs = Sanitized(n.knobs), !.metrics = Sanitized(n.metrics),
                           !.features = Sanitized(n.features), !.monitors = WithDefaults(n.monitors)]
  BY DEF Typed, n
<1>3. /\ DOMAIN Typed(b) = Tags
      /\ Typed(b).knobs = Sanitized(n.knobs) /\ Typed(b).metrics = Sanitized(n.metrics)
      /\ Typed(b).features = Sanitized(n.features) /\ Typed(b).monitors = WithDefaults(n.monitors)
      /\ Typed(b).states = n.states /\ Typed(b).distance = n.distance /\ Typed(b).agora = n.agora
  BY <1>1, <1>2 DEF Tags
<1>4. /\ n.knobs = SetNames(b.knobs, "knobs") /\ n.metrics = SetNames(b.metrics, "metrics")
      /\ n.features = SetNames(b.features, "features") /\ n.monitors = SetNames(b.monitors, "monitors")
      /\ n.states = SetNames(b.states, "states")
  BY <1>1 DEF Sections
<1>5. DOMAIN v = Tags /\ v.segments = types /\ \A s \in Tags \ {"segments"} : v[s] = Typed(b)[s]
  BY <1>3 DEF Tags, Segmented
<1> QED BY <1>1, <1>3, <1>4, <1>5 DEF Tags, n

----------------------------------------------------------------------------
(* The elements that parse returns.                                        *)

ParsedKnob == [name : Nat, type : STRING, values : Seq(Int)]
ParsedMetric ==
  [name : Nat, type : STRING, monitor : Nat, plugin : BOOLEAN, parameters : BOOLEAN, reactive : BOOLEAN,
   distribution : BOOLEAN]
FeatureComparisons == {"LESS_OR_EQUAL", "GREATER_OR_EQUAL", "DONT_CARE"}
ParsedFeature == [name : Nat, type : STRING, comparison : FeatureComparisons]
Goals == {"LESS_OR_EQUAL", "GREATER_OR_EQUAL", "LESS", "GREATER"}
ParsedConstraint == [subject : Nat, comparison : Goals, value : STRING]
NoKind == <<"none", "none">>
Kinds == ToSet(RankKinds)
ParsedState ==
  {s \in [name : Nat, constraints : Seq(ParsedConstraint), kind : Kinds \cup {NoKind}, rank : SUBSET Nat] :
     s.kind = NoKind <=> s.rank = {}}

\* The first of a finite list of numbers.
LEMMA LeastOf ==
  ASSUME NEW S \in SUBSET Nat, S # {}
  PROVE  Min(S) \in S /\ \A x \in S : Min(S) <= x
<1>1. \E u \in S : \A w \in S : <<w, u>> \notin OpToRel(<, Nat)
  BY NatLessThanWellFounded, WFMin, Zenon
<1>2. \E u \in S : \A w \in S : w \in Nat /\ u \in Nat => ~(w < u)
  BY <1>1, Zenon DEF OpToRel
<1>3. \E u \in S : \A w \in S : u <= w BY <1>2
<1> QED BY <1>3 DEF Min

\* The sum wraps around to a number.
LEMMA WrappedType ==
  ASSUME NEW t, NEW n \in Int
  PROVE  Wrapped(t, n) \in Int
<1>1. 2^16 \in Nat \ {0} /\ 2^15 \in Int OBVIOUS
<1>2. CASE t \in DOMAIN Least
  <2>1. Least[t] \in Int
    <3>1. DOMAIN Least = {"int16_t", "uint16_t"} /\ Least.int16_t = -(2^15) /\ Least.uint16_t = 0 BY DEF Least
    <3> QED BY <1>1, <1>2, <3>1
  <2> DEFINE l == Least[t]
             w == 2^16
  <2>2. l \in Int /\ w \in Nat \ {0} BY <1>1, <2>1
  <2>3. Wrapped(t, n) = l + ((n - l) % w) BY <1>2 DEF Wrapped
  <2> HIDE DEF l, w
  <2>4. (n - l) % w \in Int BY <2>2
  <2> QED BY <2>2, <2>3, <2>4
<1>3. CASE t \notin DOMAIN Least BY <1>3 DEF Wrapped
<1> QED BY <1>2, <1>3

\* The loop of generate gives numbers, once it ends.
LEMMA GeneratedType ==
  ASSUME NEW t, NEW r \in Seq(Int), Len(r) >= 2, ~Endless(t, r)
  PROVE  Generate(t, r) \in Seq(Int)
<1> DEFINE E == {n \in 0 .. Turns(t, r) : Leaves(t, r, n)}
           Ends(n) == Leaves(t, r, n) /\ \A m \in 0 .. n - 1 : ~Leaves(t, r, m)
           size == CHOOSE n \in 0 .. Turns(t, r) : Ends(n)
           f == [n \in 1 .. size |-> Nth(t, r, n - 1)]
<1>1. r[1] \in Int /\ r[2] \in Int /\ StepOf(r) \in Int BY DEF StepOf
<1>2. Turns(t, r) \in Int
  <2>1. 2^16 \in Int OBVIOUS
  <2> QED BY <1>1, <2>1 DEF Turns
<1>3. E \in SUBSET Nat /\ E # {} BY <1>2 DEF Endless
<1>4. \E n \in 0 .. Turns(t, r) : Ends(n)
  <2> DEFINE k == Min(E)
  <2>1. k \in E /\ \A m \in E : k <= m
    <3> HIDE DEF E
    <3> QED BY <1>3, LeastOf
  <2> HIDE DEF k
  <2>2. k \in 0 .. Turns(t, r) /\ Leaves(t, r, k) BY <2>1
  <2>3. ASSUME NEW m \in 0 .. k - 1 PROVE ~Leaves(t, r, m)
    <3>1. m \in 0 .. Turns(t, r) /\ ~(k <= m) BY <1>2, <2>2
    <3> QED BY <2>1, <3>1
  <2> QED BY <2>2, <2>3
<1>5. size \in Nat
  <2> HIDE DEF Ends
  <2> QED BY <1>2, <1>4
<1>6. Generate(t, r) = f BY DEF Generate
<1> HIDE DEF size
<1>7. ASSUME NEW n \in 1 .. size PROVE Nth(t, r, n - 1) \in Int
  <2> DEFINE a == Cast(t, r[1])
             d == Cast(t, StepOf(r))
             k == n - 1
  <2>1. a \in Int /\ d \in Int /\ k \in Int BY <1>1, <1>5 DEF Cast
  <2>2. Nth(t, r, k) = Wrapped(t, a + k * d) BY DEF Nth
  <2> HIDE DEF a, d, k
  <2>3. a + k * d \in Int BY <2>1
  <2>4. Nth(t, r, k) \in Int BY <2>2, <2>3, WrappedType
  <2> QED BY <2>4 DEF k
<1>8. f \in [1 .. size -> Int] BY <1>7
<1> QED BY <1>5, <1>6, <1>8, SeqDef

\* parse of a knob: its values are a sequence of numbers, also those of a range.
LEMMA KnobParsed ==
  ASSUME NEW knob \in KnobElement, KnobUnderstood(knob)
  PROVE  ParseKnob(knob) \in ParsedKnob
<1>1. knob.name \in Nat /\ knob.type \in STRING /\ knob.values \in Seq(Int) /\ knob.range \in Seq(Int)
  BY DEF KnobElement
<1>2. CASE ~ComputesRange(knob) BY <1>1, <1>2 DEF ParseKnob, ParsedKnob
<1>3. CASE ComputesRange(knob)
  <2> DEFINE t == Unaliased(knob.type)
             r == knob.range
  <2>1. Len(r) >= 2 /\ ~Endless(t, r) BY <1>3 DEF KnobUnderstood, Computable
  <2> HIDE DEF t
  <2>3. Generate(t, r) \in Seq(Int) BY <1>1, <2>1, GeneratedType
  <2>4. ParseKnob(knob) = [name |-> knob.name, type |-> knob.type, values |-> Generate(t, r)]
    BY <1>3 DEF ParseKnob, t
  <2> QED BY <1>1, <2>3, <2>4 DEF ParsedKnob
<1> QED BY <1>2, <1>3

\* parse of a metric: whether it is a distribution becomes a Boolean.
LEMMA MetricParsed ==
  ASSUME NEW metric \in MetricElement
  PROVE  ParseMetric(metric) \in ParsedMetric
<1> DEFINE d == IsYes(metric.distribution)
<1>1. d \in BOOLEAN BY DEF IsYes
<1>2. ParseMetric(metric) = [metric EXCEPT !.distribution = d] BY DEF ParseMetric
<1> HIDE DEF d
<1> QED BY <1>1, <1>2 DEF MetricElement, ParsedMetric

\* parse of a feature: its comparison becomes one of the three.
LEMMA FeatureParsed ==
  ASSUME NEW feature \in FeatureElement, FeatureUnderstood(feature)
  PROVE  ParseFeature(feature) \in ParsedFeature
<1>1. ComparisonOf(feature.comparison) \in FeatureComparisons
  BY DEF FeatureUnderstood, ComparisonOf, FeatureComparisons
<1> QED BY <1>1 DEF FeatureElement, ParseFeature, ParsedFeature

\* parse of a goal: each text stands for one comparison.
LEMMA GoalFacts ==
  ASSUME NEW text, text \in {GoalNames[g] : g \in DOMAIN GoalNames}
  PROVE  GoalOf(text) \in Goals /\ GoalNames[GoalOf(text)] = text /\ DOMAIN GoalNames = Goals
<1>1. DOMAIN GoalNames = Goals BY DEF GoalNames, Goals
<1>2. \E g \in DOMAIN GoalNames : GoalNames[g] = text OBVIOUS
<1>3. GoalOf(text) \in DOMAIN GoalNames /\ GoalNames[GoalOf(text)] = text
  BY <1>2 DEF GoalOf
<1> QED BY <1>1, <1>3

\* parse of a state: its name is kept, it has the rank of the first kind with fields.
LEMMA StateParsed ==
  ASSUME NEW state \in StateElement, StateUnderstood(state)
  PROVE  ParseState(state) \in ParsedState /\ ParseState(state).name = state.name
<1> DEFINE I == {i \in 1 .. Len(RankKinds) : state.ranks[RankKinds[i]] # {}}
           first == IF I # {} THEN Min(I) ELSE 0
           kind == IF first = 0 THEN NoKind ELSE RankKinds[first]
           rank == IF first = 0 THEN {} ELSE state.ranks[RankKinds[first]]
           cs == [i \in DOMAIN state.constraints |-> ParseConstraint(state.constraints[i])]
<1>1. ParseState(state) = [name |-> state.name, constraints |-> cs, kind |-> kind, rank |-> rank]
  BY DEF ParseState, SelectInSeq, NoKind
<1>2. /\ state.name \in Nat /\ state.ranks \in [Kinds -> SUBSET Nat]
      /\ state.constraints \in Seq(ConstraintElement)
  BY DEF StateElement, Kinds
<1>3. Len(RankKinds) = 4 /\ \A i \in 1 .. 4 : RankKinds[i] # NoKind /\ RankKinds[i] \in Kinds
  BY DEF RankKinds, NoKind, Kinds, ToSet
<1>4. cs \in Seq(ParsedConstraint)
  <2>1. ASSUME NEW i \in DOMAIN state.constraints PROVE cs[i] \in ParsedConstraint
    <3> DEFINE c == state.constraints[i]
    <3>1. c \in ConstraintElement BY <1>2
    <3>2. c.comparison \in {GoalNames[g] : g \in DOMAIN GoalNames} BY DEF StateUnderstood
    <3>3. GoalOf(c.comparison) \in Goals BY <3>2, GoalFacts
    <3>4. cs[i] = [c EXCEPT !.comparison = GoalOf(@)] BY DEF ParseConstraint
    <3> HIDE DEF c, cs
    <3> QED BY <3>1, <3>3, <3>4 DEF ConstraintElement, ParsedConstraint
  <2>2. DOMAIN cs = DOMAIN state.constraints /\ cs = [i \in DOMAIN cs |-> cs[i]] OBVIOUS
  <2>3. DOMAIN state.constraints = 1 .. Len(state.constraints) BY <1>2
  <2> HIDE DEF cs
  <2>4. cs \in [1 .. Len(state.constraints) -> ParsedConstraint] BY <2>1, <2>2, <2>3
  <2> QED BY <1>2, <2>4, SeqDef, LenProperties
<1>5. I \subseteq Nat /\ I \subseteq 1 .. 4 BY <1>3
<1> HIDE DEF cs, I
<1>6. CASE I = {} BY <1>1, <1>2, <1>4, <1>6 DEF ParsedState
<1>7. CASE I # {}
  <2>1. Min(I) \in I BY <1>5, <1>7, LeastOf
  <2>2. first = Min(I) /\ first \in 1 .. 4 /\ state.ranks[RankKinds[first]] # {}
    BY <1>5, <1>7, <2>1 DEF I
  <2> HIDE DEF first
  <2>3. kind = RankKinds[first] /\ kind \in Kinds /\ kind # NoKind /\ rank \in SUBSET Nat /\ rank # {}
    BY <1>2, <1>3, <2>2
  <2> HIDE DEF kind, rank
  <2> QED BY <1>1, <1>2, <1>4, <2>3 DEF ParsedState
<1> QED BY <1>6, <1>7

\* A list that is made element by element.
LEMMA MappedSeq ==
  ASSUME NEW S, NEW T, NEW seq \in Seq(S), NEW f, DOMAIN f = DOMAIN seq, f = [i \in DOMAIN f |-> f[i]],
         \A i \in DOMAIN seq : f[i] \in T
  PROVE  f \in Seq(T) /\ Len(f) = Len(seq)
<1>1. DOMAIN seq = 1 .. Len(seq) /\ Len(seq) \in Nat OBVIOUS
<1>2. f \in [1 .. Len(seq) -> T] BY <1>1
<1> QED BY <1>1, <1>2, SeqDef, LenProperties

\* What std::sort by name returns.
LEMMA SortedFacts ==
  ASSUME NEW S, NEW seq \in Seq(S), NEW s \in SortedByName(seq)
  PROVE  /\ s \in Seq(S) /\ Len(s) = Len(seq) /\ DOMAIN s = DOMAIN seq /\ ToSet(s) = ToSet(seq)
         /\ \A i \in DOMAIN seq : \E j \in DOMAIN seq : s[i] = seq[j]
         /\ \A i \in 1 .. Len(s) - 1 : s[i].name <= s[i + 1].name
<1>1. s \in OrdersOf(seq) /\ \A i \in 1 .. Len(s) - 1 : s[i].name <= s[i + 1].name
  BY DEF SortedByName
<1> QED BY <1>1, OrdersFacts

ByName(seq) == \A i \in 1 .. Len(seq) - 1 : seq[i].name <= seq[i + 1].name

\* parse of all knobs: in the order of their names, each is one of the file.
LEMMA ParsedKnobs ==
  ASSUME NEW file \in Description, BlockUnderstood(file), NEW b \in ParseBlock(file)
  PROVE  /\ b.knobs \in Seq(ParsedKnob) /\ ByName(b.knobs)
         /\ \A i \in DOMAIN b.knobs : \E j \in DOMAIN file.knobs : b.knobs[i] = ParseKnob(file.knobs[j])
<1> DEFINE f == [i \in DOMAIN file.knobs |-> ParseKnob(file.knobs[i])]
<1>1. file.knobs \in Seq(KnobElement) BY DEF Description
<1>2. \A i \in DOMAIN file.knobs : KnobUnderstood(file.knobs[i]) BY DEF BlockUnderstood
<1>3. \A i \in DOMAIN file.knobs : f[i] \in ParsedKnob /\ f[i] = ParseKnob(file.knobs[i])
  BY <1>1, <1>2, KnobParsed
<1>4. b.knobs \in SortedByName(f) BY ParsedBlock
<1>5. DOMAIN f = DOMAIN file.knobs /\ f = [i \in DOMAIN f |-> f[i]] OBVIOUS
<1> HIDE DEF f
<1>6. f \in Seq(ParsedKnob) BY <1>1, <1>3, <1>5, MappedSeq
<1>7. /\ b.knobs \in Seq(ParsedKnob) /\ DOMAIN b.knobs = DOMAIN f /\ ByName(b.knobs)
      /\ \A i \in DOMAIN f : \E j \in DOMAIN f : b.knobs[i] = f[j]
  BY <1>4, <1>6, SortedFacts DEF ByName
<1> QED BY <1>3, <1>5, <1>7

\* parse of all metrics: in the order of their names.
LEMMA ParsedMetrics ==
  ASSUME NEW file \in Description, NEW b \in ParseBlock(file)
  PROVE  b.metrics \in Seq(ParsedMetric) /\ ByName(b.metrics)
<1> DEFINE f == [i \in DOMAIN file.metrics |-> ParseMetric(file.metrics[i])]
<1>1. file.metrics \in Seq(MetricElement) BY DEF Description
<1>2. \A i \in DOMAIN file.metrics : f[i] \in ParsedMetric BY <1>1, MetricParsed
<1>3. b.metrics \in SortedByName(f) BY ParsedBlock
<1>4. DOMAIN f = DOMAIN file.metrics /\ f = [i \in DOMAIN f |-> f[i]] OBVIOUS
<1> HIDE DEF f
<1>5. f \in Seq(ParsedMetric) BY <1>1, <1>2, <1>4, MappedSeq
<1> QED BY <1>3, <1>5, SortedFacts DEF ByName

\* parse of all monitors: in the order of their names.
LEMMA ParsedMonitors ==
  ASSUME NEW file \in Description, NEW b \in ParseBlock(file)
  PROVE  b.monitors \in Seq(MonitorElement) /\ ByName(b.monitors)
<1>1. file.monitors \in Seq(MonitorElement) BY DEF Description
<1>2. b.monitors \in SortedByName(file.monitors) BY ParsedBlock
<1> QED BY <1>1, <1>2, SortedFacts DEF ByName

\* parse of all features: in the order of their names, as many as in the file.
LEMMA ParsedFeatures ==
  ASSUME NEW file \in Description, BlockUnderstood(file), NEW b \in ParseBlock(file)
  PROVE  b.features \in Seq(ParsedFeature) /\ ByName(b.features) /\ DOMAIN b.features = DOMAIN file.features
<1> DEFINE f == [i \in DOMAIN file.features |-> ParseFeature(file.features[i])]
<1>1. file.features \in Seq(FeatureElement) BY DEF Description
<1>2. \A i \in DOMAIN file.features : FeatureUnderstood(file.features[i]) BY DEF BlockUnderstood
<1>3. \A i \in DOMAIN file.features : f[i] \in ParsedFeature BY <1>1, <1>2, FeatureParsed
<1>4. b.features \in SortedByName(f) BY ParsedBlock
<1>5. DOMAIN f = DOMAIN file.features /\ f = [i \in DOMAIN f |-> f[i]] OBVIOUS
<1> HIDE DEF f
<1>6. f \in Seq(ParsedFeature) BY <1>1, <1>3, <1>5, MappedSeq
<1> QED BY <1>4, <1>5, <1>6, SortedFacts DEF ByName

\* parse of all states: in the order of the file.
LEMMA ParsedStates ==
  ASSUME NEW file \in Description, BlockUnderstood(file), NEW b \in ParseBlock(file)
  PROVE  b.states \in Seq(ParsedState)
<1> DEFINE f == [i \in DOMAIN file.states |-> ParseState(file.states[i])]
<1>1. file.states \in Seq(StateElement) BY DEF Description
<1>2. \A i \in DOMAIN file.states : StateUnderstood(file.states[i]) BY DEF BlockUnderstood
<1>3. \A i \in DOMAIN file.states : f[i] \in ParsedState BY <1>1, <1>2, StateParsed
<1>4. b.states = f BY ParsedBlock
<1>5. DOMAIN f = DOMAIN file.states /\ f = [i \in DOMAIN f |-> f[i]] OBVIOUS
<1> HIDE DEF f
<1> QED BY <1>1, <1>3, <1>4, <1>5, MappedSeq

----------------------------------------------------------------------------
(* Names.                                                                  *)

\* set_name gives a name.
LEMMA DefaultNameType ==
  ASSUME NEW s \in Sections, NEW i \in Nat
  PROVE  DefaultName(s, i) \in Nat
<1> DEFINE c == CHOOSE n \in 1 .. 5 : <<"features", "knobs", "metrics", "monitors", "states">>[n] = s
<1>1. \E n \in 1 .. 5 : <<"features", "knobs", "metrics", "monitors", "states">>[n] = s
  BY DEF Sections
<1>2. c \in 1 .. 5 BY <1>1
<1>3. DefaultName(s, i) = 10 * i + c BY DEF DefaultName
<1> HIDE DEF c
<1> QED BY <1>2, <1>3

\* The elements of S have a name, and it can be replaced.
Renamed(x, n) == [x EXCEPT !.name = n]
Nameable(S) == \A x \in S : x.name \in Nat /\ \A n \in Nat : Renamed(x, n) \in S /\ Renamed(x, n).name = n

\* set_name leaves all but empty names alone.
LEMMA SetNamesFacts ==
  ASSUME NEW s \in Sections, NEW S, NEW seq \in Seq(S),
         Nameable(S)
  PROVE  /\ DOMAIN SetNames(seq, s) = DOMAIN seq
         /\ SetNames(seq, s) = [i \in DOMAIN SetNames(seq, s) |-> SetNames(seq, s)[i]]
         /\ SetNames(seq, s) \in Seq(S) /\ Len(SetNames(seq, s)) = Len(seq)
         /\ \A i \in DOMAIN seq :
              \/ seq[i].name # 0 /\ SetNames(seq, s)[i] = seq[i]
              \/ /\ seq[i].name = 0 /\ DefaultName(s, i) \in Nat
                 /\ SetNames(seq, s)[i] = Renamed(seq[i], DefaultName(s, i))
                 /\ SetNames(seq, s)[i].name = DefaultName(s, i)
<1>1. \A i \in DOMAIN seq : i \in Nat /\ seq[i] \in S /\ DefaultName(s, i) \in Nat
  BY DefaultNameType
<1>2. SetNames(seq, s) = [i \in DOMAIN seq |->
        IF seq[i].name = 0 THEN Renamed(seq[i], DefaultName(s, i)) ELSE seq[i]]
  BY DEF SetNames, Renamed
<1> DEFINE t == SetNames(seq, s)
<1>3. DOMAIN t = DOMAIN seq /\ t = [i \in DOMAIN t |-> t[i]] BY <1>2
<1>4. ASSUME NEW i \in DOMAIN seq
      PROVE  /\ t[i] \in S
             /\ \/ seq[i].name # 0 /\ t[i] = seq[i]
                \/ /\ seq[i].name = 0 /\ DefaultName(s, i) \in Nat
                   /\ t[i] = Renamed(seq[i], DefaultName(s, i)) /\ t[i].name = DefaultName(s, i)
  <2>1. i \in Nat /\ seq[i] \in S /\ DefaultName(s, i) \in Nat BY <1>1
  <2>2. Renamed(seq[i], DefaultName(s, i)) \in S /\ Renamed(seq[i], DefaultName(s, i)).name = DefaultName(s, i)
    BY <2>1 DEF Nameable
  <2>3. CASE seq[i].name = 0
    <3>1. t[i] = Renamed(seq[i], DefaultName(s, i)) BY <1>2, <2>3
    <3> HIDE DEF t
    <3> QED BY <2>1, <2>2, <2>3, <3>1
  <2>4. CASE seq[i].name # 0
    <3>1. t[i] = seq[i] BY <1>2, <2>4
    <3> QED BY <2>1, <2>4, <3>1
  <2> QED BY <2>3, <2>4
<1> HIDE DEF t
<1>5. t \in Seq(S) /\ Len(t) = Len(seq) BY <1>3, <1>4, MappedSeq
<1> QED BY <1>3, <1>4, <1>5 DEF t

\* Every section that parse returns has names that can be replaced.
LEMMA AllNameable ==
  /\ Nameable(ParsedKnob) /\ Nameable(ParsedMetric) /\ Nameable(MonitorElement) /\ Nameable(ParsedFeature)
  /\ Nameable(ParsedState)
<1>1. Nameable(ParsedKnob) BY DEF Nameable, Renamed, ParsedKnob
<1>2. Nameable(ParsedMetric) BY DEF Nameable, Renamed, ParsedMetric
<1>3. Nameable(MonitorElement) BY DEF Nameable, Renamed, MonitorElement
<1>4. Nameable(ParsedFeature) BY DEF Nameable, Renamed, ParsedFeature
<1>5. Nameable(ParsedState) BY DEF Nameable, Renamed, ParsedState
<1> QED BY <1>1, <1>2, <1>3, <1>4, <1>5

\* What validate replaces in an element beside its name.
Retyped(x) == [x EXCEPT !.type = Unaliased(@)]
Defaulted(x) == [x EXCEPT !.parameters = SpecOf(x.type)]

\* sanitize_type replaces the type of an element and keeps the rest.
LEMMA RetypedFacts ==
  /\ \A x \in ParsedKnob : Retyped(x) = [name |-> x.name, type |-> Unaliased(x.type), values |-> x.values]
  /\ \A x \in ParsedMetric :
       Retyped(x) = [name |-> x.name, type |-> Unaliased(x.type), monitor |-> x.monitor, plugin |-> x.plugin,
                     parameters |-> x.parameters, reactive |-> x.reactive, distribution |-> x.distribution]
  /\ \A x \in ParsedFeature :
       Retyped(x) = [name |-> x.name, type |-> Unaliased(x.type), comparison |-> x.comparison]
  /\ \A x \in MonitorElement : Defaulted(x).name = x.name
<1>1. \A x \in ParsedKnob : Retyped(x) = [name |-> x.name, type |-> Unaliased(x.type), values |-> x.values]
  BY DEF Retyped, ParsedKnob
<1>2. \A x \in ParsedMetric :
       Retyped(x) = [name |-> x.name, type |-> Unaliased(x.type), monitor |-> x.monitor, plugin |-> x.plugin,
                     parameters |-> x.parameters, reactive |-> x.reactive, distribution |-> x.distribution]
  BY DEF Retyped, ParsedMetric
<1>3. \A x \in ParsedFeature :
       Retyped(x) = [name |-> x.name, type |-> Unaliased(x.type), comparison |-> x.comparison]
  BY DEF Retyped, ParsedFeature
<1>4. \A x \in MonitorElement : Defaulted(x).name = x.name
  BY DEF Defaulted, MonitorElement
<1> QED BY <1>1, <1>2, <1>3, <1>4

\* Sanitized and WithDefaults go element by element.
LEMMA SanitizedIs ==
  ASSUME NEW seq
  PROVE  /\ Sanitized(seq) = [i \in DOMAIN seq |-> Retyped(seq[i])]
         /\ WithDefaults(seq) = [i \in DOMAIN seq |-> Defaulted(seq[i])]
BY DEF Sanitized, WithDefaults, Retyped, Defaulted

----------------------------------------------------------------------------
(* The block that validate accepts.                                        *)

TypedKnob == [name : Nat, type : TypeNames, values : Seq(Int)]
TypedMetric ==
  [name : Nat, type : TypeNames, monitor : Nat, plugin : BOOLEAN, parameters : BOOLEAN, reactive : BOOLEAN,
   distribution : BOOLEAN]
TypedFeature == [name : Nat, type : TypeNames, comparison : FeatureComparisons]

\* sanitize_type gives a type one of a dozen names, or none.
LEMMA UnaliasedFacts ==
  ASSUME NEW t, Understood(t)
  PROVE  Unaliased(t) \in TypeNames
BY DEF Understood, Unaliased

\* set_name leaves what else an element has alone.
LEMMA RenamedFacts ==
  /\ \A x \in ParsedKnob : \A n \in Nat : Renamed(x, n).type = x.type /\ Renamed(x, n).values = x.values
  /\ \A x \in ParsedMetric : \A n \in Nat : Renamed(x, n).type = x.type
  /\ \A x \in ParsedFeature : \A n \in Nat : Renamed(x, n).type = x.type
<1>1. \A x \in ParsedKnob : \A n \in Nat : Renamed(x, n).type = x.type /\ Renamed(x, n).values = x.values
  BY DEF Renamed, ParsedKnob
<1>2. \A x \in ParsedMetric : \A n \in Nat : Renamed(x, n).type = x.type BY DEF Renamed, ParsedMetric
<1>3. \A x \in ParsedFeature : \A n \in Nat : Renamed(x, n).type = x.type BY DEF Renamed, ParsedFeature
<1> QED BY <1>1, <1>2, <1>3

\* The knobs that validate accepts have types of the list and the values of the
\* parser.
LEMMA TypedKnobs ==
  ASSUME NEW seq \in Seq(ParsedKnob), \A t \in ToSet(TypesOf(seq)) : Understood(t)
  PROVE  LET v == Sanitized(SetNames(seq, "knobs"))
         IN  /\ v \in Seq(TypedKnob) /\ DOMAIN v = DOMAIN seq
             /\ \A i \in DOMAIN seq : v[i].type = Unaliased(seq[i].type) /\ v[i].values = seq[i].values
<1> DEFINE t == SetNames(seq, "knobs")
           v == Sanitized(t)
<1>1. /\ DOMAIN t = DOMAIN seq /\ t \in Seq(ParsedKnob)
      /\ \A i \in DOMAIN seq : \/ t[i] = seq[i]
                               \/ DefaultName("knobs", i) \in Nat /\ t[i] = Renamed(seq[i], DefaultName("knobs", i))
  BY AllNameable, SetNamesFacts DEF Sections
<1>2. v = [i \in DOMAIN t |-> Retyped(t[i])] BY SanitizedIs
<1> HIDE DEF t
<1>3. ASSUME NEW i \in DOMAIN seq
      PROVE  v[i] \in TypedKnob /\ v[i].type = Unaliased(seq[i].type) /\ v[i].values = seq[i].values
  <2>1. seq[i] \in ParsedKnob /\ t[i] \in ParsedKnob BY <1>1
  <2>2. t[i].type = seq[i].type /\ t[i].values = seq[i].values
    <3>1. CASE t[i] = seq[i] BY <3>1
    <3>2. CASE DefaultName("knobs", i) \in Nat /\ t[i] = Renamed(seq[i], DefaultName("knobs", i))
      BY <2>1, <3>2, RenamedFacts
    <3> QED BY <1>1, <3>1, <3>2
  <2>3. Understood(seq[i].type) BY DEF TypesOf, ToSet
  <2>4. Unaliased(seq[i].type) \in TypeNames BY <2>3, UnaliasedFacts
  <2>5. v[i] = [name |-> t[i].name, type |-> Unaliased(t[i].type), values |-> t[i].values]
    BY <1>1, <1>2, <2>1, RetypedFacts
  <2>6. t[i].name \in Nat /\ t[i].values \in Seq(Int) BY <2>1 DEF ParsedKnob
  <2> HIDE DEF v
  <2> QED BY <2>2, <2>4, <2>5, <2>6 DEF TypedKnob
<1>4. DOMAIN v = DOMAIN seq /\ v = [i \in DOMAIN v |-> v[i]] BY <1>1, <1>2
<1> HIDE DEF v
<1>5. v \in Seq(TypedKnob) BY <1>3, <1>4, MappedSeq
<1> QED BY <1>3, <1>4, <1>5 DEF v, t

\* The metrics that validate accepts have types of the list.
LEMMA TypedMetrics ==
  ASSUME NEW seq \in Seq(ParsedMetric), \A t \in ToSet(TypesOf(seq)) : Understood(t)
  PROVE  LET v == Sanitized(SetNames(seq, "metrics"))
         IN  v \in Seq(TypedMetric) /\ DOMAIN v = DOMAIN seq
<1> DEFINE t == SetNames(seq, "metrics")
           v == Sanitized(t)
<1>1. /\ DOMAIN t = DOMAIN seq /\ t \in Seq(ParsedMetric)
      /\ \A i \in DOMAIN seq :
           \/ t[i] = seq[i]
           \/ DefaultName("metrics", i) \in Nat /\ t[i] = Renamed(seq[i], DefaultName("metrics", i))
  BY AllNameable, SetNamesFacts DEF Sections
<1>2. v = [i \in DOMAIN t |-> Retyped(t[i])] BY SanitizedIs
<1> HIDE DEF t
<1>3. ASSUME NEW i \in DOMAIN seq PROVE v[i] \in TypedMetric
  <2>1. seq[i] \in ParsedMetric /\ t[i] \in ParsedMetric BY <1>1
  <2>2. t[i].type = seq[i].type
    <3>1. CASE t[i] = seq[i] BY <3>1
    <3>2. CASE DefaultName("metrics", i) \in Nat /\ t[i] = Renamed(seq[i], DefaultName("metrics", i))
      BY <2>1, <3>2, RenamedFacts
    <3> QED BY <1>1, <3>1, <3>2
  <2>3. Understood(seq[i].type) BY DEF TypesOf, ToSet
  <2>4. Unaliased(t[i].type) \in TypeNames BY <2>2, <2>3, UnaliasedFacts
  <2> DEFINE m == t[i]
  <2>5. v[i] = [name |-> m.name, type |-> Unaliased(m.type), monitor |-> m.monitor, plugin |-> m.plugin,
                parameters |-> m.parameters, reactive |-> m.reactive, distribution |-> m.distribution]
    BY <1>1, <1>2, <2>1, RetypedFacts
  <2> HIDE DEF v
  <2> QED BY <2>1, <2>4, <2>5 DEF TypedMetric, ParsedMetric
<1>4. DOMAIN v = DOMAIN seq /\ v = [i \in DOMAIN v |-> v[i]] BY <1>1, <1>2
<1> HIDE DEF v
<1>5. v \in Seq(TypedMetric) BY <1>3, <1>4, MappedSeq
<1> QED BY <1>4, <1>5 DEF v, t

\* The features that validate accepts have types of the list, and there are as many.
LEMMA TypedFeatures ==
  ASSUME NEW seq \in Seq(ParsedFeature), \A t \in ToSet(TypesOf(seq)) : Understood(t)
  PROVE  LET v == Sanitized(SetNames(seq, "features"))
         IN  v \in Seq(TypedFeature) /\ DOMAIN v = DOMAIN seq
<1> DEFINE t == SetNames(seq, "features")
           v == Sanitized(t)
<1>1. /\ DOMAIN t = DOMAIN seq /\ t \in Seq(ParsedFeature)
      /\ \A i \in DOMAIN seq :
           \/ t[i] = seq[i]
           \/ DefaultName("features", i) \in Nat /\ t[i] = Renamed(seq[i], DefaultName("features", i))
  BY AllNameable, SetNamesFacts DEF Sections
<1>2. v = [i \in DOMAIN t |-> Retyped(t[i])] BY SanitizedIs
<1> HIDE DEF t
<1>3. ASSUME NEW i \in DOMAIN seq PROVE v[i] \in TypedFeature
  <2>1. seq[i] \in ParsedFeature /\ t[i] \in ParsedFeature BY <1>1
  <2>2. t[i].type = seq[i].type
    <3>1. CASE t[i] = seq[i] BY <3>1
    <3>2. CASE DefaultName("features", i) \in Nat /\ t[i] = Renamed(seq[i], DefaultName("features", i))
      BY <2>1, <3>2, RenamedFacts
    <3> QED BY <1>1, <3>1, <3>2
  <2>3. Understood(seq[i].type) BY DEF TypesOf, ToSet
  <2>4. Unaliased(t[i].type) \in TypeNames BY <2>2, <2>3, UnaliasedFacts
  <2>5. v[i] = [name |-> t[i].name, type |-> Unaliased(t[i].type), comparison |-> t[i].comparison]
    BY <1>1, <1>2, <2>1, RetypedFacts
  <2> HIDE DEF v
  <2> QED BY <2>1, <2>4, <2>5 DEF TypedFeature, ParsedFeature
<1>4. DOMAIN v = DOMAIN seq /\ v = [i \in DOMAIN v |-> v[i]] BY <1>1, <1>2
<1> HIDE DEF v
<1>5. v \in Seq(TypedFeature) BY <1>3, <1>4, MappedSeq
<1> QED BY <1>4, <1>5 DEF v, t

\* Everything the generators rely on.
ValidBlock(v, file) ==
  /\ DOMAIN v = Tags
  /\ v.knobs \in Seq(TypedKnob) /\ v.metrics \in Seq(TypedMetric) /\ v.features \in Seq(TypedFeature)
  /\ v.states \in Seq(ParsedState)
  /\ DOMAIN v.features = DOMAIN file.features
  /\ \A i \in DOMAIN v.knobs : \E j \in DOMAIN file.knobs :
       v.knobs[i].type = Unaliased(file.knobs[j].type) /\ v.knobs[i].values = ParseKnob(file.knobs[j]).values
  /\ v.distance \in {"EUCLIDEAN", "NORMALIZED", "NONE"}
  /\ v.segments \in SegmentsOf(v) /\ ValidateAgora(v)
  /\ (v.knobs = <<>>) = (v.metrics = <<>>)

\* validate establishes all of it.
LEMMA ValidatedSections ==
  ASSUME NEW file \in Description, BlockUnderstood(file), NEW v, Validated(v, file)
  PROVE  ValidBlock(v, file)
<1>1. PICK b \in ParseBlock(file) :
        Accepted(b) /\ \E types \in SegmentsOf(Typed(b)) : v = Segmented(b, types)
  BY DEF Validated
<1>2. PICK types \in SegmentsOf(Typed(b)) : v = Segmented(b, types) BY <1>1
<1>3. DOMAIN b = Tags /\ b.distance = DistanceOf(file.distance) BY ParsedBlock
<1>4. /\ DOMAIN v = Tags
      /\ v.knobs = Sanitized(SetNames(b.knobs, "knobs"))
      /\ v.metrics = Sanitized(SetNames(b.metrics, "metrics"))
      /\ v.features = Sanitized(SetNames(b.features, "features"))
      /\ v.states = SetNames(b.states, "states")
      /\ v.distance = b.distance /\ v.segments = types
      /\ \A s \in Tags \ {"segments"} : v[s] = Typed(b)[s]
  BY <1>2, <1>3, ValidatedBlock
<1>5. /\ b.knobs \in Seq(ParsedKnob) /\ b.metrics \in Seq(ParsedMetric)
      /\ b.features \in Seq(ParsedFeature) /\ b.states \in Seq(ParsedState)
      /\ DOMAIN b.features = DOMAIN file.features
      /\ \A i \in DOMAIN b.knobs : \E j \in DOMAIN file.knobs : b.knobs[i] = ParseKnob(file.knobs[j])
  BY ParsedKnobs, ParsedMetrics, ParsedFeatures, ParsedStates
<1>6. \A s \in {"knobs", "metrics", "features"} : \A t \in ToSet(TypesOf(b[s])) : Understood(t)
  BY <1>1 DEF Accepted
<1>7. /\ v.knobs \in Seq(TypedKnob) /\ DOMAIN v.knobs = DOMAIN b.knobs
      /\ \A i \in DOMAIN b.knobs :
           v.knobs[i].type = Unaliased(b.knobs[i].type) /\ v.knobs[i].values = b.knobs[i].values
  BY <1>4, <1>5, <1>6, TypedKnobs
<1>8. v.metrics \in Seq(TypedMetric) BY <1>4, <1>5, <1>6, TypedMetrics
<1>9. v.features \in Seq(TypedFeature) /\ DOMAIN v.features = DOMAIN file.features
  BY <1>4, <1>5, <1>6, TypedFeatures
<1>10. v.states \in Seq(ParsedState) BY <1>4, <1>5, AllNameable, SetNamesFacts DEF Sections
<1>11. v.distance \in {"EUCLIDEAN", "NORMALIZED", "NONE"}
  BY <1>3, <1>4 DEF BlockUnderstood, DistanceOf
<1>12. /\ v.knobs = Typed(b).knobs /\ v.metrics = Typed(b).metrics /\ v.features = Typed(b).features
       /\ v.agora = Typed(b).agora
  BY <1>4 DEF Tags
<1>13. v.segments \in SegmentsOf(v)
  BY <1>2, <1>4, <1>12 DEF SegmentsOf, KnobTypes
<1>14. ValidateAgora(v) /\ (v.knobs = <<>>) = (v.metrics = <<>>)
  BY <1>1, <1>12 DEF Accepted, ValidateAgora, WithAgora
<1>15. ASSUME NEW i \in DOMAIN v.knobs
       PROVE  \E j \in DOMAIN file.knobs :
                /\ v.knobs[i].type = Unaliased(file.knobs[j].type)
                /\ v.knobs[i].values = ParseKnob(file.knobs[j]).values
  <2>1. PICK j \in DOMAIN file.knobs : b.knobs[i] = ParseKnob(file.knobs[j]) BY <1>5, <1>7
  <2>2. ParseKnob(file.knobs[j]).type = file.knobs[j].type BY DEF ParseKnob
  <2>3. v.knobs[i].type = Unaliased(b.knobs[i].type) /\ v.knobs[i].values = b.knobs[i].values BY <1>7
  <2> QED BY <2>1, <2>2, <2>3
<1> QED BY <1>4, <1>7, <1>8, <1>9, <1>10, <1>11, <1>13, <1>14, <1>15 DEF ValidBlock

----------------------------------------------------------------------------
(* What Agora reads back.                                                  *)

\* compose of the distance.
DistanceText(v) ==
  IF v.features = <<>> THEN ""
  ELSE CHOOSE text \in {"euclidean", "normalized", ""} : DistanceOf(text) = v.distance

\* compose writes the sections one by one.
LEMMA ComposedBlock ==
  ASSUME NEW v, DOMAIN v = Tags
  PROVE  /\ DOMAIN Compose(v) = Tags
         /\ Compose(v).knobs = [i \in DOMAIN v.knobs |-> ComposeKnob(v.knobs[i])]
         /\ Compose(v).metrics = [i \in DOMAIN v.metrics |-> ComposeMetric(v.metrics[i])]
         /\ Compose(v).features = [i \in DOMAIN v.features |-> ComposeFeature(v.features[i])]
         /\ Compose(v).states = [i \in DOMAIN v.states |-> ComposeState(v.states[i])]
         /\ Compose(v).distance = DistanceText(v)
<1> DEFINE ks == [i \in DOMAIN v.knobs |-> ComposeKnob(v.knobs[i])]
           ms == [i \in DOMAIN v.metrics |-> ComposeMetric(v.metrics[i])]
           fs == [i \in DOMAIN v.features |-> ComposeFeature(v.features[i])]
           ss == [i \in DOMAIN v.states |-> ComposeState(v.states[i])]
           dd == DistanceText(v)
<1>1. Compose(v) = [v EXCEPT !.knobs = ks, !.metrics = ms, !.features = fs, !.states = ss, !.distance = dd]
  BY DEF Compose, Each, DistanceText
<1> HIDE DEF ks, ms, fs, ss, dd
<1>2. /\ DOMAIN Compose(v) = Tags /\ Compose(v).knobs = ks /\ Compose(v).metrics = ms
      /\ Compose(v).features = fs /\ Compose(v).states = ss /\ Compose(v).distance = dd
  BY <1>1 DEF Tags
<1> QED BY <1>2 DEF ks, ms, fs, ss, dd

\* A knob that compose writes is read as it was.
LEMMA KnobRoundTrip ==
  ASSUME NEW k \in TypedKnob
  PROVE  KnobUnderstood(ComposeKnob(k)) /\ ParseKnob(ComposeKnob(k)) = k
BY DEF TypedKnob, ComposeKnob, KnobUnderstood, ParseKnob, ComputesRange

\* A metric that compose writes is read as it was.
LEMMA MetricRoundTrip ==
  ASSUME NEW m \in TypedMetric
  PROVE  MetricUnderstood(ComposeMetric(m)) /\ ParseMetric(ComposeMetric(m)) = m
<1> DEFINE text == IF m.distribution THEN "true" ELSE "false"
           c == [m EXCEPT !.distribution = text]
<1>1. ComposeMetric(m) = c BY DEF ComposeMetric
<1>2. m.distribution \in BOOLEAN BY DEF TypedMetric
<1>3. IsYes(text) = m.distribution /\ (IsYes(text) \/ IsNo(text)) BY <1>2 DEF IsYes, IsNo
<1> HIDE DEF text
<1>4. c.distribution = text BY DEF TypedMetric
<1>5. ParseMetric(c) = [c EXCEPT !.distribution = IsYes(text)] BY <1>4 DEF ParseMetric
<1>6. [c EXCEPT !.distribution = m.distribution] = m BY DEF TypedMetric
<1> QED BY <1>1, <1>3, <1>4, <1>5, <1>6 DEF MetricUnderstood

\* A feature that compose writes is read as it was.
LEMMA FeatureRoundTrip ==
  ASSUME NEW f \in TypedFeature
  PROVE  FeatureUnderstood(ComposeFeature(f)) /\ ParseFeature(ComposeFeature(f)) = f
<1> DEFINE text == CHOOSE t \in {"le", "ge", "-"} : ComparisonOf(t) = f.comparison
           c == [f EXCEPT !.comparison = text]
<1>1. ComposeFeature(f) = c BY DEF ComposeFeature
<1>2. \E t \in {"le", "ge", "-"} : ComparisonOf(t) = f.comparison
  <2>1. f.comparison \in FeatureComparisons BY DEF TypedFeature
  <2>2. /\ ComparisonOf("le") = "LESS_OR_EQUAL" /\ ComparisonOf("ge") = "GREATER_OR_EQUAL"
        /\ ComparisonOf("-") = "DONT_CARE"
    BY DEF ComparisonOf
  <2> QED BY <2>1, <2>2 DEF FeatureComparisons
<1>3. text \in {"le", "ge", "-"} /\ ComparisonOf(text) = f.comparison BY <1>2
<1> HIDE DEF text
<1>4. c.comparison = text BY DEF TypedFeature
<1>5. ParseFeature(c) = [c EXCEPT !.comparison = ComparisonOf(text)] BY <1>4 DEF ParseFeature
<1>6. [c EXCEPT !.comparison = f.comparison] = f BY DEF TypedFeature
<1> QED BY <1>1, <1>3, <1>4, <1>5, <1>6 DEF FeatureUnderstood

\* A goal is written under the name it is read by.
LEMMA StateComposed ==
  ASSUME NEW state \in ParsedState
  PROVE  StateUnderstood(ComposeState(state))
<1>1. state.constraints \in Seq(ParsedConstraint) BY DEF ParsedState
<1>2. ComposeState(state).constraints = [i \in DOMAIN state.constraints |-> ComposeConstraint(state.constraints[i])]
  BY DEF ComposeState
<1>3. ASSUME NEW i \in DOMAIN state.constraints
      PROVE  ComposeConstraint(state.constraints[i]).comparison \in {GoalNames[g] : g \in DOMAIN GoalNames}
  <2> DEFINE c == state.constraints[i]
  <2>1. c \in ParsedConstraint BY <1>1
  <2> HIDE DEF c
  <2>2. ComposeConstraint(c).comparison = GoalNames[c.comparison] BY <2>1 DEF ComposeConstraint, ParsedConstraint
  <2>3. c.comparison \in DOMAIN GoalNames BY <2>1 DEF ParsedConstraint, Goals, GoalNames
  <2> QED BY <2>2, <2>3 DEF c
<1> QED BY <1>2, <1>3 DEF StateUnderstood

\* A number fits in a segment of its own type.
LEMMA HoldsItself ==
  ASSUME NEW u \in Numeric
  PROVE  Holds(u, u)
<1>1. PICK p \in Promotions : u \in ToSet(p) BY DEF Numeric
<1>2. \E S : p \in Seq(S)
  <2>1. <<"int8_t", "int16_t", "int32_t", "int64_t">> \in Seq({"int8_t", "int16_t", "int32_t", "int64_t"}) OBVIOUS
  <2>2. <<"uint8_t", "uint16_t", "uint32_t", "uint64_t">> \in Seq({"uint8_t", "uint16_t", "uint32_t", "uint64_t"})
    OBVIOUS
  <2>3. <<"float", "double", "long double">> \in Seq({"float", "double", "long double"}) OBVIOUS
  <2> QED BY <2>1, <2>2, <2>3, Zenon DEF Promotions
<1>3. DOMAIN p = 1 .. Len(p) /\ Len(p) \in Nat BY <1>2
<1>4. \E n \in 1 .. Len(p) : p[n] = u BY <1>1, <1>3 DEF ToSet
<1>5. PICK n \in 1 .. Len(p) : p[n] = u BY <1>4
<1>6. n <= n BY <1>3
<1> QED BY <1>3, <1>5, <1>6 DEF Holds

\* type_sorter: the type of a segment holds those of its fields, all numbers.
LEMMA SegmentHolds ==
  ASSUME NEW types, IsFiniteSet(DOMAIN types), NEW t \in SegmentTypeOf(types), t # "",
         NEW u \in ToSet(types), u # "string", u \in TypeNames
  PROVE  Holds(t, u)
<1>1. CASE Cardinality(DOMAIN types) # 1 BY <1>1 DEF SegmentTypeOf
<1>2. CASE Cardinality(DOMAIN types) = 1
  <2>1. PICK x : DOMAIN types = {x} BY <1>2, FS_Singleton
  <2>2. t = types[x] /\ u = types[x] BY <1>2, <2>1 DEF SegmentTypeOf, ToSet
  <2>3. u \in Numeric BY <2>2 DEF TypeNames
  <2> QED BY <2>2, <2>3, HoldsItself
<1> QED BY <1>1, <1>2

\* The types of a list, and those of the knobs that are not strings.
LEMMA FieldTypes ==
  ASSUME NEW S, NEW seq \in Seq(S), NEW i \in DOMAIN seq
  PROVE  IsFiniteSet(DOMAIN TypesOf(seq)) /\ seq[i].type \in ToSet(TypesOf(seq)) /\ seq # <<>>
<1>1. DOMAIN TypesOf(seq) = 1 .. Len(seq) /\ Len(seq) \in Nat BY DEF TypesOf
<1>2. IsFiniteSet(1 .. Len(seq)) BY <1>1, FS_Interval
<1> QED BY <1>1, <1>2 DEF TypesOf, ToSet

\* The type of a knob that is not a string is one of those its segment is chosen from.
LEMMA KnobFieldTypes ==
  ASSUME NEW v, NEW S, v.knobs \in Seq(S), NEW i \in DOMAIN v.knobs, v.knobs[i].type # "string"
  PROVE  IsFiniteSet(DOMAIN KnobTypes(v)) /\ v.knobs[i].type \in ToSet(KnobTypes(v))
<1> DEFINE types == TypesOf(v.knobs)
           D == {x \in DOMAIN types : types[x] # "string"}
           r == [x \in D |-> types[x]]
<1>1. IsFiniteSet(DOMAIN types) /\ DOMAIN types = DOMAIN v.knobs /\ types[i] = v.knobs[i].type
  BY FieldTypes DEF TypesOf
<1>2. KnobTypes(v) = IF DOMAIN r = {} THEN <<"int32_t">> ELSE r
  BY DEF KnobTypes, RestrictValues, Restrict
<1> HIDE DEF types
<1>3. i \in D BY <1>1
<1>4. IsFiniteSet(D) BY <1>1, FS_Subset
<1>5. KnobTypes(v) = r /\ DOMAIN r = D /\ r[i] = types[i] BY <1>2, <1>3
<1> HIDE DEF r
<1> QED BY <1>1, <1>3, <1>4, <1>5 DEF ToSet

\* Sorting again what was read back.
LEMMA ReadBack ==
  ASSUME NEW S, NEW seq \in Seq(S), NEW f, DOMAIN f = DOMAIN seq, f = [i \in DOMAIN f |-> f[i]],
         \A i \in DOMAIN seq : f[i] = seq[i], NEW d \in SortedByName(f)
  PROVE  d \in Seq(S) /\ ToSet(d) = ToSet(seq)
<1>1. DOMAIN seq = 1 .. Len(seq) /\ seq = [i \in DOMAIN seq |-> seq[i]] OBVIOUS
<1>2. f = seq BY <1>1
<1> QED BY <1>2, SortedFacts

\* Agora understands the description, and its knobs, metrics and features are those of
\* the block.
LEMMA DescriptionReadBack ==
  ASSUME NEW file, NEW v, ValidBlock(v, file)
  PROVE  /\ BlockUnderstood(Compose(v))
         /\ \A d \in ParseBlock(Compose(v)) : \A s \in {"knobs", "metrics", "features"} :
              ToSet(d[s]) = ToSet(v[s])
<1> DEFINE c == Compose(v)
           ks == [i \in DOMAIN c.knobs |-> ParseKnob(c.knobs[i])]
           ms == [i \in DOMAIN c.metrics |-> ParseMetric(c.metrics[i])]
           fs == [i \in DOMAIN c.features |-> ParseFeature(c.features[i])]
<1>1. /\ DOMAIN v = Tags /\ v.knobs \in Seq(TypedKnob) /\ v.metrics \in Seq(TypedMetric)
      /\ v.features \in Seq(TypedFeature) /\ v.states \in Seq(ParsedState)
      /\ v.distance \in {"EUCLIDEAN", "NORMALIZED", "NONE"}
  BY DEF ValidBlock
<1>2. DOMAIN c = Tags /\ c.distance = DistanceText(v) BY <1>1, ComposedBlock
<1>k. c.knobs = [i \in DOMAIN v.knobs |-> ComposeKnob(v.knobs[i])] BY <1>1, ComposedBlock
<1>m. c.metrics = [i \in DOMAIN v.metrics |-> ComposeMetric(v.metrics[i])] BY <1>1, ComposedBlock
<1>f. c.features = [i \in DOMAIN v.features |-> ComposeFeature(v.features[i])] BY <1>1, ComposedBlock
<1>s. c.states = [i \in DOMAIN v.states |-> ComposeState(v.states[i])] BY <1>1, ComposedBlock
<1> HIDE DEF c
<1>3. c.distance \in {"", "euclidean", "normalized"}
  <2>1. DistanceOf("euclidean") = "EUCLIDEAN" /\ DistanceOf("normalized") = "NORMALIZED" /\ DistanceOf("") = "NONE"
    BY DEF DistanceOf
  <2>2. \E text \in {"euclidean", "normalized", ""} : DistanceOf(text) = v.distance BY <1>1, <2>1
  <2>3. (CHOOSE text \in {"euclidean", "normalized", ""} : DistanceOf(text) = v.distance)
           \in {"euclidean", "normalized", ""}
    BY <2>2
  <2> QED BY <1>2, <2>3 DEF DistanceText
<1>4. \A i \in DOMAIN v.knobs : KnobUnderstood(c.knobs[i]) /\ ParseKnob(c.knobs[i]) = v.knobs[i]
  <2> SUFFICES ASSUME NEW i \in DOMAIN v.knobs
               PROVE  KnobUnderstood(c.knobs[i]) /\ ParseKnob(c.knobs[i]) = v.knobs[i]
    OBVIOUS
  <2>1. c.knobs[i] = ComposeKnob(v.knobs[i]) BY <1>k
  <2>2. v.knobs[i] \in TypedKnob BY <1>1
  <2> QED BY <2>1, <2>2, KnobRoundTrip
<1>5. \A i \in DOMAIN v.metrics : MetricUnderstood(c.metrics[i]) /\ ParseMetric(c.metrics[i]) = v.metrics[i]
  <2> SUFFICES ASSUME NEW i \in DOMAIN v.metrics
               PROVE  MetricUnderstood(c.metrics[i]) /\ ParseMetric(c.metrics[i]) = v.metrics[i]
    OBVIOUS
  <2>1. c.metrics[i] = ComposeMetric(v.metrics[i]) BY <1>m
  <2>2. v.metrics[i] \in TypedMetric BY <1>1
  <2> QED BY <2>1, <2>2, MetricRoundTrip
<1>6. \A i \in DOMAIN v.features : FeatureUnderstood(c.features[i]) /\ ParseFeature(c.features[i]) = v.features[i]
  <2> SUFFICES ASSUME NEW i \in DOMAIN v.features
               PROVE  FeatureUnderstood(c.features[i]) /\ ParseFeature(c.features[i]) = v.features[i]
    OBVIOUS
  <2>1. c.features[i] = ComposeFeature(v.features[i]) BY <1>f
  <2>2. v.features[i] \in TypedFeature BY <1>1
  <2> QED BY <2>1, <2>2, FeatureRoundTrip
<1>7. \A i \in DOMAIN v.states : StateUnderstood(c.states[i])
  <2> SUFFICES ASSUME NEW i \in DOMAIN v.states PROVE StateUnderstood(c.states[i]) OBVIOUS
  <2>1. c.states[i] = ComposeState(v.states[i]) BY <1>s
  <2>2. v.states[i] \in ParsedState BY <1>1
  <2> QED BY <2>1, <2>2, StateComposed
<1>8. /\ DOMAIN c.knobs = DOMAIN v.knobs /\ DOMAIN c.metrics = DOMAIN v.metrics
      /\ DOMAIN c.features = DOMAIN v.features /\ DOMAIN c.states = DOMAIN v.states
  BY <1>k, <1>m, <1>f, <1>s
<1>9. BlockUnderstood(c) BY <1>3, <1>4, <1>5, <1>6, <1>7, <1>8 DEF BlockUnderstood
<1>10. ASSUME NEW d \in ParseBlock(c)
       PROVE  /\ ToSet(d.knobs) = ToSet(v.knobs) /\ ToSet(d.metrics) = ToSet(v.metrics)
              /\ ToSet(d.features) = ToSet(v.features)
  <2>1. d.knobs \in SortedByName(ks) /\ d.metrics \in SortedByName(ms) /\ d.features \in SortedByName(fs)
    BY <1>2, ParsedTags
  <2>2. DOMAIN ks = DOMAIN v.knobs /\ ks = [i \in DOMAIN ks |-> ks[i]] /\ \A i \in DOMAIN v.knobs : ks[i] = v.knobs[i]
    BY <1>4, <1>8
  <2>3. /\ DOMAIN ms = DOMAIN v.metrics /\ ms = [i \in DOMAIN ms |-> ms[i]]
        /\ \A i \in DOMAIN v.metrics : ms[i] = v.metrics[i]
    BY <1>5, <1>8
  <2>4. /\ DOMAIN fs = DOMAIN v.features /\ fs = [i \in DOMAIN fs |-> fs[i]]
        /\ \A i \in DOMAIN v.features : fs[i] = v.features[i]
    BY <1>6, <1>8
  <2> HIDE DEF ks, ms, fs
  <2>5. ToSet(d.knobs) = ToSet(v.knobs)
    <3>1. v.knobs \in Seq(TypedKnob) BY <1>1
    <3>2. d.knobs \in SortedByName(ks) BY <2>1
    <3> QED BY <2>2, <3>1, <3>2, ReadBack
  <2>6. ToSet(d.metrics) = ToSet(v.metrics) BY <1>1, <2>1, <2>3, ReadBack
  <2>7. ToSet(d.features) = ToSet(v.features) BY <1>1, <2>1, <2>4, ReadBack
  <2> QED BY <2>5, <2>6, <2>7
<1> QED BY <1>9, <1>10 DEF c

\* Every field of the description fits in its segment.
LEMMA SegmentsFit ==
  ASSUME NEW file, NEW v, ValidBlock(v, file), NEW ops, Compiles(v, ops),
         NEW s \in {"knobs", "metrics", "features"}, NEW x \in ToSet(v[s]), x.type # "string"
  PROVE  Holds(v.segments[s], x.type)
<1>1. PICK i \in DOMAIN v[s] : x = v[s][i] BY DEF ToSet
<1>2. /\ v.knobs \in Seq(TypedKnob) /\ v.metrics \in Seq(TypedMetric) /\ v.features \in Seq(TypedFeature)
      /\ (v.knobs = <<>>) = (v.metrics = <<>>) /\ v.segments \in SegmentsOf(v)
  BY DEF ValidBlock
<1>3. CASE s = "knobs"
  <2>a. x \in TypedKnob BY <1>1, <1>2, <1>3
  <2>1. v.knobs # <<>> /\ x.type \in TypeNames BY <1>1, <1>3, <2>a DEF TypedKnob
  <2>2. v.segments.knobs \in SegmentTypeOf(KnobTypes(v)) BY <1>2 DEF SegmentsOf
  <2>3. v.segments.knobs # "" BY <2>1 DEF Compiles
  <2>4. IsFiniteSet(DOMAIN KnobTypes(v)) /\ x.type \in ToSet(KnobTypes(v)) BY <1>1, <1>2, <1>3, KnobFieldTypes
  <2> QED BY <1>3, <2>1, <2>2, <2>3, <2>4, SegmentHolds
<1>4. CASE s = "metrics"
  <2>a. x \in TypedMetric BY <1>1, <1>2, <1>4
  <2>b. x.type \in TypeNames BY <2>a DEF TypedMetric
  <2>c. v.metrics # <<>> BY <1>1, <1>4
  <2>1. v.metrics # <<>> /\ v.knobs # <<>> /\ x.type \in TypeNames BY <1>2, <2>b, <2>c
  <2>2. v.segments.metrics \in SegmentTypeOf(TypesOf(v.metrics)) BY <1>2, <2>1 DEF SegmentsOf
  <2>3. v.segments.metrics # "" BY <2>1 DEF Compiles
  <2>4. IsFiniteSet(DOMAIN TypesOf(v.metrics)) /\ x.type \in ToSet(TypesOf(v.metrics))
    BY <1>1, <1>2, <1>4, FieldTypes
  <2> QED BY <1>4, <2>1, <2>2, <2>3, <2>4, SegmentHolds
<1>5. CASE s = "features"
  <2>a. x \in TypedFeature BY <1>1, <1>2, <1>5
  <2>1. v.features # <<>> /\ x.type \in TypeNames BY <1>1, <1>5, <2>a DEF TypedFeature
  <2>2. v.segments.features \in SegmentTypeOf(TypesOf(v.features)) BY <1>2, <2>1 DEF SegmentsOf
  <2>3. v.segments.features # "" BY <2>1 DEF Compiles
  <2>4. IsFiniteSet(DOMAIN TypesOf(v.features)) /\ x.type \in ToSet(TypesOf(v.features))
    BY <1>1, <1>2, <1>5, FieldTypes
  <2> QED BY <1>5, <2>1, <2>2, <2>3, <2>4, SegmentHolds
<1> QED BY <1>3, <1>4, <1>5

\* compose and parse: Agora and the generated interface agree on the block, whatever the
\* user described.
THEOREM AgoraAlwaysFits == HeelSpec => []AgoraFitsTheGeometry
<1>1. HeelInv => AgoraFitsTheGeometry
  <2> SUFFICES ASSUME HeelInv, stage = "done", WithAgora(block), Compiles(block, points)
               PROVE  /\ BlockUnderstood(description)
                      /\ \A d \in ParseBlock(description) :
                           /\ \A s \in {"knobs", "metrics", "features"} : ToSet(d[s]) = ToSet(block[s])
                           /\ \A s \in {"knobs", "metrics", "features"} : \A i \in DOMAIN d[s] :
                                d[s][i].type # "string" => Holds(block.segments[s], d[s][i].type)
                           /\ \A knob \in ToSet(d.knobs) : \A v \in ToSet(knob.values) :
                                LET json == ConfigurationToJson(knob, v)
                                IN  Parsable(json) => KnobObserved(knob, KnobSet(knob, json.value)) = v
    BY DEF AgoraFitsTheGeometry
  <2>1. /\ input.file \in Description /\ BlockUnderstood(input.file) /\ Validated(block, input.file)
        /\ description = Compose(block)
    BY DEF HeelInv
  <2>2. ValidBlock(block, input.file) BY <2>1, ValidatedSections
  <2>3. BlockUnderstood(description) BY <2>1, <2>2, DescriptionReadBack
  <2>4. ASSUME NEW d \in ParseBlock(description)
        PROVE  \A s \in {"knobs", "metrics", "features"} : ToSet(d[s]) = ToSet(block[s])
    BY <2>1, <2>2, DescriptionReadBack
  <2>5. ASSUME NEW d \in ParseBlock(description), NEW s \in {"knobs", "metrics", "features"}, NEW i \in DOMAIN d[s],
               d[s][i].type # "string"
        PROVE  Holds(block.segments[s], d[s][i].type)
    <3>1. d[s][i] \in ToSet(d[s]) BY DEF ToSet
    <3>2. d[s][i] \in ToSet(block[s]) BY <2>4, <3>1
    <3> QED BY <2>2, <2>5, <3>2, SegmentsFit
  <2>7. ASSUME NEW knob, NEW v, Parsable(ConfigurationToJson(knob, v))
        PROVE  KnobObserved(knob, KnobSet(knob, ConfigurationToJson(knob, v).value)) = v
    BY <2>7 DEF Parsable, ConfigurationToJson, KnobObserved, KnobSet
  <2> QED BY <2>3, <2>4, <2>5, <2>7
<1> QED BY <1>1, HeelAlways, PTL

----------------------------------------------------------------------------
(* The manager that the generated code builds: its strings and its states. *)

\* What holds at the start and is passed on holds up to the end.
LEMMA UpTo ==
  ASSUME NEW a \in Nat, NEW n \in Nat, NEW T, a \in T, \A m \in a .. n - 1 : m \in T => m + 1 \in T
  PROVE  a .. n \subseteq T
<1> DEFINE Bad == {m \in a .. n : m \notin T}
<1> SUFFICES ASSUME Bad # {} PROVE FALSE OBVIOUS
<1>1. Bad \subseteq Nat OBVIOUS
<1>2. PICK m \in Bad : \A k \in Bad : m <= k
  <2> HIDE DEF Bad
  <2>1. Min(Bad) \in Bad /\ \A k \in Bad : Min(Bad) <= k BY <1>1, LeastOf
  <2> QED BY <2>1
<1>3. m # a /\ m \in a .. n OBVIOUS
<1>4. m - 1 \in a .. n - 1 /\ m - 1 \notin Bad /\ (m - 1) + 1 = m BY <1>2, <1>3
<1>5. m - 1 \in T BY <1>4
<1> QED BY <1>2, <1>4, <1>5

\* val_to_knob undoes knob_to_val: the first of equal strings stands for them all.
LEMMA StringComesBack ==
  ASSUME NEW knob, knob.type = "string", NEW S, knob.values \in Seq(S), NEW v \in ToSet(knob.values)
  PROVE  KnobSet(knob, KnobToVal(knob, v)) = v
<1> DEFINE I == {i \in 1 .. Len(knob.values) : knob.values[i] = v}
<1>1. KnobToVal(knob, v) = (IF I # {} THEN Min(I) ELSE 0) - 1 BY DEF KnobToVal, SelectInSeq
<1>2. I \subseteq Nat /\ I # {} BY DEF ToSet
<1>3. Min(I) \in I
  <2> HIDE DEF I
  <2> QED BY <1>2, LeastOf
<1>4. Min(I) \in Nat /\ knob.values[Min(I)] = v BY <1>3
<1>5. (Min(I) - 1) + 1 = Min(I) BY <1>4
<1> HIDE DEF I
<1>6. KnobToVal(knob, v) = Min(I) - 1 BY <1>1, <1>2
<1> QED BY <1>4, <1>5, <1>6 DEF KnobSet, ValToKnob

\* The manager has the rank and all the constraints of a state.
AsDescribed(built, state) ==
  /\ built.rank = state.rank /\ built.kind = state.kind
  /\ {built.constraints[p] : p \in DOMAIN built.constraints} = ToSet(state.constraints)

\* A state that is not there yet gets the rank and the only constraint of its
\* description.
LEMMA EmittedFacts ==
  ASSUME NEW state \in ParsedState, Len(state.constraints) <= 1, NEW e, e = Emitted(state, EmptyState)
  PROVE  AsDescribed(e, state)
<1> DEFINE cs == state.constraints
           kind == IF state.kind = NoKind THEN NoKind ELSE state.kind
           rank == IF state.kind = NoKind THEN {} ELSE state.rank
           constraints == IF cs = <<>> THEN <<>> ELSE [p \in {0} |-> Last(cs)]
<1>1. Emitted(state, EmptyState) = [kind |-> kind, rank |-> rank, constraints |-> constraints]
  BY DEF Emitted, EmptyState, ConstraintCounter, NoKind
<1>2. (state.kind = NoKind <=> state.rank = {}) /\ cs \in Seq(ParsedConstraint) BY DEF ParsedState
<1>3. kind = state.kind /\ rank = state.rank BY <1>2
<1>4. {constraints[p] : p \in DOMAIN constraints} = ToSet(cs)
  <2>1. CASE cs = <<>> BY <2>1 DEF ToSet
  <2>2. CASE cs # <<>>
    <3>0. Len(cs) \in Nat /\ Len(cs) # 0 /\ DOMAIN cs = 1 .. Len(cs) BY <1>2, <2>2, EmptySeq
    <3>a. Len(cs) <= 1 OBVIOUS
    <3> DEFINE l == Len(cs)
    <3>b. l = 1
      <4>1. l \in Nat /\ l # 0 /\ l <= 1 BY <3>0, <3>a
      <4> HIDE DEF l
      <4> QED BY <4>1
    <3>c. 1 .. 1 = {1} OBVIOUS
    <3>1. Len(cs) = 1 /\ DOMAIN cs = {1} BY <3>0, <3>b, <3>c
    <3>2. constraints = [p \in {0} |-> cs[1]] BY <2>2, <3>1 DEF Last
    <3>3. {constraints[p] : p \in DOMAIN constraints} = {cs[1]} BY <3>2
    <3>4. ToSet(cs) = {cs[1]} BY <3>1 DEF ToSet
    <3> QED BY <3>3, <3>4
  <2> QED BY <2>1, <2>2
<1> HIDE DEF kind, rank, constraints
<1>5. e.kind = kind /\ e.rank = rank /\ e.constraints = constraints BY <1>1
<1> QED BY <1>3, <1>4, <1>5 DEF AsDescribed

\* goals_type: the names of the goals of a state are all the same, so code with two
\* does not compile.
LEMMA OneConstraint ==
  ASSUME NEW v, v.states \in Seq(ParsedState), IsInjective(GoalIdentifiers(v)), NEW i \in DOMAIN v.states
  PROVE  Len(v.states[i].constraints) <= 1
<1> DEFINE cs == v.states[i].constraints
           D == UNION {{j} \X DOMAIN v.states[j].constraints : j \in DOMAIN v.states}
           G == GoalIdentifiers(v)
<1>1. v.states[i] \in ParsedState OBVIOUS
<1>2. cs \in Seq(ParsedConstraint) BY <1>1 DEF ParsedState
<1>3. DOMAIN G = D /\ \A p \in D : G[p] = <<v.states[p[1]].name, ConstraintCounter>> BY DEF GoalIdentifiers
<1>4. \A n \in DOMAIN cs : <<i, n>> \in D OBVIOUS
<1>5. \A n \in DOMAIN cs : G[<<i, n>>] = <<v.states[i].name, ConstraintCounter>>
  <2> SUFFICES ASSUME NEW n \in DOMAIN cs PROVE G[<<i, n>>] = <<v.states[i].name, ConstraintCounter>>
    OBVIOUS
  <2> HIDE DEF D, G
  <2>1. <<i, n>> \in D BY <1>4
  <2>2. <<i, n>>[1] = i OBVIOUS
  <2> QED BY <1>3, <2>1, <2>2
<1>6. \A a, b \in D : G[a] = G[b] => a = b BY <1>3 DEF IsInjective
<1> HIDE DEF D, G
<1>7. \A n, k \in DOMAIN cs : <<i, n>> = <<i, k>> BY <1>4, <1>5, <1>6
<1>8. \A n, k \in DOMAIN cs : n = k BY <1>7
<1> SUFFICES ASSUME ~(Len(cs) <= 1) PROVE FALSE OBVIOUS
<1>9. 1 \in DOMAIN cs /\ 2 \in DOMAIN cs BY <1>2
<1> QED BY <1>8, <1>9

\* The calls for states with different names do not disturb each other.
LEMMA StatesBuilt ==
  ASSUME NEW S, NEW states \in Seq(S), IsInjective([i \in DOMAIN states |-> states[i].name]),
         NEW k \in DOMAIN states
  PROVE  StateCalls(states)[states[k].name] = Emitted(states[k], EmptyState)
<1> DEFINE n == Len(states)
           name(i) == states[i].name
           new(i) == Emitted(states[i], EmptyState)
           N(i) == {name(j) : j \in 1 .. i}
           idx(x) == CHOOSE j \in 1 .. n : name(j) = x
           added(i, before) ==
             [x \in DOMAIN before \cup {name(i)} |->
                IF x # name(i) THEN before[x]
                ELSE Emitted(states[i], IF x \in DOMAIN before THEN before[x] ELSE EmptyState)]
           body(g) == [i \in 0 .. n |-> IF i = 0 THEN <<>> ELSE added(i, g[i - 1])]
           C(i) == [x \in N(i) |-> new(idx(x))]
           closed == [i \in 0 .. n |-> C(i)]
<1>1. n \in Nat /\ DOMAIN states = 1 .. n OBVIOUS
<1>2. StateCalls(states) = (CHOOSE g : g = body(g))[n] BY DEF StateCalls
<1>3. \A i, j \in 1 .. n : name(i) = name(j) => i = j
  BY <1>1 DEF IsInjective
<1> HIDE DEF n, name, new
<1>4. \A i \in 1 .. n : idx(name(i)) = i BY <1>3
<1> HIDE DEF idx
<1>5. ASSUME NEW i \in 1 .. n, NEW before, before = C(i - 1)
      PROVE  added(i, before) = C(i)
  <2>1. N(i) = N(i - 1) \cup {name(i)}
    <3>1. 1 .. i = (1 .. i - 1) \cup {i} BY <1>1
    <3> QED BY <3>1
  <2>2. name(i) \notin N(i - 1) BY <1>1, <1>3
  <2> HIDE DEF N
  <2>3. DOMAIN before = N(i - 1) /\ \A x \in N(i - 1) : before[x] = new(idx(x)) BY <1>5
  <2>4. new(idx(name(i))) = Emitted(states[i], EmptyState) BY <1>4 DEF new
  <2>5. \A x \in N(i) : (IF x # name(i) THEN before[x]
                         ELSE Emitted(states[i], IF x \in DOMAIN before THEN before[x] ELSE EmptyState))
                        = new(idx(x))
    BY <2>1, <2>2, <2>3, <2>4
  <2> QED BY <2>1, <2>3, <2>5
<1>6. C(0) = <<>> OBVIOUS
<1> HIDE DEF C, added
<1>7. closed = body(closed)
  <2>1. ASSUME NEW i \in 0 .. n PROVE closed[i] = IF i = 0 THEN <<>> ELSE added(i, closed[i - 1])
    <3>1. CASE i = 0 BY <1>6, <3>1
    <3>2. CASE i # 0
      <4>1. i \in 1 .. n /\ i - 1 \in 0 .. n BY <1>1, <3>2
      <4>2. closed[i] = C(i) /\ closed[i - 1] = C(i - 1) BY <4>1
      <4> QED BY <1>5, <3>2, <4>1, <4>2
    <3> QED BY <3>1, <3>2
  <2> QED BY <2>1
<1> DEFINE built == CHOOSE g : g = body(g)
<1>8. built = body(built) BY <1>7, Zenon
<1>9. StateCalls(states) = built[n] BY <1>2
<1> HIDE DEF built
<1>10. \A i \in 0 .. n : built[i] = IF i = 0 THEN <<>> ELSE added(i, built[i - 1]) BY <1>8
<1> DEFINE T == {i \in 0 .. n : built[i] = C(i)}
<1>11. 0 \in T
  <2>1. 0 \in 0 .. n BY <1>1
  <2> QED BY <1>6, <1>10, <2>1
<1>12. ASSUME NEW i \in 0 .. n - 1, i \in T PROVE i + 1 \in T
  <2>1. i + 1 \in 1 .. n /\ i + 1 \in 0 .. n /\ (i + 1) - 1 = i /\ i + 1 # 0 BY <1>1
  <2>2. built[i + 1] = added(i + 1, built[i]) BY <1>10, <2>1
  <2>3. built[i] = C((i + 1) - 1) BY <1>12, <2>1
  <2>4. added(i + 1, built[i]) = C(i + 1) BY <1>5, <2>1, <2>3
  <2> QED BY <2>1, <2>2, <2>4
<1>13. built[n] = C(n)
  <2> HIDE DEF T
  <2>1. 0 .. n \subseteq T BY <1>1, <1>11, <1>12, UpTo
  <2> QED BY <1>1, <2>1 DEF T
<1>14. k \in 1 .. n /\ name(k) \in N(n) BY <1>1
<1>15. C(n)[name(k)] = new(k) BY <1>4, <1>14 DEF C
<1> QED BY <1>9, <1>13, <1>15 DEF name, new

\* If the goals have different names and so have the states, each state is built as
\* described.
LEMMA StatesDescribed ==
  ASSUME NEW v, v.states \in Seq(ParsedState), IsInjective(GoalIdentifiers(v)),
         IsInjective([i \in DOMAIN v.states |-> v.states[i].name]), NEW i \in DOMAIN v.states
  PROVE  AsDescribed(StateCalls(v.states)[v.states[i].name], v.states[i])
<1>1. v.states[i] \in ParsedState /\ Len(v.states[i].constraints) <= 1 BY OneConstraint
<1>2. StateCalls(v.states)[v.states[i].name] = Emitted(v.states[i], EmptyState) BY StatesBuilt
<1> QED BY <1>1, <1>2, EmittedFacts

----------------------------------------------------------------------------
(* The closest cluster is the one that was added last.                     *)

\* f follows a recursion from a up to m: a base, and a step from one index to the next.
Unfolds(f, a, m, base, step) ==
  \A i \in a .. m : f[i] = IF i = a THEN base ELSE step[<<i, f[i - 1]>>]

\* Such a function exists.
LEMMA Recursion ==
  ASSUME NEW a \in Nat, NEW n \in Nat, a <= n, NEW S, NEW base \in S, NEW step \in [(a .. n) \X S -> S]
  PROVE  \E f \in [a .. n -> S] : Unfolds(f, a, n, base, step)
<1> DEFINE T == {m \in a .. n : \E f \in [a .. m -> S] : Unfolds(f, a, m, base, step)}
<1>1. a \in T
  <2>1. [i \in a .. a |-> base] \in [a .. a -> S] OBVIOUS
  <2>2. Unfolds([i \in a .. a |-> base], a, a, base, step) BY DEF Unfolds
  <2> QED BY <2>1, <2>2
<1>2. ASSUME NEW m \in a .. n - 1, m \in T PROVE m + 1 \in T
  <2>1. PICK f \in [a .. m -> S] : Unfolds(f, a, m, base, step) BY <1>2
  <2> DEFINE g == [i \in a .. m + 1 |-> IF i = m + 1 THEN step[<<m + 1, f[m]>>] ELSE f[i]]
  <2>2. g \in [a .. m + 1 -> S]
    <3>1. <<m + 1, f[m]>> \in (a .. n) \X S OBVIOUS
    <3> QED BY <3>1
  <2>3. \A i \in a .. m : g[i] = f[i] OBVIOUS
  <2>4. g[m + 1] = step[<<m + 1, g[m]>>]
    <3>1. g[m] = f[m] BY <2>3
    <3>2. g[m + 1] = step[<<m + 1, f[m]>>] OBVIOUS
    <3> HIDE DEF g
    <3> QED BY <3>1, <3>2
  <2> HIDE DEF g
  <2>5. Unfolds(g, a, m + 1, base, step)
    <3> SUFFICES ASSUME NEW i \in a .. m + 1
                 PROVE  g[i] = IF i = a THEN base ELSE step[<<i, g[i - 1]>>]
      BY DEF Unfolds
    <3>1. CASE i = m + 1 BY <2>4, <3>1
    <3>2. CASE i # m + 1
      <4>1. i \in a .. m /\ f[i] = IF i = a THEN base ELSE step[<<i, f[i - 1]>>]
        BY <2>1, <3>2 DEF Unfolds
      <4>2. i # a => i - 1 \in a .. m BY <4>1
      <4>3. g[i] = f[i] BY <2>3, <4>1
      <4>4. i # a => g[i - 1] = f[i - 1] BY <2>3, <4>2
      <4> QED BY <4>1, <4>3, <4>4
    <3> QED BY <3>1, <3>2
  <2> QED BY <2>2, <2>5
<1>3. n \in T
  <2> HIDE DEF T
  <2>1. a .. n \subseteq T BY <1>1, <1>2, UpTo
  <2> QED BY <2>1
<1> QED BY <1>3

\* The square of a difference.
LEMMA SquareFacts ==
  ASSUME NEW c, NEW o, NEW t, NEW i, o[i] \in Int, t[i] \in Int
  PROVE  /\ Features(c)!Square(o, t, i) \in Nat
         /\ o[i] = t[i] => Features(c)!Square(o, t, i) = 0
         /\ o[i] # t[i] => Features(c)!Square(o, t, i) > 0
<1> DEFINE d == o[i] - t[i]
<1>1. Features(c)!Square(o, t, i) = d * d BY DEF Features!Square
<1>2. d \in Int /\ (o[i] = t[i] => d = 0) /\ (o[i] # t[i] => d # 0) OBVIOUS
<1> HIDE DEF d
<1>3. d * d \in Int /\ d * d >= 0 /\ (d = 0 => d * d = 0) /\ (d # 0 => d * d > 0) BY <1>2
<1> QED BY <1>1, <1>2, <1>3

\* The Euclidean distance of a feature is 0 from itself, and more from any other.
LEMMA DistanceFacts ==
  ASSUME NEW c, NEW n \in Nat \ {0}, NEW o \in [1 .. n -> Int], NEW t \in [1 .. n -> Int]
  PROVE  /\ Features(c)!Distance(o, t) \in Nat
         /\ o = t => Features(c)!Distance(o, t) = 0
         /\ o # t => Features(c)!Distance(o, t) > 0
<1> DEFINE sq(i) == Features(c)!Square(o, t, i)
           step == [p \in (1 .. n) \X Int |-> sq(p[1]) + p[2]]
           body(g) == [i \in 1 .. n |-> IF i = 1 THEN sq(1) ELSE sq(i) + g[i - 1]]
           sum == CHOOSE g : g = body(g)
<1>1. Len(o) = n BY LenProperties, IsASeq
<1>2. \A i \in 1 .. n : sq(i) \in Nat /\ (o[i] = t[i] => sq(i) = 0) /\ (o[i] # t[i] => sq(i) > 0)
  <2> SUFFICES ASSUME NEW i \in 1 .. n
               PROVE  sq(i) \in Nat /\ (o[i] = t[i] => sq(i) = 0) /\ (o[i] # t[i] => sq(i) > 0)
    OBVIOUS
  <2>1. o[i] \in Int /\ t[i] \in Int OBVIOUS
  <2> QED BY <2>1, SquareFacts
<1>3. Features(c)!Distance(o, t) = sum[n] BY <1>1 DEF Features!Distance
<1> HIDE DEF sq
<1>4. step \in [(1 .. n) \X Int -> Int] BY <1>2
<1>5. \A i \in 1 .. n, x \in Int : step[<<i, x>>] = sq(i) + x BY <1>2
<1> HIDE DEF step
<1>6. \E g : g = body(g)
  <2>1. PICK g \in [1 .. n -> Int] : Unfolds(g, 1, n, sq(1), step)
    <3>1. sq(1) \in Int /\ 1 <= n /\ 1 \in Nat BY <1>2
    <3> QED BY <1>4, <3>1, Recursion
  <2>2. ASSUME NEW i \in 1 .. n PROVE g[i] = IF i = 1 THEN sq(1) ELSE sq(i) + g[i - 1]
    <3>1. g[i] = IF i = 1 THEN sq(1) ELSE step[<<i, g[i - 1]>>] BY <2>1 DEF Unfolds
    <3>2. i # 1 => g[i - 1] \in Int BY <2>1
    <3> QED BY <1>5, <3>1, <3>2
  <2>3. g = [i \in 1 .. n |-> g[i]] BY <2>1
  <2>4. body(g) = [i \in 1 .. n |-> g[i]] BY <2>2, Zenon
  <2>5. g = body(g) BY <2>3, <2>4, Zenon
  <2> QED BY <2>5, Zenon
<1>7. sum = body(sum) BY <1>6, Zenon
<1> HIDE DEF sum
<1> DEFINE T == {i \in 1 .. n : /\ sum[i] \in Nat
                                /\ (\A j \in 1 .. i : o[j] = t[j]) => sum[i] = 0
                                /\ (\E j \in 1 .. i : o[j] # t[j]) => sum[i] > 0}
<1>8. 1 \in T
  <2>1. sum[1] = sq(1) BY <1>7
  <2> QED BY <1>2, <2>1
<1>9. ASSUME NEW m \in 1 .. n - 1, m \in T PROVE m + 1 \in T
  <2>1. m + 1 \in 1 .. n /\ m + 1 # 1 /\ (m + 1) - 1 = m OBVIOUS
  <2>2. sum[m + 1] = sq(m + 1) + sum[m] BY <1>7, <2>1
  <2>3. /\ sum[m] \in Nat
        /\ (\A j \in 1 .. m : o[j] = t[j]) => sum[m] = 0
        /\ (\E j \in 1 .. m : o[j] # t[j]) => sum[m] > 0
    BY <1>9
  <2>4. 1 .. m + 1 = (1 .. m) \cup {m + 1} OBVIOUS
  <2>5. sq(m + 1) \in Nat /\ (o[m + 1] = t[m + 1] => sq(m + 1) = 0) /\ (o[m + 1] # t[m + 1] => sq(m + 1) > 0)
    BY <1>2, <2>1
  <2> DEFINE x == sum[m]
             y == sq(m + 1)
  <2>6. /\ x \in Nat /\ y \in Nat /\ sum[m + 1] = y + x
        /\ (\A j \in 1 .. m : o[j] = t[j]) => x = 0
        /\ (\E j \in 1 .. m : o[j] # t[j]) => x > 0
        /\ o[m + 1] = t[m + 1] => y = 0
        /\ o[m + 1] # t[m + 1] => y > 0
    BY <2>2, <2>3, <2>5
  <2> HIDE DEF x, y
  <2>7. y + x \in Nat BY <2>6
  <2>8. ASSUME \A j \in 1 .. m + 1 : o[j] = t[j] PROVE y + x = 0
    <3>1. x = 0 /\ y = 0 BY <2>4, <2>6, <2>8
    <3> QED BY <3>1
  <2>9. ASSUME NEW j \in 1 .. m + 1, o[j] # t[j] PROVE y + x > 0
    <3>1. CASE j = m + 1
      <4>1. y > 0 BY <2>6, <2>9, <3>1
      <4> QED BY <2>6, <4>1
    <3>2. CASE j # m + 1
      <4>1. j \in 1 .. m BY <3>2
      <4>2. x > 0 BY <2>6, <2>9, <4>1
      <4> QED BY <2>6, <4>2
    <3> QED BY <3>1, <3>2
  <2> QED BY <2>1, <2>6, <2>7, <2>8, <2>9
<1>10. n \in T
  <2> HIDE DEF T
  <2>1. 1 .. n \subseteq T BY <1>8, <1>9, UpTo
  <2> QED BY <2>1
<1>11. o # t => \E j \in 1 .. n : o[j] # t[j] OBVIOUS
<1> QED BY <1>3, <1>10, <1>11

\* The box around two features that differ in a coordinate has a width there.
LEMMA WidthFacts ==
  ASSUME NEW c, NEW o, NEW f, NEW g, NEW i, o[i] \in Int, f[i] \in Int, g[i] \in Int,
         \/ f[i] = o[i] /\ g[i] # o[i]
         \/ g[i] = o[i] /\ f[i] # o[i]
  PROVE  Features(c)!Width(o, f, g, i) \in Int /\ Features(c)!Width(o, f, g, i) > 0
<1> DEFINE S == {o[i], f[i], g[i]}
           most == CHOOSE x \in S : \A y \in S : x >= y
           least == CHOOSE x \in S : \A y \in S : x <= y
<1>1. Features(c)!Width(o, f, g, i) = most - least BY DEF Features!Width, Features!Max, Features!Min
<1>2. \E x \in S : \A y \in S : x >= y OBVIOUS
<1>3. \E x \in S : \A y \in S : x <= y OBVIOUS
<1>4. most \in S /\ \A y \in S : most >= y BY <1>2
<1>5. least \in S /\ \A y \in S : least <= y BY <1>3
<1> HIDE DEF most, least
<1>6. most \in Int /\ least \in Int BY <1>4, <1>5
<1>7. most >= o[i] /\ most >= f[i] /\ most >= g[i] /\ least <= o[i] /\ least <= f[i] /\ least <= g[i]
  BY <1>4, <1>5
<1> QED BY <1>1, <1>6, <1>7

\* One coordinate more: the numerator and the denominator of the sum.
LEMMA FractionStep ==
  ASSUME NEW a \in Int, NEW d \in Int, NEW w \in Int, NEW q \in Nat, a >= 0, d > 0, w > 0
  PROVE  /\ a * w + q * d \in Int /\ d * w \in Int /\ d * w > 0 /\ a * w + q * d >= 0
         /\ a = 0 /\ q = 0 => a * w + q * d = 0
         /\ q > 0 => a * w + q * d > 0
<1>1. a * w \in Int /\ a * w >= 0 /\ (a = 0 => a * w = 0) OBVIOUS
<1>2. q * d \in Int /\ q * d >= 0 /\ (q = 0 => q * d = 0) /\ (q > 0 => q * d > 0) OBVIOUS
<1>3. d * w \in Int /\ d * w > 0 OBVIOUS
<1> QED BY <1>1, <1>2, <1>3

\* The normalised distance, when the box has a width in every coordinate: 0 from the
\* feature itself, more from one that differs in all coordinates.
LEMMA NormalizedFacts ==
  ASSUME NEW c, NEW n \in Nat \ {0}, NEW o \in [1 .. n -> Int], NEW t \in [1 .. n -> Int], NEW h \in [1 .. n -> Int],
         \A i \in 1 .. n : Features(c)!Width(o, t, h, i) \in Int /\ Features(c)!Width(o, t, h, i) > 0
  PROVE  /\ Features(c)!NormalizedDistance(o, t, h) \in Int
         /\ o = t => Features(c)!NormalizedDistance(o, t, h) = 0
         /\ (\A i \in 1 .. n : o[i] # t[i]) => Features(c)!NormalizedDistance(o, t, h) > 0
<1> DEFINE sq(i) == Features(c)!Square(o, t, i)
           w(i) == Features(c)!Width(o, t, h, i) * Features(c)!Width(o, t, h, i)
           step == [p \in (0 .. n) \X (Int \X Int) |->
                      IF p[1] = 0 THEN <<0, 1>>
                      ELSE <<p[2][1] * w(p[1]) + sq(p[1]) * p[2][2], p[2][2] * w(p[1])>>]
           body(g) == [i \in 0 .. n |->
                         IF i = 0 THEN <<0, 1>>
                         ELSE <<g[i - 1][1] * w(i) + sq(i) * g[i - 1][2], g[i - 1][2] * w(i)>>]
           sum == CHOOSE g : g = body(g)
<1>1. Len(o) = n BY LenProperties, IsASeq
<1>2. \A i \in 1 .. n : sq(i) \in Nat /\ (o[i] = t[i] => sq(i) = 0) /\ (o[i] # t[i] => sq(i) > 0)
  <2> SUFFICES ASSUME NEW i \in 1 .. n
               PROVE  sq(i) \in Nat /\ (o[i] = t[i] => sq(i) = 0) /\ (o[i] # t[i] => sq(i) > 0)
    OBVIOUS
  <2>1. o[i] \in Int /\ t[i] \in Int OBVIOUS
  <2> QED BY <2>1, SquareFacts
<1>3. \A i \in 1 .. n : w(i) \in Int /\ w(i) > 0
  <2> SUFFICES ASSUME NEW i \in 1 .. n PROVE w(i) \in Int /\ w(i) > 0 OBVIOUS
  <2> DEFINE x == Features(c)!Width(o, t, h, i)
  <2>1. x \in Int /\ x > 0 OBVIOUS
  <2> HIDE DEF x
  <2>2. x * x \in Int /\ x * x > 0 BY <2>1
  <2> QED BY <2>2 DEF x
<1>4. Features(c)!NormalizedDistance(o, t, h) = sum[n][1] BY <1>1 DEF Features!NormalizedDistance
<1> HIDE DEF sq, w
<1>5. step \in [(0 .. n) \X (Int \X Int) -> Int \X Int]
  <2>1. ASSUME NEW p \in (0 .. n) \X (Int \X Int)
        PROVE  (IF p[1] = 0 THEN <<0, 1>>
                ELSE <<p[2][1] * w(p[1]) + sq(p[1]) * p[2][2], p[2][2] * w(p[1])>>) \in Int \X Int
    <3>1. p[1] \in 0 .. n /\ p[2][1] \in Int /\ p[2][2] \in Int OBVIOUS
    <3>2. CASE p[1] = 0 BY <3>2
    <3>3. CASE p[1] # 0
      <4>1. p[1] \in 1 .. n BY <3>1, <3>3
      <4>2. w(p[1]) \in Int /\ sq(p[1]) \in Int
        <5>1. ASSUME NEW i \in 1 .. n PROVE w(i) \in Int /\ sq(i) \in Int
          <6>1. w(i) \in Int BY <1>3, Zenon
          <6>2. sq(i) \in Nat BY <1>2, Zenon
          <6> QED BY <6>1, <6>2
        <5> QED BY <4>1, <5>1, Zenon
      <4>3. \A a, d, x, q \in Int : a * x + q * d \in Int /\ d * x \in Int OBVIOUS
      <4>4. p[2][1] * w(p[1]) + sq(p[1]) * p[2][2] \in Int /\ p[2][2] * w(p[1]) \in Int
        BY <3>1, <4>2, <4>3, Zenon
      <4> QED BY <3>3, <4>4
    <3> QED BY <3>2, <3>3
  <2> QED BY <2>1
<1>6. \A i \in 1 .. n, x \in Int \X Int : step[<<i, x>>] = <<x[1] * w(i) + sq(i) * x[2], x[2] * w(i)>>
  <2> SUFFICES ASSUME NEW i \in 1 .. n, NEW x \in Int \X Int
               PROVE  step[<<i, x>>] = <<x[1] * w(i) + sq(i) * x[2], x[2] * w(i)>>
    OBVIOUS
  <2>1. <<i, x>> \in (0 .. n) \X (Int \X Int) /\ i # 0 /\ <<i, x>>[1] = i /\ <<i, x>>[2] = x
    <3>1. i \in 0 .. n /\ i # 0 OBVIOUS
    <3>2. <<i, x>>[1] = i /\ <<i, x>>[2] = x OBVIOUS
    <3> DEFINE P == Int \X Int
    <3>3. x \in P OBVIOUS
    <3> HIDE DEF P
    <3>4. <<i, x>> \in (0 .. n) \X P BY <3>1, <3>3
    <3> QED BY <3>1, <3>2, <3>4 DEF P
  <2> QED BY <2>1
<1> HIDE DEF step
<1>7. \E g : g = body(g)
  <2>1. PICK g \in [0 .. n -> Int \X Int] : Unfolds(g, 0, n, <<0, 1>>, step)
    <3>1. <<0, 1>> \in Int \X Int /\ 0 <= n /\ 0 \in Nat OBVIOUS
    <3> QED BY <1>5, <3>1, Recursion
  <2>2. ASSUME NEW i \in 0 .. n
        PROVE  g[i] = IF i = 0 THEN <<0, 1>>
                      ELSE <<g[i - 1][1] * w(i) + sq(i) * g[i - 1][2], g[i - 1][2] * w(i)>>
    <3>1. g[i] = IF i = 0 THEN <<0, 1>> ELSE step[<<i, g[i - 1]>>] BY <2>1 DEF Unfolds
    <3>2. CASE i = 0 BY <3>1, <3>2
    <3>3. CASE i # 0
      <4>1. i \in 1 .. n /\ g[i - 1] \in Int \X Int BY <2>1, <3>3
      <4>2. step[<<i, g[i - 1]>>] = <<g[i - 1][1] * w(i) + sq(i) * g[i - 1][2], g[i - 1][2] * w(i)>>
        BY <1>6, <4>1
      <4> QED BY <3>1, <3>3, <4>2
    <3> QED BY <3>2, <3>3
  <2> QED BY <2>2
<1>8. sum = body(sum) BY <1>7, Zenon
<1> HIDE DEF sum
<1>9. \A i \in 0 .. n : sum[i] = IF i = 0 THEN <<0, 1>>
                                 ELSE <<sum[i - 1][1] * w(i) + sq(i) * sum[i - 1][2], sum[i - 1][2] * w(i)>>
  BY <1>8
<1> DEFINE T == {i \in 0 .. n : /\ sum[i][1] \in Int /\ sum[i][2] \in Int /\ sum[i][1] >= 0 /\ sum[i][2] > 0
                                /\ o = t => sum[i][1] = 0
                                /\ (\A j \in 1 .. n : o[j] # t[j]) /\ i # 0 => sum[i][1] > 0}
<1>10. 0 \in T
  <2>0. 0 \in 0 .. n OBVIOUS
  <2>1. sum[0] = <<0, 1>> BY <1>9, <2>0, Zenon
  <2>2. sum[0][1] = 0 /\ sum[0][2] = 1 BY <2>1
  <2> QED BY <2>2
<1>11. ASSUME NEW m \in 0 .. n - 1, m \in T PROVE m + 1 \in T
  <2>1. m + 1 \in 1 .. n /\ m + 1 \in 0 .. n /\ m + 1 # 0 /\ (m + 1) - 1 = m OBVIOUS
  <2> DEFINE a == sum[m][1]
             d == sum[m][2]
  <2>2. sum[m + 1] = <<a * w(m + 1) + sq(m + 1) * d, d * w(m + 1)>> BY <1>9, <2>1
  <2>3. a \in Int /\ d \in Int /\ a >= 0 /\ d > 0 /\ (o = t => a = 0) BY <1>11
  <2>4. /\ sq(m + 1) \in Nat /\ (o[m + 1] = t[m + 1] => sq(m + 1) = 0) /\ (o[m + 1] # t[m + 1] => sq(m + 1) > 0)
        /\ w(m + 1) \in Int /\ w(m + 1) > 0
    BY <1>2, <1>3, <2>1
  <2> HIDE DEF a, d
  <2> DEFINE num == a * w(m + 1) + sq(m + 1) * d
             den == d * w(m + 1)
  <2>5. /\ num \in Int /\ den \in Int /\ den > 0 /\ num >= 0
        /\ a = 0 /\ sq(m + 1) = 0 => num = 0
        /\ sq(m + 1) > 0 => num > 0
    BY <2>3, <2>4, FractionStep
  <2>6. sum[m + 1][1] = num /\ sum[m + 1][2] = den BY <2>2
  <2> HIDE DEF num, den
  <2>7. o = t => num = 0 BY <2>3, <2>4, <2>5
  <2>8. (\A j \in 1 .. n : o[j] # t[j]) => num > 0 BY <2>1, <2>4, <2>5
  <2> QED BY <2>1, <2>5, <2>6, <2>7, <2>8
<1>12. n \in T
  <2> HIDE DEF T
  <2>1. 0 .. n \subseteq T BY <1>10, <1>11, UpTo
  <2> QED BY <2>1
<1> QED BY <1>4, <1>12

\* With integers: 0 from the feature itself, more from one that differs in all coordinates.
LEMMA IntegralFacts ==
  ASSUME NEW c, NEW n \in Nat \ {0}, NEW f \in [1 .. n -> Int], NEW b \in [1 .. n -> Int],
         \A i \in 1 .. n : b[i] # f[i]
  PROVE  Features(c)!IntegralDistance(f, f, b) < Features(c)!IntegralDistance(f, b, f)
<1> DEFINE A(x, y) == {i \in DOMAIN f : Features(c)!Scaled(f, f, x, y, i) # Features(c)!Scaled(x, f, x, y, i)}
<1>0. \A x, y : Features(c)!IntegralDistance(f, x, y) = Cardinality(A(x, y))
  BY Zenon DEF Features!IntegralDistance, Features!Cardinality, Cardinality
<1>1. DOMAIN f = 1 .. n OBVIOUS
<1>2. Features(c)!IntegralDistance(f, f, b) = 0
  <2>1. A(f, b) = {} OBVIOUS
  <2> HIDE DEF A
  <2>2. Features(c)!IntegralDistance(f, f, b) = Cardinality({}) BY <1>0, <2>1
  <2> QED BY <2>2, FS_EmptySet
<1>3. 1 \in A(b, f)
  <2> DEFINE S == {f[1], b[1], f[1]}
             most == CHOOSE x \in S : \A y \in S : x >= y
             least == CHOOSE x \in S : \A y \in S : x <= y
             w == most - least
  <2>1. f[1] \in Int /\ b[1] \in Int /\ b[1] # f[1] /\ 1 \in 1 .. n OBVIOUS
  <2>2. most \in S /\ \A y \in S : most >= y
    <3>1. \E x \in S : \A y \in S : x >= y BY <2>1
    <3> QED BY <3>1
  <2>3. least \in S /\ \A y \in S : least <= y
    <3>1. \E x \in S : \A y \in S : x <= y BY <2>1
    <3> QED BY <3>1
  <2>4. /\ Features(c)!Scaled(f, f, b, f, 1) = (f[1] - least) \div w
        /\ Features(c)!Scaled(b, f, b, f, 1) = (b[1] - least) \div w
    BY DEF Features!Scaled, Features!Width, Features!Max, Features!Min
  <2> HIDE DEF most, least
  <2>5. \/ most = f[1] /\ least = b[1] /\ f[1] - least = w /\ b[1] - least = 0
        \/ most = b[1] /\ least = f[1] /\ b[1] - least = w /\ f[1] - least = 0
    BY <2>1, <2>2, <2>3
  <2>6. w \in Int /\ w > 0 BY <2>1, <2>2, <2>3, <2>5
  <2> HIDE DEF w
  <2>7. w \div w = 1 /\ 0 \div w = 0 BY <2>6
  <2> QED BY <1>1, <2>1, <2>4, <2>5, <2>7
<1>4. Features(c)!IntegralDistance(f, b, f) = Cardinality(A(b, f))
  <2> HIDE DEF A
  <2> QED BY <1>0
<1>5. IsFiniteSet(A(b, f))
  <2>1. A(b, f) \subseteq 1 .. n BY <1>1
  <2> HIDE DEF A
  <2> QED BY <2>1, FS_Interval, FS_Subset
<1> HIDE DEF A
<1>6. Cardinality(A(b, f)) \in Nat /\ Cardinality(A(b, f)) # 0 BY <1>3, <1>5, FS_CardinalityType, FS_EmptySet
<1> QED BY <1>2, <1>4, <1>6

\* The loop of select_feature_cluster: the best cluster so far, by the number of
\* clusters it has looked at.
Contest(c, kd, f, keys, best) ==
  /\ best \in [1 .. Len(keys) -> 1 .. Len(keys)] /\ best[1] = 1
  /\ \A i \in 1 .. Len(keys) - 1 :
       best[i + 1] = IF Features(c)!Replaces(kd, f, keys[best[i]], keys[i + 1]) THEN i + 1 ELSE best[i]

\* ClosestOf is where that loop ends.
LEMMA ContestHeld ==
  ASSUME NEW c, NEW kd, NEW f, NEW keys, Len(keys) \in Nat \ {0}
  PROVE  \E best : Contest(c, kd, f, keys, best) /\ Features(c)!ClosestOf(kd, f, keys) = best[Len(keys)]
<1> DEFINE n == Len(keys)
           beats(i, j) == Features(c)!Replaces(kd, f, keys[j], keys[i])
           step == [p \in (1 .. n) \X (1 .. n) |-> IF beats(p[1], p[2]) THEN p[1] ELSE p[2]]
           body(g) == [i \in 1 .. n |-> IF i = 1 THEN 1 ELSE IF beats(i, g[i - 1]) THEN i ELSE g[i - 1]]
<1>1. n \in Nat \ {0} OBVIOUS
<1>2. Features(c)!ClosestOf(kd, f, keys) = (CHOOSE g : g = body(g))[n] BY DEF Features!ClosestOf
<1> HIDE DEF n, beats
<1>3. step \in [(1 .. n) \X (1 .. n) -> 1 .. n]
  <2>1. \A p \in (1 .. n) \X (1 .. n) : p[1] \in 1 .. n /\ p[2] \in 1 .. n OBVIOUS
  <2> QED BY <2>1
<1>4. \A i, j \in 1 .. n : step[<<i, j>>] = IF beats(i, j) THEN i ELSE j OBVIOUS
<1> HIDE DEF step
<1>5. \E g : g = body(g)
  <2>1. PICK g \in [1 .. n -> 1 .. n] : Unfolds(g, 1, n, 1, step)
    <3>1. 1 \in 1 .. n /\ 1 \in Nat /\ 1 <= n BY <1>1
    <3> QED BY <1>1, <1>3, <3>1, Recursion
  <2>2. ASSUME NEW i \in 1 .. n
        PROVE  g[i] = IF i = 1 THEN 1 ELSE IF beats(i, g[i - 1]) THEN i ELSE g[i - 1]
    <3>1. g[i] = IF i = 1 THEN 1 ELSE step[<<i, g[i - 1]>>] BY <2>1 DEF Unfolds
    <3>2. i # 1 => i \in 1 .. n /\ g[i - 1] \in 1 .. n BY <1>1
    <3> QED BY <1>4, <3>1, <3>2
  <2> QED BY <2>2
<1> DEFINE best == CHOOSE g : g = body(g)
<1>6. best = body(best) BY <1>5, Zenon
<1> HIDE DEF best
<1>7. best[1] = 1 BY <1>1, <1>6
<1>8. \A i \in 1 .. n - 1 : best[i + 1] = IF beats(i + 1, best[i]) THEN i + 1 ELSE best[i]
  BY <1>1, <1>6
<1>9. \A i \in 1 .. n : best[i] \in 1 .. n
  <2> DEFINE T == {i \in 1 .. n : best[i] \in 1 .. n}
  <2>1. 1 \in T BY <1>1, <1>7
  <2>2. ASSUME NEW m \in 1 .. n - 1, m \in T PROVE m + 1 \in T
    <3>1. m + 1 \in 1 .. n BY <1>1
    <3> QED BY <1>8, <2>2, <3>1
  <2>3. 1 .. n \subseteq T
    <3> HIDE DEF T
    <3> QED BY <1>1, <2>1, <2>2, UpTo
  <2> QED BY <2>3
<1>10. best \in [1 .. n -> 1 .. n] BY <1>6, <1>9
<1>11. Contest(c, kd, f, keys, best) BY <1>7, <1>8, <1>10 DEF Contest, n, beats
<1>12. Features(c)!ClosestOf(kd, f, keys) = best[n] BY <1>2 DEF best
<1> QED BY <1>11, <1>12 DEF n

\* select_feature_cluster selects a cluster that is there.
LEMMA ClosestIsThere ==
  ASSUME NEW c, NEW kd, NEW f, NEW keys, Len(keys) \in Nat \ {0}
  PROVE  Features(c)!ClosestOf(kd, f, keys) \in 1 .. Len(keys)
<1>1. PICK best : Contest(c, kd, f, keys, best) /\ Features(c)!ClosestOf(kd, f, keys) = best[Len(keys)]
  BY ContestHeld
<1> QED BY <1>1 DEF Contest

\* The last round: either the last cluster wins, or it does not replace the winner.
LEMMA LastRound ==
  ASSUME NEW c, NEW kd, NEW f, NEW keys, Len(keys) \in Nat \ {0}
  PROVE  \E w \in 1 .. Len(keys) :
           /\ Features(c)!ClosestOf(kd, f, keys) = w
           /\ w = Len(keys) \/ ~Features(c)!Replaces(kd, f, keys[w], keys[Len(keys)])
<1> DEFINE l == Len(keys)
<1>1. PICK best : Contest(c, kd, f, keys, best) /\ Features(c)!ClosestOf(kd, f, keys) = best[Len(keys)]
  BY ContestHeld
<1>2. l \in Nat /\ l # 0 OBVIOUS
<1>3. best[l] \in 1 .. l BY <1>1 DEF Contest
<1>4. CASE l = 1
  <2>1. best[l] = l BY <1>1, <1>4 DEF Contest
  <2> QED BY <1>1, <1>3, <2>1
<1>5. CASE l # 1
  <2>1. l - 1 \in 1 .. l - 1 /\ (l - 1) + 1 = l
    <3> HIDE DEF l
    <3> QED BY <1>2, <1>5
  <2>2. best[l] = IF Features(c)!Replaces(kd, f, keys[best[l - 1]], keys[l]) THEN l ELSE best[l - 1]
    BY <1>1, <2>1 DEF Contest
  <2> QED BY <1>1, <1>3, <2>2
<1> QED BY <1>4, <1>5

\* Nothing is as close to a feature as itself: data_features_distance; with normalised
\* coordinates, also of integers, only if the other differs in each of them.
LEMMA CloserToItself ==
  ASSUME NEW c, NEW n \in Nat \ {0}, NEW f \in [1 .. n -> Int], NEW b \in [1 .. n -> Int], b # f, NEW kd,
         \/ kd = "EUCLIDEAN"
         \/ kd \in {"NORMALIZED", "INTEGRAL"} /\ \A j \in 1 .. n : b[j] # f[j]
  PROVE  Features(c)!Closer(kd, f, b, f)
<1>1. CASE kd = "EUCLIDEAN"
  <2>1. Features(c)!Distance(f, f) = 0 /\ Features(c)!Distance(f, b) > 0 BY DistanceFacts
  <2> QED BY <1>1, <2>1 DEF Features!Closer
<1>2. CASE kd \in {"NORMALIZED", "INTEGRAL"} /\ \A j \in 1 .. n : b[j] # f[j]
  <2>1. ASSUME NEW i \in 1 .. n
        PROVE  /\ Features(c)!Width(f, b, f, i) \in Int /\ Features(c)!Width(f, b, f, i) > 0
               /\ Features(c)!Width(f, f, b, i) \in Int /\ Features(c)!Width(f, f, b, i) > 0
    <3>1. f[i] \in Int /\ b[i] \in Int /\ b[i] # f[i] BY <1>2
    <3> QED BY <3>1, WidthFacts
  <2>2. Features(c)!NormalizedDistance(f, f, b) = 0 BY <2>1, NormalizedFacts
  <2>3. Features(c)!NormalizedDistance(f, b, f) > 0 BY <1>2, <2>1, NormalizedFacts
  <2>4. DOMAIN f = 1 .. n OBVIOUS
  <2>5. Features(c)!IntegralDistance(f, f, b) < Features(c)!IntegralDistance(f, b, f)
    BY <1>2, IntegralFacts
  <2> QED BY <1>2, <2>1, <2>2, <2>3, <2>4, <2>5 DEF Features!Closer
<1> QED BY <1>1, <1>2

\* Every feature is admissible for itself.
LEMMA AdmissibleItself ==
  ASSUME NEW c, NEW n \in Nat, NEW f \in [1 .. n -> Int], \A i \in 1 .. n : c[i] \in FeatureComparisons
  PROVE  Features(c)!Admissible(f, f)
<1>1. ASSUME NEW i \in 1 .. n PROVE Features(c)!Compare(c[i], f[i], f[i])
  <2>1. f[i] \in Int /\ f[i] <= f[i] /\ f[i] >= f[i] OBVIOUS
  <2>2. c[i] \in FeatureComparisons OBVIOUS
  <2> QED BY <2>1, <2>2 DEF Features!Compare, FeatureComparisons
<1> QED BY <1>1 DEF Features!Admissible

\* The features and the keys of the clusters have n coordinates, and with normalised
\* distances the other keys differ from the features in each of them.
Comparable(c, n, f, keys) ==
  /\ \A i \in 1 .. n : c[i] \in FeatureComparisons
  /\ f \in [1 .. n -> Int] /\ Len(keys) \in Nat \ {0}
  /\ \A i \in 1 .. Len(keys) : keys[i] \in [1 .. n -> Int]
Separate(n, kd, f, keys) ==
  \/ kd = "EUCLIDEAN"
  \/ /\ kd \in {"NORMALIZED", "INTEGRAL"}
     /\ \A i \in 1 .. Len(keys) : keys[i] # f => \A j \in 1 .. n : keys[i][j] # f[j]

\* select_feature_cluster after add_feature_cluster: the cluster that was just added,
\* or one with the same key.
LEMMA LastWins ==
  ASSUME NEW c, NEW n \in Nat \ {0}, NEW f, NEW keys, NEW kd, Comparable(c, n, f, keys), Separate(n, kd, f, keys),
         keys[Len(keys)] = f
  PROVE  keys[Features(c)!ClosestOf(kd, f, keys)] = f
<1>0. /\ Len(keys) \in Nat \ {0} /\ f \in [1 .. n -> Int] /\ \A i \in 1 .. n : c[i] \in FeatureComparisons
      /\ \A i \in 1 .. Len(keys) : keys[i] \in [1 .. n -> Int]
  BY DEF Comparable
<1>1. PICK w \in 1 .. Len(keys) :
        /\ Features(c)!ClosestOf(kd, f, keys) = w
        /\ w = Len(keys) \/ ~Features(c)!Replaces(kd, f, keys[w], keys[Len(keys)])
  BY <1>0, LastRound
<1>2. CASE w = Len(keys) BY <1>1, <1>2
<1>3. CASE ~Features(c)!Replaces(kd, f, keys[w], f)
  <2> DEFINE b == keys[w]
  <2>4. b \in [1 .. n -> Int] BY <1>0
  <2>5. b # f => \/ kd = "EUCLIDEAN"
                 \/ kd \in {"NORMALIZED", "INTEGRAL"} /\ \A j \in 1 .. n : b[j] # f[j]
    BY DEF Separate
  <2> HIDE DEF b
  <2>6. b # f => Features(c)!Closer(kd, f, b, f) BY <1>0, <2>4, <2>5, CloserToItself
  <2>7. Features(c)!Admissible(f, f) BY <1>0, AdmissibleItself
  <2>8. b # f => Features(c)!Replaces(kd, f, b, f)
    <3>1. Features(c)!Admissible(f, f) \in BOOLEAN /\ Features(c)!Admissible(b, f) \in BOOLEAN
      BY DEF Features!Admissible
    <3>2. (Features(c)!Admissible(f, f) /\ Features(c)!Admissible(b, f))
            => Features(c)!Admissible(f, f) = Features(c)!Admissible(b, f)
      BY <3>1
    <3> QED BY <2>6, <2>7, <3>2 DEF Features!Replaces
  <2>9. b = f BY <1>3, <2>8 DEF b
  <2> QED BY <1>1, <2>9 DEF b
<1> QED BY <1>1, <1>2, <1>3

----------------------------------------------------------------------------
(* The calls that knowledge_cpp_content generates.                         *)

CallSet(Tx, O) == {ClusterCall(t) : t \in Tx} \cup {PointCall(o) : o \in O}

\* A call is one of the two.
LEMMA CallFacts ==
  ASSUME NEW Tx, NEW O, NEW x \in CallSet(Tx, O)
  PROVE  \/ x.call = "cluster" /\ x.features \in Tx
         \/ x.call = "point" /\ x.op \in O
BY DEF CallSet, ClusterCall, PointCall

\* The features that a call is about, and the Operating Points that calls add.
FeaturesOf(x) == IF x.call = "cluster" THEN x.features ELSE x.op.features
PointCalls(s, n) == {i \in 1 .. n : s[i].call = "point"}
PointsOf(s, n) == {s[i].op : i \in PointCalls(s, n)}

\* With features every Operating Point comes after a call about the same features,
\* without there are no clusters.
Follows(b, s) ==
  /\ b.features = <<>> => \A i \in 1 .. Len(s) : s[i].call = "point"
  /\ b.features # <<>> => \A i \in PointCalls(s, Len(s)) : i # 1 /\ FeaturesOf(s[i - 1]) = s[i].op.features

\* What appending a call does to the sequence of calls.
LEMMA AppendedFacts ==
  ASSUME NEW S, NEW s \in Seq(S), NEW x \in S
  PROVE  /\ s \o <<x>> \in Seq(S) /\ Len(s \o <<x>>) = Len(s) + 1 /\ Len(s) \in Nat
         /\ \A i \in 1 .. Len(s) : (s \o <<x>>)[i] = s[i]
         /\ (s \o <<x>>)[Len(s) + 1] = x
<1>1. <<x>> \in Seq(S) /\ Len(<<x>>) = 1 /\ <<x>>[1] = x OBVIOUS
<1>2. Len(s) \in Nat OBVIOUS
<1>3. /\ s \o <<x>> \in Seq(S) /\ Len(s \o <<x>>) = Len(s) + 1
      /\ \A i \in 1 .. Len(s) + 1 : (s \o <<x>>)[i] = IF i <= Len(s) THEN s[i] ELSE <<x>>[i - Len(s)]
  BY <1>1, ConcatProperties
<1>4. \A i \in 1 .. Len(s) : i \in 1 .. Len(s) + 1 /\ i <= Len(s) BY <1>2
<1>5. Len(s) + 1 \in 1 .. Len(s) + 1 /\ ~(Len(s) + 1 <= Len(s)) /\ (Len(s) + 1) - Len(s) = 1 BY <1>2
<1>6. (s \o <<x>>)[Len(s) + 1] = x BY <1>1, <1>3, <1>5
<1>7. \A i \in 1 .. Len(s) : (s \o <<x>>)[i] = s[i] BY <1>3, <1>4
<1> QED BY <1>2, <1>3, <1>6, <1>7

\* add_feature_cluster is generated.
LEMMA ClusterFollows ==
  ASSUME NEW b, b.features # <<>>, NEW Tx, NEW O, NEW s \in Seq(CallSet(Tx, O)), NEW t \in Tx, Follows(b, s)
  PROVE  LET r == s \o <<ClusterCall(t)>>
         IN  /\ r \in Seq(CallSet(Tx, O)) /\ Follows(b, r) /\ PointsOf(r, Len(r)) = PointsOf(s, Len(s))
             /\ r # <<>> /\ FeaturesOf(r[Len(r)]) = t
<1> DEFINE x == ClusterCall(t)
           r == s \o <<x>>
           n == Len(s)
<1>1. x \in CallSet(Tx, O) /\ x.call = "cluster" /\ x.features = t BY DEF CallSet, ClusterCall
<1>2. /\ r \in Seq(CallSet(Tx, O)) /\ Len(r) = n + 1 /\ n \in Nat
      /\ \A i \in 1 .. n : r[i] = s[i]
      /\ r[n + 1] = x
  <2> HIDE DEF x
  <2> QED BY <1>1, AppendedFacts
<1> HIDE DEF x, r, n
<1>3. PointCalls(r, n + 1) = PointCalls(s, n)
  <2>1. \A i \in 1 .. n + 1 : i = n + 1 \/ i \in 1 .. n BY <1>2
  <2>2. \A i \in 1 .. n : i \in 1 .. n + 1 BY <1>2
  <2> QED BY <1>1, <1>2, <2>1, <2>2 DEF PointCalls
<1>4. PointsOf(r, n + 1) = PointsOf(s, n)
  <2>1. \A i \in PointCalls(s, n) : r[i] = s[i] BY <1>2 DEF PointCalls
  <2> QED BY <1>3, <2>1 DEF PointsOf
<1>5. Follows(b, r)
  <2> SUFFICES ASSUME NEW i \in PointCalls(r, n + 1)
               PROVE  i # 1 /\ FeaturesOf(r[i - 1]) = r[i].op.features
    BY <1>2 DEF Follows
  <2>1. i \in PointCalls(s, n) BY <1>3
  <2>2. i # 1 /\ FeaturesOf(s[i - 1]) = s[i].op.features BY <2>1 DEF Follows, n
  <2>3. i \in 1 .. n /\ i - 1 \in 1 .. n BY <1>2, <2>1, <2>2 DEF PointCalls
  <2>4. r[i] = s[i] /\ r[i - 1] = s[i - 1] BY <1>2, <2>3
  <2> QED BY <2>2, <2>4
<1>6. FeaturesOf(r[n + 1]) = t BY <1>1, <1>2 DEF FeaturesOf
<1>7. r # <<>>
  <2>1. n + 1 # 0 BY <1>2
  <2>2. Len(<<>>) = 0 OBVIOUS
  <2> QED BY <1>2, <2>1, <2>2
<1> QED BY <1>2, <1>4, <1>5, <1>6, <1>7 DEF r, n, x

\* add_operating_points is generated.
LEMMA PointFollows ==
  ASSUME NEW b, NEW Tx, NEW O, NEW s \in Seq(CallSet(Tx, O)), NEW o \in O, Follows(b, s),
         b.features # <<>> => s # <<>> /\ FeaturesOf(s[Len(s)]) = o.features
  PROVE  LET r == s \o <<PointCall(o)>>
         IN  /\ r \in Seq(CallSet(Tx, O)) /\ Follows(b, r) /\ PointsOf(r, Len(r)) = PointsOf(s, Len(s)) \cup {o}
             /\ r # <<>> /\ FeaturesOf(r[Len(r)]) = o.features
<1> DEFINE x == PointCall(o)
           r == s \o <<x>>
           n == Len(s)
<1>1. x \in CallSet(Tx, O) /\ x.call = "point" /\ x.op = o BY DEF CallSet, PointCall
<1>2. /\ r \in Seq(CallSet(Tx, O)) /\ Len(r) = n + 1 /\ n \in Nat
      /\ \A i \in 1 .. n : r[i] = s[i]
      /\ r[n + 1] = x
  <2> HIDE DEF x
  <2> QED BY <1>1, AppendedFacts
<1>0. b.features # <<>> => n # 0 /\ FeaturesOf(s[n]) = o.features BY EmptySeq
<1> HIDE DEF x, r, n
<1>a. \A i \in 1 .. n + 1 : i = n + 1 \/ i \in 1 .. n BY <1>2
<1>b. n + 1 \in 1 .. n + 1 /\ \A i \in 1 .. n : i \in 1 .. n + 1 BY <1>2
<1>3. PointCalls(r, n + 1) = PointCalls(s, n) \cup {n + 1}
  BY <1>1, <1>2, <1>a, <1>b DEF PointCalls
<1>4. PointsOf(r, n + 1) = PointsOf(s, n) \cup {o}
  <2>1. \A i \in PointCalls(s, n) : r[i] = s[i] BY <1>2 DEF PointCalls
  <2>2. r[n + 1].op = o BY <1>1, <1>2
  <2> QED BY <1>3, <2>1, <2>2 DEF PointsOf
<1>5. Follows(b, r)
  <2>1. ASSUME b.features = <<>>, NEW i \in 1 .. n + 1 PROVE r[i].call = "point"
    <3>1. CASE i = n + 1 BY <1>1, <1>2, <3>1
    <3>2. CASE i \in 1 .. n
      <4>1. s[i].call = "point" BY <2>1, <3>2 DEF Follows, n
      <4> QED BY <1>2, <3>2, <4>1
    <3> QED BY <1>a, <3>1, <3>2
  <2>2. ASSUME b.features # <<>>, NEW i \in PointCalls(r, n + 1)
        PROVE  i # 1 /\ FeaturesOf(r[i - 1]) = r[i].op.features
    <3>1. CASE i = n + 1
      <4>1. n # 0 /\ FeaturesOf(s[n]) = o.features BY <1>0, <2>2
      <4>2. n \in 1 .. n /\ i - 1 = n /\ i # 1 BY <1>2, <3>1, <4>1
      <4>3. r[i - 1] = s[n] BY <1>2, <4>2
      <4>4. r[i].op = o BY <1>1, <1>2, <3>1
      <4> QED BY <4>1, <4>2, <4>3, <4>4
    <3>2. CASE i \in PointCalls(s, n)
      <4>1. i # 1 /\ FeaturesOf(s[i - 1]) = s[i].op.features BY <2>2, <3>2 DEF Follows, n
      <4>2. i \in 1 .. n /\ i - 1 \in 1 .. n BY <1>2, <3>2, <4>1 DEF PointCalls
      <4>3. r[i] = s[i] /\ r[i - 1] = s[i - 1] BY <1>2, <4>2
      <4> QED BY <4>1, <4>3
    <3> QED BY <1>3, <3>1, <3>2
  <2> QED BY <1>2, <2>1, <2>2 DEF Follows
<1>6. FeaturesOf(r[n + 1]) = o.features BY <1>1, <1>2 DEF FeaturesOf
<1>7. r # <<>>
  <2>1. n + 1 # 0 BY <1>2
  <2>2. Len(<<>>) = 0 OBVIOUS
  <2> QED BY <1>2, <2>1, <2>2
<1> QED BY <1>2, <1>4, <1>5, <1>6, <1>7 DEF r, n, x

\* One Operating Point more: a cluster where the features change, and the point.
MoreCalls(b, ops, s, i) ==
  s \o (IF b.features # <<>> /\ (i = 1 \/ ops[i - 1].features # ops[i].features)
        THEN <<ClusterCall(ops[i].features)>> ELSE <<>>)
    \o <<PointCall(ops[i])>>

\* The calls for the first i Operating Points.
CallsFor(b, ops, s, i) ==
  /\ s \in Seq(CallSet({ops[j].features : j \in DOMAIN ops}, ToSet(ops)))
  /\ Follows(b, s) /\ PointsOf(s, Len(s)) = {ops[j] : j \in 1 .. i}
  /\ i # 0 => s # <<>> /\ FeaturesOf(s[Len(s)]) = ops[i].features

\* The calls for one Operating Point more.
LEMMA MoreCallsFor ==
  ASSUME NEW b, NEW S, NEW ops \in Seq(S), NEW i \in 1 .. Len(ops), NEW s, CallsFor(b, ops, s, i - 1)
  PROVE  CallsFor(b, ops, MoreCalls(b, ops, s, i), i)
<1> DEFINE Tx == {ops[j].features : j \in DOMAIN ops}
           O == ToSet(ops)
           o == ops[i]
           t == o.features
           K == CallSet(Tx, O)
<1>1. DOMAIN ops = 1 .. Len(ops) /\ Len(ops) \in Nat OBVIOUS
<1>2. t \in Tx /\ o \in O BY <1>1 DEF ToSet
<1>3. /\ s \in Seq(K) /\ Follows(b, s) /\ PointsOf(s, Len(s)) = {ops[j] : j \in 1 .. i - 1}
      /\ i - 1 # 0 => s # <<>> /\ FeaturesOf(s[Len(s)]) = ops[i - 1].features
  BY DEF CallsFor
<1>4. {ops[j] : j \in 1 .. i} = {ops[j] : j \in 1 .. i - 1} \cup {o}
  <2>1. 1 .. i = (1 .. i - 1) \cup {i} BY <1>1
  <2> QED BY <2>1
<1> DEFINE changes == b.features # <<>> /\ (i = 1 \/ ops[i - 1].features # ops[i].features)
           r == s \o (IF changes THEN <<ClusterCall(t)>> ELSE <<>>)
<1>5. MoreCalls(b, ops, s, i) = r \o <<PointCall(o)>> BY DEF MoreCalls
<1> HIDE DEF Tx, O, K, o
<1>6. /\ r \in Seq(CallSet(Tx, O)) /\ Follows(b, r) /\ PointsOf(r, Len(r)) = PointsOf(s, Len(s))
      /\ b.features # <<>> => r # <<>> /\ FeaturesOf(r[Len(r)]) = t
  <2>1. CASE changes
    <3>1. r = s \o <<ClusterCall(t)>> BY <2>1
    <3> HIDE DEF r
    <3> QED BY <1>2, <1>3, <2>1, <3>1, ClusterFollows DEF K
  <2>2. CASE ~changes
    <3>1. r = s BY <1>3, <2>2, ConcatEmptySeq
    <3>2. b.features # <<>> => i - 1 # 0 /\ ops[i - 1].features = t BY <1>1, <2>2 DEF o
    <3> HIDE DEF r, changes
    <3> QED BY <1>3, <3>1, <3>2 DEF K
  <2> QED BY <2>1, <2>2
<1> HIDE DEF r, changes
<1> DEFINE u == r \o <<PointCall(o)>>
<1>7. /\ u \in Seq(CallSet(Tx, O)) /\ Follows(b, u) /\ PointsOf(u, Len(u)) = PointsOf(r, Len(r)) \cup {o}
      /\ u # <<>> /\ FeaturesOf(u[Len(u)]) = o.features
  BY <1>2, <1>6, PointFollows
<1> HIDE DEF u
<1> QED BY <1>3, <1>4, <1>5, <1>6, <1>7 DEF CallsFor, u, Tx, O, o

\* The calls for all of them.
LEMMA CallsFacts ==
  ASSUME NEW b, NEW S, NEW ops \in Seq(S)
  PROVE  CallsFor(b, ops, Calls(b, ops), Len(ops))
<1> DEFINE n == Len(ops)
           K == CallSet({ops[j].features : j \in DOMAIN ops}, ToSet(ops))
           more(s, i) == MoreCalls(b, ops, s, i)
           step == [p \in (0 .. n) \X Seq(K) |-> IF p[1] = 0 THEN <<>> ELSE more(p[2], p[1])]
           body(g) == [i \in 0 .. n |-> IF i = 0 THEN <<>> ELSE more(g[i - 1], i)]
           calls == CHOOSE g : g = body(g)
<1>1. n \in Nat /\ DOMAIN ops = 1 .. n OBVIOUS
<1>2. Calls(b, ops) = calls[n] BY DEF Calls, MoreCalls
<1>3. ASSUME NEW i \in 1 .. n, NEW s \in Seq(K) PROVE more(s, i) \in Seq(K)
  <2> DEFINE A == IF b.features # <<>> /\ (i = 1 \/ ops[i - 1].features # ops[i].features)
                  THEN <<ClusterCall(ops[i].features)>> ELSE <<>>
  <2>1. ClusterCall(ops[i].features) \in K /\ PointCall(ops[i]) \in K BY <1>1 DEF CallSet, ToSet
  <2> HIDE DEF K
  <2>2. A \in Seq(K) /\ <<PointCall(ops[i])>> \in Seq(K) BY <2>1
  <2>3. more(s, i) = (s \o A) \o <<PointCall(ops[i])>> BY DEF MoreCalls
  <2> HIDE DEF A, more
  <2>4. s \o A \in Seq(K) BY <2>2, ConcatProperties
  <2> QED BY <2>2, <2>3, <2>4, ConcatProperties
<1> HIDE DEF n, K, more
<1>4. step \in [(0 .. n) \X Seq(K) -> Seq(K)]
  <2>1. ASSUME NEW p \in (0 .. n) \X Seq(K) PROVE (IF p[1] = 0 THEN <<>> ELSE more(p[2], p[1])) \in Seq(K)
    <3>1. p[1] \in 0 .. n /\ p[2] \in Seq(K) OBVIOUS
    <3>2. p[1] # 0 => p[1] \in 1 .. n BY <1>1, <3>1
    <3>3. <<>> \in Seq(K) OBVIOUS
    <3> QED BY <1>3, <3>1, <3>2, <3>3
  <2> QED BY <2>1
<1>5. \A i \in 1 .. n, s \in Seq(K) : step[<<i, s>>] = more(s, i)
  <2> SUFFICES ASSUME NEW i \in 1 .. n, NEW s \in Seq(K) PROVE step[<<i, s>>] = more(s, i) OBVIOUS
  <2>1. <<i, s>> \in (0 .. n) \X Seq(K) /\ i # 0 /\ <<i, s>>[1] = i /\ <<i, s>>[2] = s BY <1>1
  <2> QED BY <2>1
<1> HIDE DEF step
<1>6. \E g : g = body(g)
  <2>1. PICK g \in [0 .. n -> Seq(K)] : Unfolds(g, 0, n, <<>>, step)
    <3>1. <<>> \in Seq(K) /\ 0 <= n /\ 0 \in Nat BY <1>1
    <3> QED BY <1>1, <1>4, <3>1, Recursion
  <2>2. ASSUME NEW i \in 0 .. n PROVE g[i] = IF i = 0 THEN <<>> ELSE more(g[i - 1], i)
    <3>1. g[i] = IF i = 0 THEN <<>> ELSE step[<<i, g[i - 1]>>] BY <2>1 DEF Unfolds
    <3>2. i # 0 => i \in 1 .. n /\ g[i - 1] \in Seq(K) BY <1>1, <2>1
    <3> QED BY <1>5, <3>1, <3>2
  <2> QED BY <2>2
<1>7. calls = body(calls) BY <1>6, Zenon
<1> HIDE DEF calls
<1>8. \A i \in 0 .. n : calls[i] = IF i = 0 THEN <<>> ELSE more(calls[i - 1], i) BY <1>7
<1> DEFINE T == {i \in 0 .. n : CallsFor(b, ops, calls[i], i)}
<1>9. 0 \in T
  <2>0. 0 \in 0 .. n BY <1>1
  <2>1. calls[0] = <<>> BY <1>8, <2>0, Zenon
  <2>2. /\ <<>> \in Seq(K) /\ Len(<<>>) = 0 /\ {ops[j] : j \in 1 .. 0} = {}
        /\ PointCalls(<<>>, 0) = {} /\ PointsOf(<<>>, 0) = {}
    BY DEF PointCalls, PointsOf
  <2>3. Follows(b, <<>>) BY <2>2 DEF Follows
  <2>4. CallsFor(b, ops, <<>>, 0) BY <2>2, <2>3 DEF CallsFor, K
  <2> QED BY <2>0, <2>1, <2>4
<1>10. ASSUME NEW m \in 0 .. n - 1, m \in T PROVE m + 1 \in T
  <2>1. m + 1 \in 1 .. n /\ m + 1 \in 0 .. n /\ m + 1 # 0 /\ (m + 1) - 1 = m BY <1>1
  <2>2. calls[m + 1] = more(calls[m], m + 1) BY <1>8, <2>1
  <2>3. CallsFor(b, ops, calls[m], (m + 1) - 1) BY <1>10, <2>1
  <2>4. CallsFor(b, ops, MoreCalls(b, ops, calls[m], m + 1), m + 1) BY <2>1, <2>3, MoreCallsFor DEF n
  <2> QED BY <2>1, <2>2, <2>4 DEF more
<1>11. n \in T
  <2> HIDE DEF T
  <2>1. 0 .. n \subseteq T BY <1>1, <1>9, <1>10, UpTo
  <2> QED BY <1>1, <2>1
<1> QED BY <1>2, <1>11 DEF n

----------------------------------------------------------------------------
(* What those calls do to the manager.                                     *)

Keys(Tx) == {Numbers(t) : t \in Tx} \cup {<<>>}
Managers(Tx, O) == [keys : Seq(Keys(Tx)), points : Seq(SUBSET O), active : Nat]
Start(b) ==
  IF b.features = <<>> THEN [keys |-> <<<<>>>>, points |-> <<{}>>, active |-> 1]
                       ELSE [keys |-> <<>>, points |-> <<>>, active |-> 0]
AfterCluster(b, m, f) ==
  [keys |-> Append(m.keys, f), points |-> Append(m.points, {}), active |-> Closest(b, f, Append(m.keys, f))]
AfterPoint(m, o) == [m EXCEPT !.points[m.active] = @ \cup {o}]
After(b, m, x) == IF x.call = "cluster" THEN AfterCluster(b, m, Numbers(x.features)) ELSE AfterPoint(m, x.op)

\* What appending a cluster does to the clusters.
LEMMA AppendFacts ==
  ASSUME NEW S, NEW s \in Seq(S), NEW x \in S
  PROVE  /\ Append(s, x) \in Seq(S) /\ Len(Append(s, x)) = Len(s) + 1 /\ Len(s) \in Nat
         /\ \A i \in 1 .. Len(s) : Append(s, x)[i] = s[i]
         /\ Append(s, x)[Len(s) + 1] = x
OBVIOUS

\* The manager before the first call.
LEMMA StartFacts ==
  ASSUME NEW b, NEW Tx, NEW O
  PROVE  Start(b) \in Managers(Tx, O)
<1>1. <<<<>>>> \in Seq(Keys(Tx)) /\ <<>> \in Seq(Keys(Tx))
  <2>1. <<>> \in Keys(Tx) BY DEF Keys
  <2> HIDE DEF Keys
  <2> QED BY <2>1
<1>2. <<{}>> \in Seq(SUBSET O) /\ <<>> \in Seq(SUBSET O) OBVIOUS
<1> QED BY <1>1, <1>2 DEF Start, Managers

\* The manager after a cluster was added: a cluster that is there is active.
LEMMA ClusterAfter ==
  ASSUME NEW b, NEW Tx, NEW O, NEW m \in Managers(Tx, O), NEW f \in Keys(Tx)
  PROVE  LET a == AfterCluster(b, m, f)
         IN  /\ a \in Managers(Tx, O) /\ a.keys = Append(m.keys, f) /\ a.points = Append(m.points, {})
             /\ a.active = Closest(b, f, a.keys) /\ a.active \in 1 .. Len(a.keys)
<1> DEFINE ks == Append(m.keys, f)
           ps == Append(m.points, {})
           c == ComparisonsOf(b)
           w == Closest(b, f, ks)
<1>1. m.keys \in Seq(Keys(Tx)) /\ m.points \in Seq(SUBSET O) BY DEF Managers
<1>2. ks \in Seq(Keys(Tx)) /\ Len(ks) = Len(m.keys) + 1 /\ Len(m.keys) \in Nat BY <1>1, AppendFacts
<1>3. {} \in SUBSET O OBVIOUS
<1>4. ps \in Seq(SUBSET O) BY <1>1, <1>3, AppendFacts
<1>5. w = Features(c)!ClosestOf(DistanceKind(b), f, ks) BY DEF Closest
<1> HIDE DEF ks, ps, c
<1>6. Len(ks) \in Nat \ {0} BY <1>2
<1>7. w \in 1 .. Len(ks) BY <1>5, <1>6, ClosestIsThere
<1> HIDE DEF w
<1>8. AfterCluster(b, m, f) = [keys |-> ks, points |-> ps, active |-> w] BY DEF AfterCluster, ks, ps, w
<1>9. w \in Nat BY <1>6, <1>7
<1> QED BY <1>2, <1>4, <1>7, <1>8, <1>9 DEF Managers, ks, ps, w

\* r is s with o in its element k.
WithPoint(r, s, k, o) ==
  /\ DOMAIN r = DOMAIN s
  /\ \A i \in DOMAIN s : r[i] = IF i = k THEN s[i] \cup {o} ELSE s[i]

\* The manager after an Operating Point was added to the active cluster.
LEMMA PointAfter ==
  ASSUME NEW Tx, NEW O, NEW m \in Managers(Tx, O), NEW o \in O
  PROVE  /\ AfterPoint(m, o) \in Managers(Tx, O)
         /\ AfterPoint(m, o).keys = m.keys /\ AfterPoint(m, o).active = m.active
         /\ WithPoint(AfterPoint(m, o).points, m.points, m.active, o)
<1> DEFINE ps == [m.points EXCEPT ![m.active] = m.points[m.active] \cup {o}]
<1>1. AfterPoint(m, o) = [m EXCEPT !.points = ps] BY DEF AfterPoint
<1>2. m.keys \in Seq(Keys(Tx)) /\ m.points \in Seq(SUBSET O) /\ m.active \in Nat BY DEF Managers
<1>3. /\ DOMAIN ps = DOMAIN m.points /\ ps = [i \in DOMAIN ps |-> ps[i]]
      /\ \A i \in DOMAIN m.points : ps[i] = IF i = m.active THEN m.points[i] \cup {o} ELSE m.points[i]
  OBVIOUS
<1>4. \A i \in DOMAIN m.points : m.points[i] \in SUBSET O BY <1>2
<1> HIDE DEF ps
<1>5. \A i \in DOMAIN m.points : ps[i] \in SUBSET O BY <1>3, <1>4
<1>6. ps \in Seq(SUBSET O) BY <1>2, <1>3, <1>5, MappedSeq
<1>7. /\ AfterPoint(m, o).points = ps /\ AfterPoint(m, o).keys = m.keys /\ AfterPoint(m, o).active = m.active
      /\ AfterPoint(m, o) \in Managers(Tx, O)
  BY <1>1, <1>2, <1>6 DEF Managers
<1>8. WithPoint(ps, m.points, m.active, o) BY <1>3 DEF WithPoint
<1> QED BY <1>7, <1>8

\* The manager before the first call and after each of them.
Course(b, calls, m) ==
  m[0] = Start(b) /\ \A i \in 1 .. Len(calls) : m[i] = After(b, m[i - 1], calls[i])

\* The manager after any of the calls.
LEMMA AfterType ==
  ASSUME NEW b, NEW Tx, NEW O, NEW m \in Managers(Tx, O), NEW x \in CallSet(Tx, O)
  PROVE  After(b, m, x) \in Managers(Tx, O)
<1>1. CASE x.call = "cluster" /\ x.features \in Tx
  <2>1. Numbers(x.features) \in Keys(Tx) BY <1>1 DEF Keys
  <2> QED BY <1>1, <2>1, ClusterAfter DEF After
<1>2. CASE x.call = "point" /\ x.op \in O
  BY <1>2, PointAfter DEF After
<1> QED BY <1>1, <1>2, CallFacts

\* Executed is where the calls lead, one after the other.
LEMMA ExecutedFacts ==
  ASSUME NEW b, NEW Tx, NEW O, NEW calls \in Seq(CallSet(Tx, O))
  PROVE  \E m : /\ Course(b, calls, m) /\ Executed(b, calls) = m[Len(calls)]
                /\ \A i \in 0 .. Len(calls) : m[i] \in Managers(Tx, O)
<1> DEFINE n == Len(calls)
           M == Managers(Tx, O)
           next(s, i) == After(b, s, calls[i])
           step == [p \in (0 .. n) \X M |-> IF p[1] = 0 THEN p[2] ELSE next(p[2], p[1])]
           body(g) == [i \in 0 .. n |-> IF i = 0 THEN Start(b) ELSE next(g[i - 1], i)]
           m == CHOOSE g : g = body(g)
<1>1. n \in Nat /\ DOMAIN calls = 1 .. n /\ \A i \in 1 .. n : calls[i] \in CallSet(Tx, O) OBVIOUS
<1>2. Executed(b, calls) = m[n] BY DEF Executed, After, AfterCluster, AfterPoint, Start
<1>3. ASSUME NEW i \in 1 .. n, NEW s \in M PROVE next(s, i) \in M BY <1>1, AfterType
<1>4. Start(b) \in M BY StartFacts
<1> HIDE DEF n, M, next
<1>5. step \in [(0 .. n) \X M -> M]
  <2>1. ASSUME NEW p \in (0 .. n) \X M PROVE (IF p[1] = 0 THEN p[2] ELSE next(p[2], p[1])) \in M
    <3>1. p[1] \in 0 .. n /\ p[2] \in M OBVIOUS
    <3>2. p[1] # 0 => p[1] \in 1 .. n BY <1>1, <3>1
    <3> QED BY <1>3, <3>1, <3>2
  <2> QED BY <2>1
<1>6. \A i \in 1 .. n, s \in M : step[<<i, s>>] = next(s, i)
  <2> SUFFICES ASSUME NEW i \in 1 .. n, NEW s \in M PROVE step[<<i, s>>] = next(s, i) OBVIOUS
  <2>1. <<i, s>> \in (0 .. n) \X M /\ i # 0 /\ <<i, s>>[1] = i /\ <<i, s>>[2] = s BY <1>1
  <2> QED BY <2>1
<1> HIDE DEF step
<1>7. \E g : g = body(g)
  <2>1. PICK g \in [0 .. n -> M] : Unfolds(g, 0, n, Start(b), step)
    <3>1. 0 <= n /\ 0 \in Nat BY <1>1
    <3> QED BY <1>1, <1>4, <1>5, <3>1, Recursion
  <2>2. ASSUME NEW i \in 0 .. n PROVE g[i] = IF i = 0 THEN Start(b) ELSE next(g[i - 1], i)
    <3>1. g[i] = IF i = 0 THEN Start(b) ELSE step[<<i, g[i - 1]>>] BY <2>1 DEF Unfolds
    <3>2. i # 0 => i \in 1 .. n /\ g[i - 1] \in M BY <1>1, <2>1
    <3> QED BY <1>6, <3>1, <3>2
  <2> QED BY <2>2
<1>8. m = body(m) BY <1>7, Zenon
<1> HIDE DEF m
<1>9. \A i \in 0 .. n : m[i] = IF i = 0 THEN Start(b) ELSE next(m[i - 1], i) BY <1>8
<1>10. m[0] = Start(b)
  <2>1. 0 \in 0 .. n BY <1>1
  <2> QED BY <1>9, <2>1, Zenon
<1>11. ASSUME NEW i \in 1 .. n PROVE m[i] = next(m[i - 1], i)
  <2>1. i \in 0 .. n /\ i # 0 BY <1>1
  <2> QED BY <1>9, <2>1, Zenon
<1> DEFINE T == {i \in 0 .. n : m[i] \in M}
<1>12. 0 \in T BY <1>1, <1>4, <1>10
<1>13. ASSUME NEW i \in 0 .. n - 1, i \in T PROVE i + 1 \in T
  <2>1. i + 1 \in 1 .. n /\ i + 1 \in 0 .. n /\ (i + 1) - 1 = i BY <1>1
  <2>2. m[i + 1] = next(m[i], i + 1) BY <1>11, <2>1
  <2>3. next(m[i], i + 1) \in M BY <1>3, <1>13, <2>1
  <2> QED BY <2>1, <2>2, <2>3
<1>14. \A i \in 0 .. n : m[i] \in M
  <2> HIDE DEF T
  <2>1. 0 .. n \subseteq T BY <1>1, <1>12, <1>13, UpTo
  <2> QED BY <2>1 DEF T
<1>15. Course(b, calls, m) BY <1>10, <1>11 DEF Course, next, n
<1> QED BY <1>2, <1>14, <1>15 DEF n, M

\* What ties the manager to the calls so far.
Reached(b, Tx, calls, a, i, exact) ==
  /\ Len(a.keys) = Len(a.points)
  /\ (b.features = <<>> \/ i # 0) => a.active \in 1 .. Len(a.keys)
  /\ UNION ToSet(a.points) = PointsOf(calls, i)
  /\ b.features = <<>> => a.keys = <<<<>>>>
  /\ b.features # <<>> => \A k \in 1 .. Len(a.keys) : \E t \in Tx : a.keys[k] = Numbers(t)
  /\ exact => \A k \in 1 .. Len(a.points) : \A o \in a.points[k] : a.keys[k] = Numbers(o.features)
  /\ exact /\ b.features # <<>> /\ i # 0 => a.keys[a.active] = Numbers(FeaturesOf(calls[i]))

\* The features are numbers, and no two disagree in some coordinates only, unless the
\* distance is Euclidean.
Located(b, Tx) ==
  /\ b.distance \in {"EUCLIDEAN", "NORMALIZED"}
  /\ \A i \in DOMAIN b.features : b.features[i].comparison \in FeatureComparisons
  /\ \A t \in Tx : Numbers(t) \in [1 .. Len(b.features) -> Int]
  /\ b.distance = "NORMALIZED" =>
       \A t, u \in Tx : Numbers(t) # Numbers(u) =>
         \A n \in 1 .. Len(b.features) : Numbers(t)[n] # Numbers(u)[n]

\* The Operating Points of one call more.
LEMMA PointsStep ==
  ASSUME NEW calls, NEW i \in Nat \ {0}
  PROVE  /\ calls[i].call = "point" => PointsOf(calls, i) = PointsOf(calls, i - 1) \cup {calls[i].op}
         /\ calls[i].call # "point" => PointsOf(calls, i) = PointsOf(calls, i - 1)
<1>1. 1 .. i = (1 .. i - 1) \cup {i} OBVIOUS
<1>2. CASE calls[i].call = "point"
  <2>1. PointCalls(calls, i) = PointCalls(calls, i - 1) \cup {i} BY <1>1, <1>2 DEF PointCalls
  <2> QED BY <1>2, <2>1 DEF PointsOf
<1>3. CASE calls[i].call # "point"
  <2>1. PointCalls(calls, i) = PointCalls(calls, i - 1) BY <1>1, <1>3 DEF PointCalls
  <2> QED BY <1>3, <2>1 DEF PointsOf
<1> QED BY <1>2, <1>3

\* An empty cluster adds no Operating Point.
LEMMA UnionAppend ==
  ASSUME NEW O, NEW s \in Seq(SUBSET O)
  PROVE  UNION ToSet(Append(s, {})) = UNION ToSet(s)
<1> DEFINE r == Append(s, {})
           n == Len(s)
<1>1. {} \in SUBSET O OBVIOUS
<1>2. /\ r \in Seq(SUBSET O) /\ Len(r) = n + 1 /\ n \in Nat
      /\ \A i \in 1 .. n : r[i] = s[i]
      /\ r[n + 1] = {}
  BY <1>1, AppendFacts
<1>3. DOMAIN r = 1 .. n + 1 /\ DOMAIN s = 1 .. n BY <1>2
<1> HIDE DEF r, n
<1>4. ASSUME NEW x \in UNION ToSet(r) PROVE x \in UNION ToSet(s)
  <2>1. PICK i \in 1 .. n + 1 : x \in r[i] BY <1>3 DEF ToSet
  <2>2. i \in 1 .. n BY <1>2, <2>1
  <2> QED BY <1>2, <1>3, <2>1, <2>2 DEF ToSet
<1>5. ASSUME NEW x \in UNION ToSet(s) PROVE x \in UNION ToSet(r)
  <2>1. PICK i \in 1 .. n : x \in s[i] BY <1>3 DEF ToSet
  <2>2. i \in 1 .. n + 1 /\ x \in r[i] BY <1>2, <2>1
  <2> QED BY <1>3, <2>2 DEF ToSet
<1>6. UNION ToSet(r) = UNION ToSet(s) BY <1>4, <1>5
<1> QED BY <1>6 DEF r

\* An Operating Point that one of the clusters gets is all there is more.
LEMMA UnionAdd ==
  ASSUME NEW s, NEW r, NEW k \in DOMAIN s, NEW o, WithPoint(r, s, k, o)
  PROVE  UNION ToSet(r) = (UNION ToSet(s)) \cup {o}
<1> USE DEF WithPoint
<1>1. ASSUME NEW x \in UNION ToSet(r) PROVE x \in (UNION ToSet(s)) \cup {o}
  <2>1. PICK i \in DOMAIN s : x \in r[i] BY DEF ToSet
  <2> QED BY <2>1 DEF ToSet
<1>2. ASSUME NEW x \in (UNION ToSet(s)) \cup {o} PROVE x \in UNION ToSet(r)
  <2>1. CASE x = o
    <3>1. o \in r[k] OBVIOUS
    <3> QED BY <2>1, <3>1 DEF ToSet
  <2>2. CASE x \in UNION ToSet(s)
    <3>1. PICK i \in DOMAIN s : x \in s[i] BY <2>2 DEF ToSet
    <3>2. x \in r[i] BY <3>1
    <3> QED BY <3>2 DEF ToSet
  <2> QED BY <2>1, <2>2
<1> QED BY <1>1, <1>2

\* The cluster that was just added is the one that is selected.
LEMMA AddedIsSelected ==
  ASSUME NEW b, NEW S, b.features \in Seq(S), b.features # <<>>, NEW Tx, Located(b, Tx), NEW t \in Tx,
         NEW keys, Len(keys) \in Nat \ {0}, \A k \in 1 .. Len(keys) : \E u \in Tx : keys[k] = Numbers(u),
         keys[Len(keys)] = Numbers(t)
  PROVE  keys[Closest(b, Numbers(t), keys)] = Numbers(t)
<1> DEFINE n == Len(b.features)
           c == ComparisonsOf(b)
           f == Numbers(t)
           kd == DistanceKind(b)
<1>1. n \in Nat \ {0} /\ DOMAIN b.features = 1 .. n BY EmptySeq
<1>2. \A i \in 1 .. n : c[i] \in FeatureComparisons BY <1>1 DEF Located, ComparisonsOf
<1>3. f \in [1 .. n -> Int] BY DEF Located
<1>4. \A k \in 1 .. Len(keys) : keys[k] \in [1 .. n -> Int]
  <2> SUFFICES ASSUME NEW k \in 1 .. Len(keys) PROVE keys[k] \in [1 .. n -> Int] OBVIOUS
  <2>1. PICK u \in Tx : keys[k] = Numbers(u) OBVIOUS
  <2> QED BY <2>1 DEF Located
<1>5. \/ kd = "EUCLIDEAN"
      \/ /\ kd \in {"NORMALIZED", "INTEGRAL"}
         /\ \A k \in 1 .. Len(keys) : keys[k] # f => \A j \in 1 .. n : keys[k][j] # f[j]
  <2>1. CASE b.distance = "EUCLIDEAN" BY <2>1 DEF DistanceKind
  <2>2. CASE b.distance = "NORMALIZED"
    <3>0. kd \in {"NORMALIZED", "INTEGRAL"} BY <2>2 DEF DistanceKind
    <3>1. ASSUME NEW k \in 1 .. Len(keys), keys[k] # f, NEW j \in 1 .. n PROVE keys[k][j] # f[j]
      <4>1. PICK u \in Tx : keys[k] = Numbers(u) OBVIOUS
      <4>2. Numbers(u) # Numbers(t) BY <3>1, <4>1
      <4>3. Numbers(u)[j] # Numbers(t)[j] BY <2>2, <4>2 DEF Located
      <4> QED BY <4>1, <4>3
    <3> QED BY <3>0, <3>1
  <2> QED BY <2>1, <2>2 DEF Located
<1>6. Closest(b, f, keys) = Features(c)!ClosestOf(kd, f, keys) BY DEF Closest
<1>7. keys[Len(keys)] = f /\ Len(keys) \in Nat \ {0} OBVIOUS
<1> HIDE DEF n, c, f, kd
<1>8. Comparable(c, n, f, keys) /\ Separate(n, kd, f, keys)
  BY <1>2, <1>3, <1>4, <1>5, <1>7 DEF Comparable, Separate
<1>9. keys[Features(c)!ClosestOf(kd, f, keys)] = f BY <1>1, <1>7, <1>8, LastWins
<1> QED BY <1>6, <1>9 DEF f

\* add_feature_cluster and select_feature_cluster: an empty cluster with the features,
\* and the active one has the same features.
LEMMA ClusterReached ==
  ASSUME NEW b, NEW S, b.features \in Seq(S), b.features # <<>>, NEW Tx, NEW O, NEW calls, NEW i \in Nat \ {0},
         calls[i].call = "cluster", calls[i].features \in Tx, NEW m \in Managers(Tx, O),
         NEW exact \in BOOLEAN, Reached(b, Tx, calls, m, i - 1, exact), exact => Located(b, Tx)
  PROVE  Reached(b, Tx, calls, After(b, m, calls[i]), i, exact)
<1> DEFINE t == calls[i].features
           f == Numbers(t)
           a == AfterCluster(b, m, f)
           l == Len(m.keys)
<1>1. f \in Keys(Tx) BY DEF Keys
<1>2. /\ a \in Managers(Tx, O) /\ a.keys = Append(m.keys, f) /\ a.points = Append(m.points, {})
      /\ a.active = Closest(b, f, a.keys) /\ a.active \in 1 .. Len(a.keys)
  BY <1>1, ClusterAfter
<1>3. m.keys \in Seq(Keys(Tx)) /\ m.points \in Seq(SUBSET O) BY DEF Managers
<1>4. Len(m.points) = l BY DEF Reached
<1> HIDE DEF a, f
<1>5. /\ Len(a.keys) = l + 1 /\ l \in Nat /\ \A k \in 1 .. l : a.keys[k] = m.keys[k]
      /\ a.keys[l + 1] = f
  BY <1>1, <1>2, <1>3, AppendFacts
<1>6. /\ Len(a.points) = l + 1 /\ \A k \in 1 .. l : a.points[k] = m.points[k]
      /\ a.points[l + 1] = {}
  <2>1. {} \in SUBSET O OBVIOUS
  <2> QED BY <1>2, <1>3, <1>4, <2>1, AppendFacts
<1>7. \A k \in 1 .. l + 1 : k \in 1 .. l \/ k = l + 1 BY <1>5
<1> HIDE DEF l
<1>8. UNION ToSet(a.points) = PointsOf(calls, i)
  <2>1. UNION ToSet(a.points) = UNION ToSet(m.points) BY <1>2, <1>3, UnionAppend
  <2>2. UNION ToSet(m.points) = PointsOf(calls, i - 1) BY DEF Reached
  <2>3. PointsOf(calls, i) = PointsOf(calls, i - 1) BY PointsStep
  <2> QED BY <2>1, <2>2, <2>3
<1>9. \A k \in 1 .. l + 1 : \E u \in Tx : a.keys[k] = Numbers(u)
  <2> SUFFICES ASSUME NEW k \in 1 .. l + 1 PROVE \E u \in Tx : a.keys[k] = Numbers(u) OBVIOUS
  <2>1. CASE k = l + 1 BY <1>5, <2>1 DEF f
  <2>2. CASE k \in 1 .. l
    <3>1. \E u \in Tx : m.keys[k] = Numbers(u) BY <2>2 DEF Reached, l
    <3> QED BY <1>5, <2>2, <3>1
  <2> QED BY <1>7, <2>1, <2>2
<1>10. ASSUME exact, NEW k \in 1 .. l + 1, NEW o \in a.points[k] PROVE a.keys[k] = Numbers(o.features)
  <2>1. k \in 1 .. l BY <1>6, <1>7, <1>10
  <2>2. o \in m.points[k] BY <1>6, <1>10, <2>1
  <2>3. m.keys[k] = Numbers(o.features) BY <1>4, <1>10, <2>1, <2>2 DEF Reached
  <2> QED BY <1>5, <2>1, <2>3
<1>11. ASSUME exact PROVE a.keys[a.active] = f
  <2>1. Len(a.keys) \in Nat \ {0} /\ a.keys[Len(a.keys)] = Numbers(t) BY <1>5 DEF f
  <2>2. \A k \in 1 .. Len(a.keys) : \E u \in Tx : a.keys[k] = Numbers(u) BY <1>5, <1>9
  <2>3. Located(b, Tx) BY <1>11
  <2>4. a.keys[Closest(b, Numbers(t), a.keys)] = Numbers(t) BY <2>1, <2>2, <2>3, AddedIsSelected
  <2> QED BY <1>2, <2>4 DEF f
<1>12. After(b, m, calls[i]) = a BY DEF After, a, f
<1>13. FeaturesOf(calls[i]) = t BY DEF FeaturesOf
<1>14. Reached(b, Tx, calls, a, i, exact)
  BY <1>2, <1>5, <1>6, <1>8, <1>9, <1>10, <1>11, <1>13 DEF Reached, f
<1> QED BY <1>12, <1>14

\* add_operating_points: into the active cluster, which has the features of the point.
LEMMA PointReached ==
  ASSUME NEW b, NEW Tx, NEW O, NEW calls, NEW i \in Nat \ {0},
         calls[i].call = "point", calls[i].op \in O, NEW m \in Managers(Tx, O),
         NEW exact \in BOOLEAN, Reached(b, Tx, calls, m, i - 1, exact),
         b.features # <<>> => i # 1 /\ FeaturesOf(calls[i - 1]) = calls[i].op.features,
         b.features = <<>> => Numbers(calls[i].op.features) = <<>>
  PROVE  Reached(b, Tx, calls, After(b, m, calls[i]), i, exact)
<1> DEFINE o == calls[i].op
           a == AfterPoint(m, o)
           l == Len(m.keys)
<1>0. o \in O OBVIOUS
<1> HIDE DEF o
<1>1. /\ a \in Managers(Tx, O) /\ a.keys = m.keys /\ a.active = m.active
      /\ WithPoint(a.points, m.points, m.active, o)
  BY <1>0, PointAfter
<1>2. m.points \in Seq(SUBSET O) /\ m.keys \in Seq(Keys(Tx)) /\ a.points \in Seq(SUBSET O)
  BY <1>1 DEF Managers
<1>3. Len(m.points) = l BY DEF Reached
<1> HIDE DEF a
<1>4. DOMAIN m.points = 1 .. l /\ l \in Nat /\ Len(a.points) = l BY <1>1, <1>2, <1>3 DEF WithPoint
<1>5. m.active \in 1 .. l
  <2>1. b.features = <<>> \/ i - 1 # 0 OBVIOUS
  <2> QED BY <2>1 DEF Reached
<1>6. exact => m.keys[m.active] = Numbers(o.features)
  <2>1. CASE b.features = <<>>
    <3>1. m.keys = <<<<>>>> BY <2>1 DEF Reached
    <3>2. m.active = 1 BY <1>5, <3>1
    <3> QED BY <2>1, <3>1, <3>2 DEF o
  <2>2. CASE b.features # <<>>
    <3>1. i - 1 # 0 BY <2>2
    <3>2. exact => m.keys[m.active] = Numbers(FeaturesOf(calls[i - 1])) BY <2>2, <3>1 DEF Reached
    <3> QED BY <2>2, <3>2 DEF o
  <2> QED BY <2>1, <2>2
<1>7. UNION ToSet(a.points) = PointsOf(calls, i)
  <2>1. UNION ToSet(a.points) = (UNION ToSet(m.points)) \cup {o}
    <3>1. m.active \in DOMAIN m.points BY <1>4, <1>5
    <3> QED BY <1>1, <3>1, UnionAdd
  <2>2. UNION ToSet(m.points) = PointsOf(calls, i - 1) BY DEF Reached
  <2>3. PointsOf(calls, i) = PointsOf(calls, i - 1) \cup {o} BY PointsStep DEF o
  <2> QED BY <2>1, <2>2, <2>3
<1>8. ASSUME exact, NEW k \in 1 .. l, NEW x \in a.points[k] PROVE m.keys[k] = Numbers(x.features)
  <2>1. CASE x \in m.points[k] BY <1>3, <1>8, <2>1 DEF Reached
  <2>2. CASE k = m.active /\ x = o BY <1>6, <1>8, <2>2
  <2> QED BY <1>1, <1>4, <1>8, <2>1, <2>2 DEF WithPoint
<1>9. exact /\ b.features # <<>> => a.keys[a.active] = Numbers(FeaturesOf(calls[i]))
  BY <1>1, <1>6 DEF FeaturesOf, o
<1>10. After(b, m, calls[i]) = a BY DEF After, a, o
<1>11. b.features # <<>> => \A k \in 1 .. Len(a.keys) : \E t \in Tx : a.keys[k] = Numbers(t)
  BY <1>1 DEF Reached
<1>12. b.features = <<>> => a.keys = <<<<>>>> BY <1>1 DEF Reached
<1>13. Reached(b, Tx, calls, a, i, exact)
  BY <1>1, <1>4, <1>5, <1>7, <1>8, <1>9, <1>11, <1>12 DEF Reached
<1> QED BY <1>10, <1>13

\* Before the first call there is no cluster, or one without features.
LEMMA StartReached ==
  ASSUME NEW b, NEW Tx, NEW calls, NEW exact \in BOOLEAN
  PROVE  Reached(b, Tx, calls, Start(b), 0, exact)
<1>1. PointsOf(calls, 0) = {} BY DEF PointsOf, PointCalls
<1>2. CASE b.features = <<>>
  <2>1. Start(b) = [keys |-> <<<<>>>>, points |-> <<{}>>, active |-> 1] BY <1>2 DEF Start
  <2>2. Len(<<{}>>) = 1 /\ Len(<<<<>>>>) = 1 /\ <<{}>>[1] = {} OBVIOUS
  <2>3. UNION ToSet(<<{}>>) = {} BY DEF ToSet
  <2> QED BY <1>1, <1>2, <2>1, <2>2, <2>3 DEF Reached
<1>3. CASE b.features # <<>>
  <2>1. Start(b) = [keys |-> <<>>, points |-> <<>>, active |-> 0] BY <1>3 DEF Start
  <2>2. Len(<<>>) = 0 OBVIOUS
  <2>3. UNION ToSet(<<>>) = {} BY DEF ToSet
  <2> QED BY <1>1, <1>3, <2>1, <2>2, <2>3 DEF Reached
<1> QED BY <1>2, <1>3

\* After the last call every Operating Point is in a cluster, and if the features are
\* located in one with its features.
LEMMA AllReached ==
  ASSUME NEW b, NEW S, b.features \in Seq(S), NEW Tx, NEW O, NEW calls \in Seq(CallSet(Tx, O)), Follows(b, calls),
         NEW exact \in BOOLEAN, b.features # <<>> => (exact => Located(b, Tx)),
         b.features = <<>> => \A o \in O : Numbers(o.features) = <<>>
  PROVE  Reached(b, Tx, calls, Executed(b, calls), Len(calls), exact)
<1> DEFINE n == Len(calls)
<1>1. PICK m : /\ Course(b, calls, m) /\ Executed(b, calls) = m[n]
               /\ \A i \in 0 .. n : m[i] \in Managers(Tx, O)
  BY ExecutedFacts
<1>2. n \in Nat /\ \A i \in 1 .. n : calls[i] \in CallSet(Tx, O) OBVIOUS
<1> DEFINE T == {i \in 0 .. n : Reached(b, Tx, calls, m[i], i, exact)}
<1>3. 0 \in T
  <2>1. m[0] = Start(b) BY <1>1 DEF Course
  <2>2. 0 \in 0 .. n BY <1>2
  <2> QED BY <2>1, <2>2, StartReached
<1>4. ASSUME NEW i \in 0 .. n - 1, i \in T PROVE i + 1 \in T
  <2> DEFINE k == i + 1
  <2>1. k \in 1 .. n /\ k \in 0 .. n /\ k \in Nat \ {0} /\ k - 1 = i /\ i \in 0 .. n BY <1>2
  <2>2. Reached(b, Tx, calls, m[k - 1], k - 1, exact) /\ m[k - 1] \in Managers(Tx, O) BY <1>1, <1>4, <2>1
  <2> HIDE DEF k
  <2>3. m[k] = After(b, m[k - 1], calls[k]) BY <1>1, <2>1 DEF Course
  <2>4. CASE calls[k].call = "cluster" /\ calls[k].features \in Tx
    <3>1. b.features # <<>> BY <2>1, <2>4 DEF Follows
    <3>2. exact => Located(b, Tx) BY <3>1
    <3>3. Reached(b, Tx, calls, m[k], k, exact) BY <2>1, <2>2, <2>3, <2>4, <3>1, <3>2, ClusterReached
    <3> QED BY <2>1, <3>3 DEF k
  <2>5. CASE calls[k].call = "point" /\ calls[k].op \in O
    <3>1. b.features # <<>> => k # 1 /\ FeaturesOf(calls[k - 1]) = calls[k].op.features
      BY <2>1, <2>5 DEF Follows, PointCalls
    <3>2. b.features = <<>> => Numbers(calls[k].op.features) = <<>> BY <2>5
    <3>3. Reached(b, Tx, calls, m[k], k, exact) BY <2>1, <2>2, <2>3, <2>5, <3>1, <3>2, PointReached
    <3> QED BY <2>1, <3>3 DEF k
  <2> QED BY <1>2, <2>1, <2>4, <2>5, CallFacts
<1>5. 0 .. n \subseteq T
  <2> HIDE DEF T, n
  <2> QED BY <1>2, <1>3, <1>4, UpTo
<1>6. n \in 0 .. n BY <1>2
<1> QED BY <1>1, <1>5, <1>6

\* What the calls have to do: PointsReachTheirCluster is about the block and its
\* Operating Points.
Arrived(b, ops, calls, exact) ==
  LET a == Executed(b, calls)
  IN  /\ b.features # <<>> => a.keys # <<>>
      /\ UNION ToSet(a.points) = ToSet(ops)
      /\ exact => \A k \in DOMAIN a.points : \A o \in a.points[k] : a.keys[k] = Numbers(o.features)

\* What ties the manager to all the calls is what the calls have to do.
LEMMA ReachedArrived ==
  ASSUME NEW b, NEW Tx, NEW O, NEW ops, NEW calls \in Seq(CallSet(Tx, O)), NEW exact \in BOOLEAN,
         Reached(b, Tx, calls, Executed(b, calls), Len(calls), exact),
         PointsOf(calls, Len(calls)) = ToSet(ops), b.features # <<>> => calls # <<>>
  PROVE  Arrived(b, ops, calls, exact)
<1> DEFINE a == Executed(b, calls)
           n == Len(calls)
<1>1. a \in Managers(Tx, O)
  <2>1. PICK m : /\ a = m[n] /\ \A i \in 0 .. n : m[i] \in Managers(Tx, O)
    BY ExecutedFacts
  <2>2. n \in 0 .. n OBVIOUS
  <2> QED BY <2>1, <2>2
<1>2. a.keys \in Seq(Keys(Tx)) /\ a.points \in Seq(SUBSET O) BY <1>1 DEF Managers
<1>3. b.features # <<>> => n # 0 BY EmptySeq
<1> HIDE DEF a
<1>4. Reached(b, Tx, calls, a, n, exact) BY DEF a
<1>5. DOMAIN a.points = 1 .. Len(a.points) BY <1>2
<1>6. b.features # <<>> => a.keys # <<>>
  <2>1. b.features # <<>> => a.active \in 1 .. Len(a.keys) BY <1>3, <1>4 DEF Reached
  <2> QED BY <1>2, <2>1
<1>7. UNION ToSet(a.points) = ToSet(ops) BY <1>4 DEF Reached
<1>8. exact => \A k \in DOMAIN a.points : \A o \in a.points[k] : a.keys[k] = Numbers(o.features)
  BY <1>4, <1>5 DEF Reached
<1> QED BY <1>6, <1>7, <1>8 DEF Arrived, a

\* Two Operating Points have features that differ, but not in every coordinate.
Agree(b, ops) ==
  \E i, j \in DOMAIN ops : \E n \in DOMAIN b.features :
    /\ Numbers(ops[i].features) # Numbers(ops[j].features)
    /\ Numbers(ops[i].features)[n] = Numbers(ops[j].features)[n]

TextsOf(ops) == {ops[j].features : j \in DOMAIN ops}

\* The numbers that the texts of the features stand for.
LEMMA NumbersFacts ==
  ASSUME NEW v, NEW file, ValidBlock(v, file), NEW ops, Featured(ops, file), NEW j \in DOMAIN ops
  PROVE  Numbers(ops[j].features) \in [1 .. Len(v.features) -> Int]
<1>1. v.features \in Seq(TypedFeature) /\ DOMAIN v.features = DOMAIN file.features BY DEF ValidBlock
<1>2. ops[j] \in OperatingPointElement /\ DOMAIN ops[j].features = DOMAIN file.features BY DEF Featured
<1>3. ops[j].features \in Seq(DOMAIN Value) BY <1>2 DEF OperatingPointElement
<1> DEFINE f == ops[j].features
<1>4. DOMAIN f = 1 .. Len(v.features) BY <1>1, <1>2
<1>5. \A i \in DOMAIN f : f[i] \in DOMAIN Value BY <1>3
<1> HIDE DEF f
<1>6. \A i \in DOMAIN f : Value[f[i]] \in Int BY <1>5, ValueAssumption
<1>7. Numbers(f) \in [1 .. Len(v.features) -> Int] BY <1>4, <1>6 DEF Numbers
<1> QED BY <1>7 DEF f

\* What the clusters of the Operating Points need to be told apart.
LEMMA PointsAreLocated ==
  ASSUME NEW v, NEW file, ValidBlock(v, file), NEW ops, Featured(ops, file), v.distance # "NONE",
         ~(v.distance = "NORMALIZED" /\ Agree(v, ops))
  PROVE  Located(v, TextsOf(ops))
<1>1. v.features \in Seq(TypedFeature) /\ v.distance \in {"EUCLIDEAN", "NORMALIZED"} BY DEF ValidBlock
<1>2. \A i \in DOMAIN v.features : v.features[i].comparison \in FeatureComparisons
  <2>1. \A i \in DOMAIN v.features : v.features[i] \in TypedFeature BY <1>1
  <2>2. \A feature \in TypedFeature : feature.comparison \in FeatureComparisons BY DEF TypedFeature
  <2> QED BY <2>1, <2>2
<1>3. \A t \in TextsOf(ops) : Numbers(t) \in [1 .. Len(v.features) -> Int] BY NumbersFacts DEF TextsOf
<1>4. DOMAIN v.features = 1 .. Len(v.features) BY <1>1
<1>5. ASSUME v.distance = "NORMALIZED", NEW t \in TextsOf(ops), NEW u \in TextsOf(ops), Numbers(t) # Numbers(u),
             NEW n \in 1 .. Len(v.features)
      PROVE  Numbers(t)[n] # Numbers(u)[n]
  <2>1. PICK i \in DOMAIN ops : t = ops[i].features BY <1>5 DEF TextsOf
  <2>2. PICK j \in DOMAIN ops : u = ops[j].features BY <1>5 DEF TextsOf
  <2>3. ~Agree(v, ops) BY <1>5
  <2> QED BY <1>4, <1>5, <2>1, <2>2, <2>3 DEF Agree
<1> QED BY <1>1, <1>2, <1>3, <1>5 DEF Located

\* add_application_knowledge with Operating Points.
LEMMA CallsArrive ==
  ASSUME NEW v, NEW file, ValidBlock(v, file), NEW ops, Featured(ops, file), ops # <<>>,
         v.features # <<>> => v.distance # "NONE", NEW exact \in BOOLEAN,
         exact => ~(v.distance = "NORMALIZED" /\ Agree(v, ops))
  PROVE  Arrived(v, ops, Calls(v, ops), exact)
<1> DEFINE Tx == TextsOf(ops)
           O == ToSet(ops)
           calls == Calls(v, ops)
           n == Len(ops)
<1>1. ops \in Seq(OperatingPointElement) /\ v.features \in Seq(TypedFeature) BY DEF Featured, ValidBlock
<1>2. n \in Nat /\ n # 0 /\ DOMAIN ops = 1 .. n BY <1>1, EmptySeq
<1>3. CallsFor(v, ops, calls, n) BY <1>1, CallsFacts
<1> HIDE DEF calls
<1>4. calls \in Seq(CallSet(Tx, O)) /\ Follows(v, calls) /\ calls # <<>> BY <1>2, <1>3 DEF CallsFor, TextsOf
<1>5. PointsOf(calls, Len(calls)) = O BY <1>2, <1>3 DEF CallsFor, ToSet
<1>6. v.features = <<>> => \A o \in O : Numbers(o.features) = <<>>
  <2> SUFFICES ASSUME v.features = <<>>, NEW o \in O PROVE Numbers(o.features) = <<>> OBVIOUS
  <2>1. PICK j \in DOMAIN ops : o = ops[j] BY DEF ToSet
  <2>2. Numbers(ops[j].features) \in [1 .. Len(v.features) -> Int] BY NumbersFacts
  <2>3. 1 .. Len(v.features) = {} BY <1>1
  <2> QED BY <2>1, <2>2, <2>3
<1>7. v.features # <<>> => (exact => Located(v, Tx)) BY PointsAreLocated
<1> HIDE DEF Tx, O
<1>8. Reached(v, Tx, calls, Executed(v, calls), Len(calls), exact) BY <1>1, <1>4, <1>6, <1>7, AllReached
<1>9. Arrived(v, ops, calls, exact) BY <1>4, <1>5, <1>8, ReachedArrived DEF O
<1> QED BY <1>9 DEF calls

\* Without Operating Points: nothing, or the fake cluster.
LEMMA FakeArrives ==
  ASSUME NEW v, NEW file, ValidBlock(v, file), NEW exact \in BOOLEAN
  PROVE  Arrived(v, <<>>, IF v.features = <<>> THEN <<>> ELSE FakeCluster(v), exact)
<1> DEFINE text == [i \in DOMAIN v.features |-> "1"]
           calls == IF v.features = <<>> THEN <<>> ELSE FakeCluster(v)
<1>1. v.features \in Seq(TypedFeature) BY DEF ValidBlock
<1>2. ClusterCall(text) \in CallSet({text}, {}) BY DEF CallSet
<1>3. FakeCluster(v) = <<ClusterCall(text)>> BY DEF FakeCluster
<1>4. ClusterCall(text).call = "cluster" BY DEF ClusterCall
<1>5. calls \in Seq(CallSet({text}, {}))
  <2> DEFINE K == CallSet({text}, {})
             x == ClusterCall(text)
  <2>1. x \in K BY <1>2
  <2> HIDE DEF K, x
  <2>2. <<x>> \in Seq(K) /\ <<>> \in Seq(K) BY <2>1
  <2> QED BY <1>3, <2>2 DEF K, x
<1>6. \A i \in 1 .. Len(calls) : calls[i].call = "cluster" BY <1>3, <1>4
<1>7. v.features = <<>> => Len(calls) = 0 OBVIOUS
<1>8. v.features # <<>> => calls # <<>> BY <1>3
<1> HIDE DEF calls
<1>9. PointCalls(calls, Len(calls)) = {} BY <1>6 DEF PointCalls
<1>10. Follows(v, calls) BY <1>5, <1>7, <1>9 DEF Follows
<1>11. PointsOf(calls, Len(calls)) = ToSet(<<>>) BY <1>9 DEF PointsOf, ToSet
<1>12. Reached(v, {text}, calls, Executed(v, calls), Len(calls), FALSE)
  <2> DEFINE Tx == {text}
             O == {}
             no == FALSE
  <2>1. /\ calls \in Seq(CallSet(Tx, O)) /\ no \in BOOLEAN
        /\ v.features # <<>> => (no => Located(v, Tx))
        /\ v.features = <<>> => \A o \in O : Numbers(o.features) = <<>>
    BY <1>5
  <2> HIDE DEF Tx, O, no
  <2>2. Reached(v, Tx, calls, Executed(v, calls), Len(calls), no) BY <1>1, <1>10, <2>1, AllReached
  <2> QED BY <2>2 DEF Tx, no
<1>13. Arrived(v, <<>>, calls, FALSE)
  <2> HIDE DEF text
  <2> QED BY <1>5, <1>8, <1>11, <1>12, ReachedArrived
<1>14. Arrived(v, <<>>, calls, exact)
  <2>1. UNION ToSet(Executed(v, calls).points) = {} BY <1>13 DEF Arrived, ToSet
  <2>2. \A k \in DOMAIN Executed(v, calls).points : Executed(v, calls).points[k] = {} BY <2>1 DEF ToSet
  <2> QED BY <1>13, <2>2 DEF Arrived
<1> QED BY <1>14 DEF calls

\* A distance that cpp_enum can name is one of the two.
LEMMA DistanceIsNamed ==
  ASSUME ~Unnameable, block.knobs # <<>>, block.features # <<>>
  PROVE  block.distance # "NONE"
<1>1. block.distance \in CppEnum BY DEF Unnameable
<1>2. DOMAIN GoalNames = {"LESS_OR_EQUAL", "GREATER_OR_EQUAL", "LESS", "GREATER"} BY DEF GoalNames
<1> QED BY <1>1, <1>2 DEF CppEnum

\* knowledge_cpp_content: the generated calls leave every Operating Point in its cluster.
LEMMA PointsArrive ==
  ASSUME HeelInv, stage = "done"
  PROVE  PointsReachTheirCluster
<1> SUFFICES ASSUME block.knobs # <<>> PROVE PointsReachTheirCluster BY DEF PointsReachTheirCluster
<1> DEFINE exact == ~(block.distance = "NORMALIZED" /\ Agree(block, points))
<1>1. /\ input.file \in Description /\ BlockUnderstood(input.file) /\ Validated(block, input.file)
      /\ Featured(points, input.file) /\ ~Unnameable /\ interface = KnowledgeCpp(block, points)
  BY DEF HeelInv
<1>2. ValidBlock(block, input.file) BY <1>1, ValidatedSections
<1>3. block.features # <<>> => block.distance # "NONE" BY <1>1, DistanceIsNamed
<1>4. exact \in BOOLEAN OBVIOUS
<1>5. Arrived(block, points, interface, exact)
  <2>1. CASE points = <<>>
    <3>1. interface = IF block.features = <<>> THEN <<>> ELSE FakeCluster(block) BY <1>1, <2>1 DEF KnowledgeCpp
    <3> HIDE DEF exact
    <3> QED BY <1>2, <1>4, <2>1, <3>1, FakeArrives
  <2>2. CASE points # <<>>
    <3>1. interface = Calls(block, points) BY <1>1, <2>2 DEF KnowledgeCpp
    <3>2. exact => ~(block.distance = "NORMALIZED" /\ Agree(block, points)) OBVIOUS
    <3> HIDE DEF exact
    <3> QED BY <1>1, <1>2, <1>3, <1>4, <2>2, <3>1, <3>2, CallsArrive
  <2> QED BY <2>1, <2>2
<1> QED BY <1>5 DEF Arrived, Agree, PointsReachTheirCluster

\* knowledge_cpp_content, the emitter of the states and the enums of the knobs: code
\* that is generated and compiles builds the manager the user described.
THEOREM ManagerAlwaysAsDescribed == HeelSpec => []ManagerIsAsDescribed
<1>1. HeelInv => ManagerIsAsDescribed
  <2> SUFFICES ASSUME HeelInv, stage = "done", Compiles(block, points)
               PROVE  PointsReachTheirCluster /\ StatesAreAsDescribed /\ StringsComeBack
    BY DEF ManagerIsAsDescribed
  <2>1. ValidBlock(block, input.file) BY ValidatedSections DEF HeelInv
  <2>2. block.knobs \in Seq(TypedKnob) /\ block.states \in Seq(ParsedState) BY <2>1 DEF ValidBlock
  <2>3. PointsReachTheirCluster BY PointsArrive
  <2>4. StatesAreAsDescribed
    <3>1. IsInjective(GoalIdentifiers(block)) BY DEF Compiles
    <3>2. ASSUME IsInjective([i \in DOMAIN block.states |-> block.states[i].name]), NEW i \in DOMAIN block.states
          PROVE  AsDescribed(StateCalls(block.states)[block.states[i].name], block.states[i])
      BY <2>2, <3>1, <3>2, StatesDescribed
    <3> QED BY <3>2 DEF StatesAreAsDescribed, AsDescribed
  <2>5. StringsComeBack
    <3> SUFFICES ASSUME NEW knob \in ToSet(block.knobs), knob.type = "string", NEW v \in ToSet(knob.values)
                 PROVE  KnobSet(knob, KnobToVal(knob, v)) = v
      BY DEF StringsComeBack
    <3>1. knob \in TypedKnob BY <2>2 DEF ToSet
    <3>2. knob.values \in Seq(Int) BY <3>1 DEF TypedKnob
    <3> QED BY <3>2, StringComesBack
  <2> QED BY <2>3, <2>4, <2>5
<1> QED BY <1>1, HeelAlways, PTL

=============================================================================
