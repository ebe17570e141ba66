-------------------------------- MODULE Heel --------------------------------
(***************************************************************************)
(* The generator of the adaptive interface: it parses the description of a *)
(* block, validates it, parses files of Operating Points, and writes the   *)
(* code that fills the manager and the description that Agora parses.      *)
(*                                                                         *)
(* Blocks are independent, so there is one.  Names are numbers in the      *)
(* order of the strings, 0 is the empty one.  A field of an Operating      *)
(* Point is the text of the file.                                          *)
(***************************************************************************)
EXTENDS Integers, SequencesExt, TLC

CONSTANTS
  Projects,      \* what a user may give: a description and files of Operating Points
  Identifiers,   \* the names that C++ accepts
  Value          \* the number each text of a feature stands for

ASSUME HeelAssumption == 0 \notin Identifiers

\* The elements of a description, with what the parser takes for a tag that is missing.
\* The kinds of a rank are in the order in which they are looked for.
RankKinds ==
  <<<<"minimize", "geometric">>, <<"minimize", "linear">>, <<"maximize", "geometric">>, <<"maximize", "linear">>>>
KnobElement == [name : Nat, type : STRING, values : Seq(Int), range : Seq(Int)]
MetricElement ==
  [name : Nat, type : STRING, monitor : Nat, plugin : BOOLEAN, parameters : BOOLEAN, reactive : BOOLEAN,
   distribution : STRING]
MonitorElement == [name : Nat, type : STRING, parameters : [1 .. 3 -> Nat], log : SUBSET STRING]
FeatureElement == [name : Nat, type : STRING, comparison : STRING]
ConstraintElement == [subject : Nat, comparison : STRING, value : STRING]
StateElement ==
  [name : Nat, ranks : [ToSet(RankKinds) -> SUBSET Nat], constraints : Seq(ConstraintElement)]
AgoraElement == [url : BOOLEAN, qos : STRING, plugins : BOOLEAN]
Description ==
  [knobs : Seq(KnobElement), metrics : Seq(MetricElement), monitors : Seq(MonitorElement),
   features : Seq(FeatureElement), distance : STRING, agora : AgoraElement, states : Seq(StateElement),
   segments : {<<>>}]

\* An Operating Point: the texts of its features, the shapes of the fields of its knobs
\* and metrics, and what else tells it from the others.
OperatingPointElement == [features : Seq(DOMAIN Value), fields : Seq(STRING), id : Nat]

\* parse_op_field refuses an Operating Point without one of the features.
ASSUME ProjectsAssumption ==
  /\ Projects \subseteq [file : Description, files : Seq(Seq(OperatingPointElement))]
  /\ \A p \in Projects : \A i \in DOMAIN p.files : \A j \in DOMAIN p.files[i] :
       DOMAIN p.files[i][j].features = DOMAIN p.file.features

ASSUME ValueAssumption == \A text \in DOMAIN Value : Value[text] \in Int

VARIABLES
  input,      \* what the user gave
  stage,      \* how far the tool is
  block,      \* block_model
  points,     \* its Operating Points
  interface,  \* the calls of add_application_knowledge, in order
  description \* what the generated code sends to Agora

heelVars == <<input, stage, block, points, interface, description>>

Sections == {"features", "knobs", "metrics", "monitors", "states"}

HeelInit ==
  /\ input \in Projects /\ stage = "parse"
  /\ block = <<>> /\ points = <<>> /\ interface = <<>> /\ description = <<>>

----------------------------------------------------------------------------
(* Types.                                                                  *)

\* ctype_promotions: signed, unsigned and floating point.
Promotions ==
  {<<"int8_t", "int16_t", "int32_t", "int64_t">>,
   <<"uint8_t", "uint16_t", "uint32_t", "uint64_t">>,
   <<"float", "double", "long double">>}
Numeric == UNION {ToSet(p) : p \in Promotions}
TypeNames == Numeric \cup {"string", ""}

\* typer and sanitize_type, where long has 64 bits: the ways the user may write each
\* type.  There is no name for char and long long.
Aliases(name) ==
  CASE name = "int8_t" -> {"int8_t", "int_fast8_t", "int_least8_t"}
    [] name = "int16_t" -> {"int16_t", "short", "short int", "int_least16_t"}
    [] name = "int32_t" -> {"int32_t", "int", "int_least32_t"}
    [] name = "int64_t" -> {"int64_t", "long", "long int", "int_fast16_t", "int_fast32_t", "int_fast64_t",
                            "int_least64_t", "intmax_t", "intptr_t"}
    [] name = "uint8_t" -> {"uint8_t", "unsigned char", "char unsigned", "uint_fast8_t", "uint_least8_t"}
    [] name = "uint16_t" -> {"uint16_t", "unsigned short", "unsigned short int", "short unsigned",
                             "short unsigned int", "uint_least16_t"}
    [] name = "uint32_t" -> {"uint32_t", "unsigned", "unsigned int", "uint_least32_t"}
    [] name = "uint64_t" -> {"uint64_t", "unsigned long", "unsigned long int", "long unsigned",
                             "long unsigned int", "uint_fast16_t", "uint_fast32_t", "uint_fast64_t",
                             "uint_least64_t", "uintmax_t", "uintptr_t"}
    [] name = "long double" -> {"long double", "double long"}
    [] name \in {"float", "double"} -> {name}
    [] name = "string" -> {"string", "std::string"}
    [] name = "" -> {"char", "long long", "long long int", "unsigned long long", "unsigned long long int",
                     "long long unsigned", "long long unsigned int", "long unsigned long",
                     "long unsigned long int"}

Understood(type) == \E name \in TypeNames : type \in Aliases(name)
Unaliased(type) == CHOOSE name \in TypeNames : type \in Aliases(name)

\* Does a field of type small fit in one of type large?
Holds(large, small) ==
  \E p \in Promotions : \E i, j \in DOMAIN p : p[i] = small /\ p[j] = large /\ i <= j

\* Mutant: the first type after the sort.
SmallestOf(types) ==
  IF Cardinality(DOMAIN types) = 1 THEN ToSet(types)
  ELSE {t \in ToSet(types) : \A u \in ToSet(types) : Holds(u, t)}

\* type_sorter and back(): a type alone is not compared; two of different
\* categories, or without a name, are refused.
SegmentTypeOf(types) ==
  IF Cardinality(DOMAIN types) = 1 THEN ToSet(types)
  ELSE {t \in ToSet(types) : \A u \in ToSet(types) : Holds(t, u)}

----------------------------------------------------------------------------
(* Ranges of values, as numbers: a minimum, a maximum and maybe a step.    *)

StepOf(range) == IF Len(range) >= 3 THEN range[3] ELSE 1
EightBits == {"int8_t", "uint8_t"}

\* The types of 16 bits wrap around; the ranges of wider ones do not get there here.
Least == [int16_t |-> -(2^15), uint16_t |-> 0]
Wrapped(type, n) == IF type \in DOMAIN Least THEN Least[type] + ((n - Least[type]) % (2^16)) ELSE n

ASSUME RangesAssumption ==
  \A p \in Projects : \A i \in DOMAIN p.file.knobs :
    p.file.knobs[i].type \in Aliases("uint32_t") \cup Aliases("uint64_t") =>
      \A n \in DOMAIN p.file.knobs[i].range : p.file.knobs[i].range[n] >= 0

\* lexical_cast takes one character for 8 bits, of which the code counts, and a minus
\* sign for unsigned ones.
Castable(type, n) ==
  /\ type \in EightBits => n \in 0 .. 9
  /\ type = "int16_t" => n \in -(2^15) .. 2^15 - 1
  /\ type = "uint16_t" => n \in 1 - 2^16 .. 2^16 - 1
Cast(type, n) == IF type \in EightBits THEN 48 + n ELSE n

\* The loop of generate: its variable after n turns, and whether that ends it.
Nth(type, range, n) == Wrapped(type, Cast(type, range[1]) + n * Cast(type, StepOf(range)))
Leaves(type, range, n) == Nth(type, range, n) >= Wrapped(type, Cast(type, range[2]))

\* What does not leave the range after so many turns never does.
Turns(type, range) ==
  IF type \in DOMAIN Least THEN 2^16 ELSE IF range[1] < range[2] THEN range[2] - range[1] ELSE 0
Endless(type, range) == {n \in 0 .. Turns(type, range) : Leaves(type, range, n)} = {}

Generate(type, range) ==
  LET size == CHOOSE n \in 0 .. Turns(type, range) :
                Leaves(type, range, n) /\ \A m \in 0 .. n - 1 : ~Leaves(type, range, m)
  IN  [n \in 1 .. size |-> Nth(type, range, n - 1)]

\* compute_range refuses what is not a range of numbers of the type.
Computable(type, range) ==
  /\ Len(range) >= 2 /\ Understood(type) /\ Unaliased(type) \in Numeric
  /\ \A n \in {range[1], range[2], StepOf(range)} : Castable(Unaliased(type), n)

----------------------------------------------------------------------------
(* Parsing: an element that is not understood is refused.                  *)

ComputesRange(knob) == knob.values = <<>> /\ knob.range # <<>>
KnobLoops(knob) ==
  ComputesRange(knob) /\ Computable(knob.type, knob.range) /\ Endless(Unaliased(knob.type), knob.range)
KnobUnderstood(knob) ==
  ComputesRange(knob) => Computable(knob.type, knob.range) /\ ~Endless(Unaliased(knob.type), knob.range)
ParseKnob(knob) ==
  [name |-> knob.name, type |-> knob.type,
   values |-> IF ComputesRange(knob) THEN Generate(Unaliased(knob.type), knob.range) ELSE knob.values]

\* is_bool
IsYes(text) == text \in {"1", "true", "yes", "enabled", "on", "high"}
IsNo(text)  == text \in {"0", "false", "no", "disabled", "off", "low"}
MetricUnderstood(metric) ==
  metric.distribution = "" \/ IsYes(metric.distribution) \/ IsNo(metric.distribution)
ParseMetric(metric) == [metric EXCEPT !.distribution = IsYes(@)]

ComparisonOf(text) ==
  CASE text = "le" -> "LESS_OR_EQUAL" [] text = "ge" -> "GREATER_OR_EQUAL" [] text \in {"-", ""} -> "DONT_CARE"
FeatureUnderstood(feature) == feature.comparison \in {"le", "ge", "-", ""}
ParseFeature(feature) == [feature EXCEPT !.comparison = ComparisonOf(@)]

\* goal_comparison: its names in the file.
GoalNames == [LESS_OR_EQUAL |-> "le", GREATER_OR_EQUAL |-> "ge", LESS |-> "lt", GREATER |-> "gt"]
GoalOf(text) == CHOOSE g \in DOMAIN GoalNames : GoalNames[g] = text
ParseConstraint(constraint) == [constraint EXCEPT !.comparison = GoalOf(@)]

\* The rank is of the first kind that has fields.
StateUnderstood(state) ==
  \A i \in DOMAIN state.constraints : state.constraints[i].comparison \in {GoalNames[g] : g \in DOMAIN GoalNames}
ParseState(state) ==
  LET first == SelectInSeq(RankKinds, LAMBDA k : state.ranks[k] # {})
  IN  [name |-> state.name,
       constraints |-> [i \in DOMAIN state.constraints |-> ParseConstraint(state.constraints[i])],
       kind |-> IF first = 0 THEN <<"none", "none">> ELSE RankKinds[first],
       rank |-> IF first = 0 THEN {} ELSE state.ranks[RankKinds[first]]]

OrdersOf(seq) == {[i \in DOMAIN seq |-> seq[p[i]]] : p \in Bijection(DOMAIN seq, DOMAIN seq)}

\* std::sort by name: elements with equal names come in any order.
SortedByName(seq) ==
  {s \in OrdersOf(seq) : \A i \in 1 .. Len(s) - 1 : s[i].name <= s[i + 1].name}

Each(Parse(_), seq) == [i \in DOMAIN seq |-> Parse(seq[i])]

BlockUnderstood(file) ==
  /\ file.distance \in {"", "euclidean", "normalized"}
  /\ \A i \in DOMAIN file.knobs : KnobUnderstood(file.knobs[i])
  /\ \A i \in DOMAIN file.metrics : MetricUnderstood(file.metrics[i])
  /\ \A i \in DOMAIN file.features : FeatureUnderstood(file.features[i])
  /\ \A i \in DOMAIN file.states : StateUnderstood(file.states[i])

DistanceOf(text) ==
  CASE text = "euclidean" -> "EUCLIDEAN" [] text = "normalized" -> "NORMALIZED" [] text = "" -> "NONE"

\* parse of a block: everything but the states is sorted.
ParseBlock(file) ==
  {[file EXCEPT !.knobs = sorted.knobs, !.metrics = sorted.metrics, !.monitors = sorted.monitors,
                !.features = sorted.features, !.states = Each(ParseState, @), !.distance = DistanceOf(@)] :
     sorted \in [knobs : SortedByName(Each(ParseKnob, file.knobs)),
                metrics : SortedByName(Each(ParseMetric, file.metrics)),
                monitors : SortedByName(file.monitors),
                features : SortedByName(Each(ParseFeature, file.features))]}

\* The knobs are parsed before anything else that may be refused.
BlockLoops(file) ==
  \E i \in DOMAIN file.knobs :
    KnobLoops(file.knobs[i]) /\ \A j \in 1 .. i - 1 : KnobUnderstood(file.knobs[j])

Parses ==
  /\ stage = "parse"
  /\ \/ BlockUnderstood(input.file) /\ block' \in ParseBlock(input.file) /\ stage' = "validate"
     \/ BlockLoops(input.file) /\ stage' = "endless" /\ UNCHANGED block
     \/ /\ ~BlockUnderstood(input.file) /\ ~BlockLoops(input.file)
        /\ stage' = "failed" /\ UNCHANGED block
  /\ UNCHANGED <<input, points, interface, description>>

----------------------------------------------------------------------------
(* Validation.                                                             *)

\* set_name: "feature_1", "feature_2" and so on are all different from "knob_1".
DefaultName(section, i) ==
  10 * i + (CHOOSE n \in 1 .. 5 : <<"features", "knobs", "metrics", "monitors", "states">>[n] = section)

SetNames(seq, section) ==
  [i \in DOMAIN seq |->
     IF seq[i].name = 0 THEN [seq[i] EXCEPT !.name = DefaultName(section, i)] ELSE seq[i]]

\* check_uniqueness: std::unique looks at neighbours.
CheckUniqueness(seq) == \A i \in 1 .. Len(seq) - 1 : seq[i].name # seq[i + 1].name

Sanitized(seq) == [i \in DOMAIN seq |-> [seq[i] EXCEPT !.type = Unaliased(@)]]
NamesOf(seq) == {seq[i].name : i \in DOMAIN seq}
TypesOf(seq) == [i \in DOMAIN seq |-> seq[i].type]

Named(b) ==
  [s \in DOMAIN b |-> IF s \in Sections THEN SetNames(b[s], s) ELSE b[s]]

ValidateKnob(knob) == knob.type = "string" => knob.values # <<>>

\* known_monitors: how many parameters initialise, start and stop each; any other
\* type that is a number is a custom monitor.
KnownMonitors ==
  [collector |-> <<4, 0, 0>>, energy |-> <<3, 0, 0>>, frequency |-> <<1, 0, 0>>, memory |-> <<1, 0, 0>>,
   odroid_energy |-> <<3, 0, 0>>, odroid_power |-> <<1, 0, 0>>, papi |-> <<2, 0, 0>>,
   process_cpu |-> <<2, 0, 0>>, system_cpu |-> <<1, 0, 0>>, temperature |-> <<1, 0, 0>>,
   throughput |-> <<1, 0, 1>>, time |-> <<2, 0, 0>>]
CustomMonitor == <<1, 0, 1>>
SpecOf(type) == IF type \in DOMAIN KnownMonitors THEN KnownMonitors[type] ELSE CustomMonitor
AvailableStatistics == {"average", "standard_deviation", "max", "min"}

\* The parameters are all given or all left to their defaults.
ValidateMonitor(monitor) ==
  /\ \/ monitor.type \in DOMAIN KnownMonitors
     \/ Understood(monitor.type) /\ Unaliased(monitor.type) # "string"
  /\ \A i \in DOMAIN monitor.parameters : monitor.parameters[i] \in {0, SpecOf(monitor.type)[i]}
  /\ monitor.log \subseteq AvailableStatistics

WithDefaults(seq) == [i \in DOMAIN seq |-> [seq[i] EXCEPT !.parameters = SpecOf(seq[i].type)]]

ValidateMetric(metric, b) ==
  /\ metric.type # "string" /\ (metric.parameters => metric.plugin)
  /\ metric.monitor # 0 => metric.monitor \in NamesOf(b.monitors)
  /\ metric.reactive => metric.monitor # 0

\* agora_model::empty: a section without an url is no section.
WithAgora(b) == b.agora.url

ValidateAgora(b) ==
  WithAgora(b) =>
    /\ b.agora.qos \in {"0", "1", "2"} /\ b.agora.plugins /\ b.metrics # <<>>
    /\ \A i \in DOMAIN b.metrics : b.metrics[i].monitor # 0 /\ b.metrics[i].plugin
    /\ \A i \in DOMAIN b.knobs : b.knobs[i].values # <<>>

ValidateState(state, b) ==
  /\ state.rank # {} => state.kind # <<"none", "none">>
  /\ \A i \in DOMAIN state.constraints : state.constraints[i].value # ""
  /\ state.rank \cup {state.constraints[i].subject : i \in DOMAIN state.constraints}
       \subseteq NamesOf(b.knobs) \cup NamesOf(b.metrics)

ValidateFeatures(b) ==
  IF b.features = <<>> THEN b.distance = "NONE" ELSE "string" \notin ToSet(TypesOf(b.features))

\* The type of each segment; knobs that are all strings are enums.
KnobTypes(b) ==
  LET types == RestrictValues(TypesOf(b.knobs), LAMBDA t : t # "string")
  IN  IF DOMAIN types = {} THEN <<"int32_t">> ELSE types
SegmentsOf(b) ==
  [knobs : SegmentTypeOf(KnobTypes(b)),
   metrics : IF b.metrics = <<>> THEN {""} ELSE SegmentTypeOf(TypesOf(b.metrics)),
   features : IF b.features = <<>> THEN {""} ELSE SegmentTypeOf(TypesOf(b.features))]

\* What validate makes of a block it accepts.
Typed(b) ==
  [Named(b) EXCEPT !.knobs = Sanitized(@), !.metrics = Sanitized(@), !.features = Sanitized(@),
                   !.monitors = WithDefaults(@)]

Accepted(b) ==
  /\ \A s \in Sections : CheckUniqueness(Named(b)[s]) /\ NamesOf(Named(b)[s]) \subseteq Identifiers
  /\ NamesOf(Named(b).knobs) \cap NamesOf(Named(b).metrics) = {}
  /\ \A s \in {"knobs", "metrics", "features"} : \A t \in ToSet(TypesOf(b[s])) : Understood(t)
  /\ \A i \in DOMAIN b.monitors : ValidateMonitor(b.monitors[i])
  /\ LET v == Typed(b)
     IN  /\ \A i \in DOMAIN v.knobs : ValidateKnob(v.knobs[i])
         /\ \A i \in DOMAIN v.metrics : ValidateMetric(v.metrics[i], v)
         /\ ValidateFeatures(v) /\ ValidateAgora(v)
         /\ \A i \in DOMAIN v.states : ValidateState(v.states[i], v)
         /\ SegmentsOf(v) # {}
         /\ (v.knobs = <<>>) = (v.metrics = <<>>)

Validates ==
  /\ stage = "validate"
  /\ \/ /\ Accepted(block)
        /\ \E types \in SegmentsOf(Typed(block)) : block' = [Typed(block) EXCEPT !.segments = types]
        /\ stage' = "points"
     \/ ~Accepted(block) /\ stage' = "failed" /\ UNCHANGED block
  /\ UNCHANGED <<input, points, interface, description>>

----------------------------------------------------------------------------
(* The files of Operating Points.                                          *)

\* parse_op_field: a value, or a mean and a standard deviation.
FieldUnderstood(shape) == shape \in {"value", "distribution"}
PointsUnderstood(ops) == \A i \in DOMAIN ops : \A n \in DOMAIN ops[i].fields : FieldUnderstood(ops[i].fields[n])

\* parse of a file that is not the first: Agora and a list of Operating Points
\* exclude each other.
ReadsPoints ==
  /\ stage = "points" /\ input.files # <<>>
  /\ LET ops == points \o Head(input.files)
     IN  \/ /\ PointsUnderstood(ops) /\ ~(WithAgora(block) /\ ops # <<>>)
            /\ points' = ops /\ UNCHANGED stage
         \/ /\ ~PointsUnderstood(ops) \/ (WithAgora(block) /\ ops # <<>>)
            /\ stage' = "failed" /\ UNCHANGED points
  /\ input' = [input EXCEPT !.files = Tail(@)]
  /\ UNCHANGED <<block, interface, description>>

----------------------------------------------------------------------------
(* Generation.                                                             *)

\* std::sort by the text of the features: equal ones are neighbours.
SortedByFeatures(ops) ==
  {s \in OrdersOf(ops) :
     \A i, j \in DOMAIN s : (i < j /\ s[i].features = s[j].features)
       => \A n \in i .. j : s[n].features = s[i].features}

ClusterCall(features) == [call |-> "cluster", features |-> features]
PointCall(op) == [call |-> "point", op |-> op]

\* Mutant: only the first Operating Point starts a cluster.
CallsForgetful(b, ops) ==
  (IF b.features = <<>> \/ ops = <<>> THEN <<>> ELSE <<ClusterCall(ops[1].features)>>)
    \o [i \in DOMAIN ops |-> PointCall(ops[i])]

\* knowledge_cpp_content: add_feature_cluster and select_feature_cluster where the
\* text of the features changes.
Calls(b, ops) ==
  LET Changes(i) == b.features # <<>> /\ (i = 1 \/ ops[i - 1].features # ops[i].features)
      calls[i \in 0 .. Len(ops)] ==
        IF i = 0 THEN <<>>
        ELSE calls[i - 1] \o (IF Changes(i) THEN <<ClusterCall(ops[i].features)>> ELSE <<>>)
                          \o <<PointCall(ops[i])>>
  IN  calls[Len(ops)]

\* Without knowledge a fake cluster: there must be one for the constraints.
FakeCluster(b) == <<ClusterCall([i \in DOMAIN b.features |-> "1"])>>

KnowledgeCpp(b, ops) ==
  IF b.knobs = <<>> THEN <<>>
  ELSE IF ops = <<>> THEN (IF b.features = <<>> THEN <<>> ELSE FakeCluster(b))
  ELSE Calls(b, ops)

\* compose writes what parse reads; the values of a knob were computed, and maximize
\* is written as minimize, the subject of a constraint under a tag nobody reads.
ComposeKnob(knob) == [name |-> knob.name, type |-> knob.type, values |-> knob.values, range |-> <<>>]
ComposeMetric(metric) == [metric EXCEPT !.distribution = IF @ THEN "true" ELSE "false"]
ComposeFeature(feature) ==
  [feature EXCEPT !.comparison = CHOOSE text \in {"le", "ge", "-"} : ComparisonOf(text) = @]
ComposeConstraint(constraint) ==
  [constraint EXCEPT !.subject = 0, !.comparison = GoalNames[@]]
ComposeState(state) ==
  [name |-> state.name,
   ranks |-> [k \in ToSet(RankKinds) |-> IF k = <<"minimize", state.kind[2]>> THEN state.rank ELSE {}],
   constraints |-> [i \in DOMAIN state.constraints |-> ComposeConstraint(state.constraints[i])]]

Compose(b) ==
  [b EXCEPT !.knobs = Each(ComposeKnob, @), !.metrics = Each(ComposeMetric, @),
            !.features = Each(ComposeFeature, @), !.states = Each(ComposeState, @),
            !.distance = IF b.features = <<>> THEN ""
                         ELSE CHOOSE text \in {"euclidean", "normalized", ""} : DistanceOf(text) = @]

\* cpp_enum: what has a name in C++.  None of the enumerations that may be empty has
\* one for it.
CppEnum ==
  {"EUCLIDEAN", "NORMALIZED"} \cup {"LESS_OR_EQUAL", "GREATER_OR_EQUAL", "DONT_CARE"}
  \cup {"minimize", "maximize"} \cup {"geometric", "linear"} \cup DOMAIN GoalNames

\* What the generators of the geometry, of the goals and of the states convert.  A
\* rank without a direction is left out before.
Unnameable ==
  block.knobs # <<>> /\
    \/ /\ block.features # <<>>
       /\ ~({block.distance} \cup {block.features[i].comparison : i \in DOMAIN block.features} \subseteq CppEnum)
    \/ \E state \in ToSet(block.states) :
         \/ state.kind[1] # "none" /\ ~(ToSet(state.kind) \subseteq CppEnum)
         \/ \E i \in DOMAIN state.constraints : state.constraints[i].comparison \notin CppEnum

NotGenerated ==
  /\ stage = "points" /\ input.files = <<>> /\ Unnameable /\ stage' = "failed"
  /\ UNCHANGED <<input, block, points, interface, description>>

Generates ==
  /\ stage = "points" /\ input.files = <<>> /\ ~Unnameable
  /\ \E ops \in SortedByFeatures(points) :
       points' = ops /\ interface' = KnowledgeCpp(block, ops)
  /\ description' = Compose(block) /\ stage' = "done"
  /\ UNCHANGED <<input, block>>

----------------------------------------------------------------------------
(* The generated code.                                                     *)

\* metrics_type: all metrics are distributions as soon as one is.
IsDistribution(b) == \E i \in DOMAIN b.metrics : b.metrics[i].distribution

\* goals_type: the counter of the constraints of a state stays 0, and so does the
\* priority that the emitter of the state gives them.
ConstraintCounter == 0
GoalIdentifiers(b) ==
  [p \in UNION {{i} \X DOMAIN b.states[i].constraints : i \in DOMAIN b.states} |->
     <<b.states[p[1]].name, ConstraintCounter>>]

\* What the C++ compiler takes: the types and the members have names, each metric that
\* is a distribution has a deviation, and the parser of Agora's messages calls a
\* constructor with two arguments.
Compiles(b, ops) ==
  /\ b.knobs # <<>> => b.segments.knobs # "" /\ b.segments.metrics # ""
  /\ b.features # <<>> => b.segments.features # ""
  /\ IsInjective(GoalIdentifiers(b))
  /\ \A i \in DOMAIN ops : \A n \in DOMAIN b.metrics :
       b.metrics[n].distribution => ops[i].fields[Len(b.knobs) + n] = "distribution"
  /\ WithAgora(b) => IsDistribution(b)

\* knob_<name>_to_val and val_to_knob_<name>: an Operating Point has numbers only.
KnobToVal(knob, value) == SelectInSeq(knob.values, LAMBDA v : v = value) - 1
ValToKnob(knob, number) == knob.values[number + 1]

\* update: what the application is given for a value of an Operating Point.
KnobSet(knob, mean) == IF knob.type = "string" THEN ValToKnob(knob, mean) ELSE mean

\* operating_point_parser: the text of an observation, and what it reads of a message
\* of Agora, which puts a string in quotes of its own: not a number, it throws.
KnobObserved(knob, value) == IF knob.type = "string" THEN KnobToVal(knob, value) ELSE value
ConfigurationToJson(knob, value) == [value |-> value, quoted |-> knob.type = "string"]
Parsable(json) == ~json.quoted

\* The states: each is created, made active, ranked and constrained.  A state that is
\* there is not created again, and a priority in use is overwritten.
EmptyState == [kind |-> <<"none", "none">>, rank |-> {}, constraints |-> <<>>]
Emitted(state, before) ==
  [kind |-> IF state.kind = <<"none", "none">> THEN before.kind ELSE state.kind,
   rank |-> IF state.kind = <<"none", "none">> THEN before.rank ELSE state.rank,
   constraints |-> IF state.constraints = <<>> THEN before.constraints
                   ELSE [p \in {ConstraintCounter} |-> Last(state.constraints)]]
StateCalls(states) ==
  LET built[i \in 0 .. Len(states)] ==
        IF i = 0 THEN <<>>
        ELSE [name \in DOMAIN built[i - 1] \cup {states[i].name} |->
                IF name # states[i].name THEN built[i - 1][name]
                ELSE Emitted(states[i], IF name \in DOMAIN built[i - 1] THEN built[i - 1][name] ELSE EmptyState)]
  IN  built[Len(states)]

----------------------------------------------------------------------------
(* What the generated calls do to the manager: see DataAware.              *)

Features(comparisons) == INSTANCE DataFeatures WITH Comparisons <- comparisons

Numbers(features) == [i \in DOMAIN features |-> Value[features[i]]]

ComparisonsOf(b) == [i \in DOMAIN b.features |-> b.features[i].comparison]

\* Features of an integral type are divided as integers.
DistanceKind(b) ==
  IF b.distance = "NORMALIZED" /\ b.segments.features \notin {"float", "double", "long double"}
  THEN "INTEGRAL" ELSE b.distance
Closest(b, features, keys) == Features(ComparisonsOf(b))!ClosestOf(DistanceKind(b), features, keys)

Executed(b, calls) ==
  LET m[i \in 0 .. Len(calls)] ==
        IF i = 0
        THEN IF b.features = <<>> THEN [keys |-> <<<<>>>>, points |-> <<{}>>, active |-> 1]
                                  ELSE [keys |-> <<>>, points |-> <<>>, active |-> 0]
        ELSE IF calls[i].call = "cluster"
        THEN LET keys == Append(m[i - 1].keys, Numbers(calls[i].features))
             IN  [keys |-> keys, points |-> Append(m[i - 1].points, {}),
                  active |-> Closest(b, Numbers(calls[i].features), keys)]
        ELSE [m[i - 1] EXCEPT !.points[m[i - 1].active] = @ \cup {calls[i].op}]
  IN  m[Len(calls)]

\* The application dies when it selects a cluster that it has just added.
Crashes(b, calls) ==
  \E i \in DOMAIN calls :
    /\ calls[i].call = "cluster"
    /\ Features(ComparisonsOf(b))!SelectionFails(DistanceKind(b), Numbers(calls[i].features),
                                               Executed(b, SubSeq(calls, 1, i)).keys)

----------------------------------------------------------------------------
HeelNext ==
  \/ Parses \/ Validates \/ ReadsPoints \/ Generates \/ NotGenerated
  \/ stage \in {"done", "failed", "endless"} /\ UNCHANGED heelVars

HeelSpec == HeelInit /\ [][HeelNext]_heelVars

----------------------------------------------------------------------------
\* model_validate.cpp: the names of the elements of a section are unique.
NamesAreDistinct ==
  stage = "done" =>
    \A s \in Sections : \A i, j \in DOMAIN block[s] : block[s][i].name = block[s][j].name => i = j

\* The user guide: a range generates all the values in [min; max) with the step.
RangesAreSpanned ==
  stage = "validate" =>
    \A given \in ToSet(input.file.knobs) : (ComputesRange(given) /\ StepOf(given.range) > 0) =>
      \E knob \in ToSet(block.knobs) :
        /\ knob.name = given.name
        /\ ToSet(knob.values) =
             {given.range[1] + n * StepOf(given.range) : n \in 0 .. given.range[2] - given.range[1]}
               \cap given.range[1] .. given.range[2] - 1

\* The generated calls leave every Operating Point in a cluster with its features,
\* also when two texts stand for the same number, unless they divide an integer by zero;
\* not so with normalised distances when two clusters agree in a coordinate and the
\* distance is not a number.
PointsReachTheirCluster ==
  (block.knobs # <<>> /\ ~Crashes(block, interface)) =>
    LET m == Executed(block, interface)
        agree == \E i, j \in DOMAIN points : \E n \in DOMAIN block.features :
                   /\ Numbers(points[i].features) # Numbers(points[j].features)
                   /\ Numbers(points[i].features)[n] = Numbers(points[j].features)[n]
    IN  /\ block.features # <<>> => m.keys # <<>>
        /\ UNION ToSet(m.points) = ToSet(points)
        /\ ~(block.distance = "NORMALIZED" /\ agree) =>
             \A i \in DOMAIN m.points : \A op \in m.points[i] : m.keys[i] = Numbers(op.features)

\* The manager has the states of the description, each with its own rank and all of
\* its constraints, unless two states share a name; code that would lose a constraint
\* does not compile.
StatesAreAsDescribed ==
  IsInjective([i \in DOMAIN block.states |-> block.states[i].name]) =>
    \A i \in DOMAIN block.states :
      LET state == block.states[i]
          built == StateCalls(block.states)[state.name]
      IN  /\ built.rank = state.rank /\ built.kind = state.kind
          /\ {built.constraints[p] : p \in DOMAIN built.constraints} = ToSet(state.constraints)

\* The application gets back the string that an Operating Point stands for.
StringsComeBack ==
  \A knob \in ToSet(block.knobs) : knob.type = "string" =>
    \A v \in ToSet(knob.values) : KnobSet(knob, KnobToVal(knob, v)) = v

\* Code that is generated and compiles builds the manager the user described.
ManagerIsAsDescribed ==
  (stage = "done" /\ Compiles(block, points)) =>
    PointsReachTheirCluster /\ StatesAreAsDescribed /\ StringsComeBack

\* Both ends agree on the geometry: Agora understands the description and reads the
\* knobs, metrics and features the interface was generated for, the values it may give
\* a knob fit in the segment of the Operating Point, and the observation of a
\* configuration names that configuration, unless a string makes the client throw.
AgoraFitsTheGeometry ==
  (stage = "done" /\ WithAgora(block) /\ Compiles(block, points)) =>
    /\ BlockUnderstood(description)
    /\ \A d \in ParseBlock(description) :
         /\ \A s \in {"knobs", "metrics", "features"} : ToSet(d[s]) = ToSet(block[s])
         /\ \A s \in {"knobs", "metrics", "features"} : \A i \in DOMAIN d[s] :
              d[s][i].type # "string" => Holds(block.segments[s], d[s][i].type)
         /\ \A knob \in ToSet(d.knobs) : \A v \in ToSet(knob.values) :
              LET json == ConfigurationToJson(knob, v)
              IN  Parsable(json) => KnobObserved(knob, KnobSet(knob, json.value)) = v

=============================================================================
