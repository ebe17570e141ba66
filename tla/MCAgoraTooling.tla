--------------------------- MODULE MCAgoraTooling ---------------------------
(***************************************************************************)
(* Four parts of Agora and of what surrounds it that share nothing in the  *)
(* model: the server that learns, the threads of a server, the channel of  *)
(* a client, and the generator.  A behaviour is one of one of them, never  *)
(* their product.                                                          *)
(***************************************************************************)
EXTENDS LearningLoop, WorkerPool, Remote, Heel

CONSTANTS a, b, c, x

VARIABLE part

\* Features and the ways to cluster them; two metrics that share a plugin; the other plugin and a random design;
\* a metric without parameters.
Setup(features, plugin, parameters, algorithm) ==
  [features |-> features, plugin |-> plugin, parameters |-> parameters, algorithm |-> algorithm,
   clustering |-> "kmeans", scaled |-> TRUE]
Featured == Setup(TRUE, [m1 |-> "model"], {"m1"}, "full-factorial")
MCSetups ==
  {Featured, [Featured EXCEPT !.clustering = "dbscan"], [Featured EXCEPT !.clustering = "unknown"],
   Setup(FALSE, [m1 |-> "model", m2 |-> "model"], {"m1", "m2"}, "full-factorial"),
   Setup(FALSE, [m1 |-> "model_plus"], {"m1"}, "lhs"),
   Setup(FALSE, [m1 |-> "model"], {}, "full-factorial")}

MCTopics == <<"client", "prediction", "welcome">>

----------------------------------------------------------------------------
\* Blocks to generate from: a plain one, and one section varied at a time.
Knob(n, t, v) == [name |-> n, type |-> t, values |-> IF v THEN <<1, 2>> ELSE <<>>, range |-> <<>>]
Ranged(t, r) == [Knob(5, t, FALSE) EXCEPT !.range = r]
Metric(n, t, o, q) ==
  [name |-> n, type |-> t, monitor |-> o, plugin |-> q, parameters |-> q, reactive |-> q, distribution |-> "yes"]
Feature(n, t) == [name |-> n, type |-> t, comparison |-> "le"]
Constraint(cf, v) == [subject |-> 6, comparison |-> cf, value |-> v]
Unranked == [k \in ToSet(RankKinds) |-> {}]
State(n, rank) ==
  [name |-> n, ranks |-> [Unranked EXCEPT ![<<"maximize", "linear">>] = rank], constraints |-> <<Constraint("le", "2")>>]
Unconstrained(n, rank) == [State(n, rank) EXCEPT !.constraints = <<>>]
Agora(qos) == [url |-> TRUE, qos |-> qos, plugins |-> TRUE]
Monitor(t, parameters, log) == [name |-> 7, type |-> t, parameters |-> parameters, log |-> log]
Plain ==
  [knobs |-> <<Knob(5, "int", TRUE)>>, metrics |-> <<Metric(6, "float", 7, TRUE)>>,
   monitors |-> <<Monitor("time", <<0, 0, 0>>, {"average"})>>, features |-> <<>>, distance |-> "",
   agora |-> Agora("2"), states |-> <<State(8, {5})>>, segments |-> <<>>]
NoAgora == [Agora("2") EXCEPT !.url = FALSE]

Upto(n, S) == UNION {[1 .. m -> S] : m \in 0 .. n}
Blocks ==
  {[Plain EXCEPT !.monitors[1] = Monitor(t, p, l)] : t \in {"throughput", "int", "string", "bogus"},
     p \in {<<0, 0, 0>>, <<1, 0, 1>>, <<2, 0, 0>>}, l \in {{}, {"max"}, {"median"}}}
  \cup {[Plain EXCEPT !.knobs[1] = Ranged(t, r)] : t \in {"short", "uint16_t", "uint8_t", "double", "char"},
          r \in {<<1>>, <<1, 4>>, <<1, 6, 2>>, <<4, 1>>, <<1, 12, 3>>, <<1, 4, 0>>, <<65532, 65535, 2>>,
                <<65532, 65535, 1>>, <<32764, 32767, 1>>, <<-32767, 5, -1>>}}
  \cup {[Plain EXCEPT !.metrics[1].distribution = d] : d \in {"", "off", "maybe"}}
  \cup {[Plain EXCEPT !.states[1].constraints = <<Constraint(cf, v)>>] : cf \in {"gt", "bogus"}, v \in {"", "3"}}
  \cup {[Plain EXCEPT !.states[1].constraints = <<Constraint("le", "2"), Constraint("gt", "3")>>]}
  \cup {[Plain EXCEPT !.states[1].ranks = r] :
          r \in {Unranked, [Unranked EXCEPT ![<<"minimize", "linear">>] = {5}, ![<<"maximize", "geometric">>] = {6}]}}
  \cup {[Plain EXCEPT !.knobs = k] :
          k \in Upto(3, {Knob(n, t, TRUE) : n \in {0, 5, 12}, t \in {"int", "short", "char", "float"}})}
  \cup {[Plain EXCEPT !.knobs[1] = Knob(5, t, v)] : t \in {"string", "bogus", "int"}, v \in BOOLEAN}
  \cup {[Plain EXCEPT !.states = s] : s \in Upto(3, {State(n, r) : n \in {0, 1, 15}, r \in {{5}, {9}}} \cup {Unconstrained(1, {6})})}
  \cup {[Plain EXCEPT !.metrics = m, !.agora = g] : g \in {NoAgora, Agora("2"), Agora("3")},
          m \in Upto(1, {Metric(n, t, o, q) : n \in {0, 5, 6}, t \in {"double", "string"},
                                              o \in {0, 7, 9}, q \in BOOLEAN})}
  \cup {[Plain EXCEPT !.features = f, !.distance = d] : d \in {"", "euclidean", "manhattan"},
          f \in Upto(2, {Feature(n, t) : n \in {0, 1, 2}, t \in {"int", "short"}})}
  \cup {[Plain EXCEPT !.features = <<[Feature(1, "int") EXCEPT !.comparison = cf]>>, !.distance = "normalized"] :
          cf \in {"", "-", "ge", "lt"}}

\* Operating Points of two features in two files; two texts stand for the same number.
Point(features, id) == [features |-> features, id |-> id, fields |-> <<"value", "distribution">>]
Texts == {<<"1", "2">>, <<"1.0", "2">>, <<"2", "2">>, <<"2", "1">>}
MCValue == ("1" :> 1) @@ ("1.0" :> 1) @@ ("2" :> 2)
Known ==
  {[file |-> [Plain EXCEPT !.agora = NoAgora, !.distance = d,
                           !.features = <<[Feature(2, t) EXCEPT !.comparison = ""], Feature(1, t)>>],
    files |-> <<<<Point(f, 1), Point(g, 2)>>, <<Point(h, 3)>>>>] :
      d \in {"euclidean", "normalized"}, t \in {"int", "float"}, f, g, h \in Texts}
  \cup {[file |-> [Plain EXCEPT !.agora = g], files |-> <<<<[Point(<<>>, 1) EXCEPT !.fields[2] = shape]>>>>] :
          g \in {NoAgora, Agora("2")}, shape \in {"value", "missing", "mean only"}}

MCProjects == {[file |-> f, files |-> <<>>] : f \in Blocks} \cup Known
NoProject == [file |-> Plain, files |-> <<>>]

----------------------------------------------------------------------------
ToolInit ==
  /\ part \in {"server", "pool", "channel", "generator"}
  /\ LearnInit /\ Init /\ RemInit /\ HeelInit
  /\ part # "server" => setup = Featured
  /\ part # "generator" => input = NoProject

\* The process is gone: nothing is left to do.
Exited == phase = "exit" /\ asked /\ UNCHANGED vars

ToolNext ==
  /\ UNCHANGED part
  /\ \/ part = "server" /\ LearnNext /\ UNCHANGED <<vars, remVars, heelVars>>
     \/ part = "pool" /\ (Next \/ Exited) /\ UNCHANGED <<learnVars, remVars, heelVars>>
     \/ part = "channel" /\ RemNext /\ UNCHANGED <<learnVars, vars, heelVars>>
     \/ part = "generator" /\ HeelNext /\ UNCHANGED <<learnVars, vars, remVars>>

toolVars == <<part, learnVars, vars, remVars, heelVars>>

Learns(step) == part = "server" /\ step /\ UNCHANGED <<part, vars, remVars, heelVars>>
Threads(step) == part = "pool" /\ step /\ UNCHANGED <<part, learnVars, remVars, heelVars>>
Channels(step) == part = "channel" /\ step /\ UNCHANGED <<part, learnVars, vars, heelVars>>

\* The fairness of LearnSpec, of the pool and of RemSpec.
ToolSpec ==
  /\ ToolInit /\ [][ToolNext]_toolVars
  /\ WF_toolVars(Learns(Handler)) /\ WF_toolVars(Learns(\E p \in plugins : PluginStep(p)))
  /\ WF_toolVars(Threads(Deliver)) /\ WF_toolVars(Threads(MainStep))
  /\ \A w \in Workers : WF_toolVars(Threads(WorkerStep(w)))
  /\ WF_toolVars(Channels(MainThread)) /\ WF_toolVars(Channels(SupportThread))
  /\ WF_toolVars(Channels(LastWill))

=============================================================================
