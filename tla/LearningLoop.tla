---------------------------- MODULE LearningLoop ----------------------------
(***************************************************************************)
(* How Agora learns the knowledge of one application: the handler (one     *)
(* worker, one client), the tables it and the plugins keep on disk, and    *)
(* the plugins, processes of their own that survive the server.  A file is *)
(* opened, which truncates it, and closed in two steps: the server or a    *)
(* plugin may die in between and another one may read it.                  *)
(*                                                                         *)
(* A table that is cut before the end of its header makes its reader fail, *)
(* as Kill does; here it has no rows.                                      *)
(***************************************************************************)
EXTENDS Integers, Sequences, FiniteSetsExt, SequencesExt, TLC

CONSTANTS
  None,
  Confs,            \* the full factorial of the knobs
  Allowed,          \* the configurations that respect the constraint of the DOE
  Metrics,          \* the metrics there may be: strings
  Setups,           \* descriptions: features?, the plugin of each metric, the
                    \* metrics with parameters, the algorithms of the DOE and of the
                    \* clusters, and whether the features are scaled for them
  Centroids,        \* what the cluster plugin may find
  PerIteration,     \* number_configurations_per_iteration
  PerConfiguration, \* number_observations_per_configuration
  MaxIteration,     \* max_number_iteration
  NumClusters,      \* num_clusters of kmeans
  MaxFaults         \* deaths, departures and shutdowns

ASSUME LearningAssumption ==
  /\ Allowed \subseteq Confs /\ Allowed # {} /\ IsFiniteSet(Confs)
  /\ Centroids # {} /\ IsFiniteSet(Centroids)
  /\ Metrics \cap {"doe", "cluster", "predict", "total", "clusters", "predictions"} = {}
  /\ \A s \in Setups :
       /\ s.features \in BOOLEAN /\ s.algorithm \in {"full-factorial", "lhs"}
       /\ s.clustering \in {"kmeans", "dbscan", "unknown"} /\ s.scaled \in BOOLEAN
       /\ DOMAIN s.plugin \subseteq Metrics /\ DOMAIN s.plugin # {} /\ s.parameters \subseteq DOMAIN s.plugin
       /\ \A m \in DOMAIN s.plugin : s.plugin[m] \in {"model", "model_plus"}
  /\ {PerIteration, PerConfiguration, MaxIteration, NumClusters} \subseteq Nat \ {0}
  /\ MaxFaults \in Nat

VARIABLES
  setup,     \* the description
  disk,      \* the storage and the workspaces
  server,    \* the memory of the handler
  plugins,   \* the processes
  life,      \* the incarnation of the server
  faults,    \* how many deaths, departures and shutdowns so far
  reason,    \* ghost: why the last plugin failed, or None
  damaged,   \* ghost: a file was read between its opening and its closing
  given      \* ghost: how often each configuration was sent since the DOE was loaded

learnVars == <<setup, disk, server, plugins, life, faults, reason, damaged, given>>

\* initialize_workspace: a directory for each plugin of the application, not for each
\* metric.
Workspaces == {"model", "model_plus", "predict"}
Files == {"total", "doe", "clusters", "predictions"} \cup Metrics

\* Only as many observations as anybody asks for are told apart.
Enough == Max({4, NumClusters})

\* erase of the storage, and clear_workspace of every launcher.
Erase(d) ==
  [d EXCEPT !.total = None, !.doe = None, !.table = None, !.models = {}, !.clusters = None,
            !.predictions = {}, !.partial = {}]
ClearLaunchers(d) == [d EXCEPT !.local = [w \in Workspaces |-> "absent"]]

EmptyDisk ==
  [total |-> None, doe |-> None, table |-> None, models |-> {}, clusters |-> None,
   predictions |-> {}, partial |-> {},
   global |-> "absent", local |-> [w \in Workspaces |-> "absent"]]

NewHandler ==
  [phase |-> "clueless", next |-> "none", doe |-> <<>>, sent |-> 0, iteration |-> 0,
   cluster |-> {}, prediction |-> {}]

LearnInit ==
  /\ setup \in Setups
  /\ disk = EmptyDisk /\ server = NewHandler /\ plugins = {} /\ life = 1
  /\ faults = 0 /\ reason = None /\ damaged = FALSE
  /\ given = [c \in Confs |-> 0]

----------------------------------------------------------------------------
(* The storage: what the handler loads.                                    *)

Damage(files) == damaged' = (damaged \/ files \cap disk.partial # {})

\* load_doe puts each row in front; rows that are used up are left out.
LoadRows(rows) ==
  LET loaded[i \in 0 .. Len(rows)] ==
        IF i = 0 THEN <<>>
        ELSE IF rows[i].counter > 0 THEN <<rows[i]>> \o loaded[i - 1]
        ELSE loaded[i - 1]
  IN  loaded[Len(rows)]
LoadDoe == IF disk.doe = None THEN <<>> ELSE LoadRows(disk.doe)
LoadPrediction == disk.predictions
LoadCluster == IF disk.clusters = None THEN {} ELSE disk.clusters
IsModelValid(m) == m \in disk.models
AreModelsValid == \A m \in DOMAIN setup.plugin : IsModelValid(m)

\* store_description: a table for the parameters of a metric that has any.
StoresParameters(m) == m \in setup.parameters

\* The directory of the table is made with the table: without it the entry is lost.
InsertObservation ==
  IF disk.table = None THEN None ELSE Min({disk.table + 1, Enough})

----------------------------------------------------------------------------
(* doe_model                                                               *)

\* Mutant: a configuration that is not exhausted goes back to the front.
GetNextAgain(doe) ==
  LET ref == [Head(doe) EXCEPT !.counter = @ - 1]
  IN  [configuration |-> ref.conf,
       rest |-> IF ref.counter > 0 THEN <<ref>> \o Tail(doe) ELSE Tail(doe)]

\* Mutant: an exhausted configuration stays in the design.
GetNextExhausted(doe) ==
  LET ref == [Head(doe) EXCEPT !.counter = @ - 1]
  IN  [configuration |-> ref.conf,
       rest |-> IF ref.counter >= 0 THEN Append(Tail(doe), ref) ELSE Tail(doe)]

GetNext(doe) ==
  LET ref == [Head(doe) EXCEPT !.counter = @ - 1]
  IN  [configuration |-> ref.conf,
       rest |-> IF ref.counter > 0 THEN Append(Tail(doe), ref) ELSE Tail(doe)]

----------------------------------------------------------------------------
(* The handler.                                                            *)

\* The design in force and how often its configurations were given.
Sends(handler, counts) ==
  IF handler.doe = <<>>
  THEN server' = handler /\ given' = counts
  ELSE LET n == GetNext(handler.doe)
       IN  /\ server' = [handler EXCEPT !.doe = n.rest, !.sent = @ + 1]
           /\ given' = [counts EXCEPT ![n.configuration] = @ + 1]

Fresh == [c \in Confs |-> 0]
Explores(handler, counts) == Sends([handler EXCEPT !.phase = "exploring", !.next = "none"], counts)
\* The count restarts with a design that was loaded and is not sent of yet.
Goes(handler, phase, next) ==
  /\ server' = [handler EXCEPT !.phase = phase, !.next = next]
  /\ given' = IF handler.doe = <<>> \/ handler.doe # server.doe THEN Fresh ELSE given

\* create_env_configuration: a plugin is told the names of its files, those of its
\* metric if it has one, and the iteration.
Environment(k) == [kind |-> k, iteration |-> server'.iteration]

\* set_plugin_configuration writes it for the process that start_plugin forks.
Process(k) ==
  [at |-> "begin", read |-> {}, born |-> life,
   kind |-> Environment(k).kind, iteration |-> Environment(k).iteration]
Launch(kinds) == plugins' = plugins \cup {Process(k) : k \in kinds}

\* start_doe, start_modeling, start_clustering and start_prediction.
Doe        == {"doe"}
Models     == DOMAIN setup.plugin
Clustering == IF setup.features THEN {"cluster"} ELSE {}
Prediction == {"predict"}

Running == {p \in plugins : p.born = life}
Waited(next) == server.phase = "waiting" /\ server.next = next /\ Running = {}

HasWhatPredictionNeeds(handler) ==
  AreModelsValid /\ (setup.features => handler.cluster # {})

\* welcome_client of the first client: store_description, the workspaces and
\* start_recovering.  The workspaces keep the files the plugins left there.
Welcome ==
  LET loaded == [server EXCEPT !.doe = LoadDoe, !.prediction = LoadPrediction,
                               !.cluster = IF setup.features THEN LoadCluster ELSE @]
  IN  /\ server.phase = "clueless"
      /\ Damage({"doe", "predictions"} \cup IF setup.features THEN {"clusters"} ELSE {})
      /\ \/ /\ loaded.prediction # {}
            /\ Goes(loaded, "informed", "none") /\ UNCHANGED plugins
         \/ /\ loaded.prediction = {} /\ HasWhatPredictionNeeds(loaded)
            /\ Goes(loaded, "waiting", "recovered") /\ Launch(Prediction)
         \/ /\ loaded.prediction = {} /\ ~HasWhatPredictionNeeds(loaded) /\ loaded.doe # <<>>
            /\ Explores(loaded, Fresh) /\ UNCHANGED plugins
         \/ /\ loaded.prediction = {} /\ ~HasWhatPredictionNeeds(loaded) /\ loaded.doe = <<>>
            /\ Goes(loaded, "waiting", "first_doe") /\ Launch(Doe)
      /\ UNCHANGED <<setup, disk, life, faults, reason>>

\* The prediction of a recovery: without it the DOE of the storage, or a new one.
Recovered ==
  /\ Waited("recovered") /\ Damage({"predictions"})
  /\ LET loaded == [server EXCEPT !.prediction = LoadPrediction]
     IN  \/ /\ loaded.prediction # {}
            /\ Goes(loaded, "informed", "none") /\ UNCHANGED plugins
         \/ /\ loaded.prediction = {} /\ loaded.doe # <<>>
            /\ Explores(loaded, Fresh) /\ UNCHANGED plugins
         \/ /\ loaded.prediction = {} /\ loaded.doe = <<>>
            /\ Goes(loaded, "waiting", "first_doe") /\ Launch(Doe)
  /\ UNCHANGED <<setup, disk, life, faults, reason>>

\* Mutant: every DOE comes with a new table of observations.
DoeCreatedAnew ==
  LET loaded == [server EXCEPT !.doe = LoadDoe]
  IN  /\ (Waited("first_doe") \/ Waited("next_doe")) /\ Damage({"doe"})
      /\ IF loaded.doe = <<>> THEN Goes(loaded, "undefined", "none") ELSE Explores(loaded, Fresh)
      /\ disk' = IF loaded.doe # <<>> THEN [disk EXCEPT !.table = 0] ELSE disk
      /\ UNCHANGED <<setup, plugins, life, faults, reason>>

\* The first DOE comes with a new table of observations, a later one does not.
DoeCreated ==
  LET loaded == [server EXCEPT !.doe = LoadDoe]
  IN  /\ (Waited("first_doe") \/ Waited("next_doe")) /\ Damage({"doe"})
      /\ IF loaded.doe = <<>> THEN Goes(loaded, "undefined", "none") ELSE Explores(loaded, Fresh)
      /\ disk' = IF server.next = "first_doe" /\ loaded.doe # <<>>
                 THEN [disk EXCEPT !.table = 0] ELSE disk
      /\ UNCHANGED <<setup, plugins, life, faults, reason>>

\* Mutant: the iterations are not counted.
ModelsAgain ==
  /\ Goes([server EXCEPT !.sent = 0], "waiting", "models")
  /\ Launch(Models \cup Clustering)

StartsModelling ==
  /\ Goes([server EXCEPT !.sent = 0, !.iteration = @ + 1], "waiting", "models")
  /\ Launch(Models \cup Clustering)

\* process_observation: store it, then another configuration or the plugins.
Observation ==
  /\ server.phase = "exploring"
  /\ disk' = [disk EXCEPT !.table = InsertObservation]
  /\ IF server.doe # <<>> /\ server.sent < PerIteration
     THEN Sends(server, given) /\ UNCHANGED plugins
     ELSE StartsModelling
  /\ UNCHANGED <<setup, life, faults, reason, damaged>>

\* No prediction yet: explore on, or ask for another DOE.
LearnOn(handler) ==
  IF handler.doe # <<>>
  THEN Explores(handler, given) /\ UNCHANGED plugins
  ELSE Goes(handler, "waiting", "next_doe") /\ Launch(Doe)

ModelsBuilt ==
  LET loaded == [server EXCEPT !.cluster = IF setup.features THEN LoadCluster ELSE @]
  IN  /\ Waited("models") /\ Damage(IF setup.features THEN {"clusters"} ELSE {})
      /\ IF HasWhatPredictionNeeds(loaded)
         THEN Goes(loaded, "waiting", "prediction") /\ Launch(Prediction)
         ELSE LearnOn(loaded)
      /\ UNCHANGED <<setup, disk, life, faults, reason>>

Predicted ==
  LET loaded == [server EXCEPT !.prediction = LoadPrediction]
  IN  /\ Waited("prediction") /\ Damage({"predictions"})
      /\ IF loaded.prediction # {}
         THEN Goes(loaded, "informed", "none") /\ UNCHANGED plugins
         ELSE LearnOn(loaded)
      /\ UNCHANGED <<setup, disk, life, faults, reason>>

Handler ==
  Welcome \/ Recovered \/ DoeCreated \/ Observation \/ ModelsBuilt \/ Predicted

----------------------------------------------------------------------------
(* Plugins                                                                 *)

Step(p, at, read) ==
  /\ plugins' = (plugins \ {p}) \cup {[p EXCEPT !.at = at, !.read = read]}
  /\ UNCHANGED <<server, reason>>
Ends(p) == plugins' = plugins \ {p} /\ UNCHANGED <<server, reason>>

\* Launcher::wait throws through the worker, and the server ends.
ServerEnds == server' = [NewHandler EXCEPT !.phase = "down"]
Fails(p, why) ==
  /\ plugins' = plugins \ {p} /\ reason' = why
  /\ IF p.born = life /\ server.phase # "down" THEN ServerEnds ELSE UNCHANGED server
  /\ UNCHANGED <<disk, damaged>>

Opened(file) == disk.partial \cup {file}
Closed(file) == disk.partial \ {file}

\* What a reader may find of rows while they are written, in order.
PartsOf(rows) ==
  {ToSet(SubSeq(SetToSeq(rows), 1, n)) : n \in 0 .. Max({Cardinality(rows) - 1, 0})}

Plugin(p, kinds, at) ==
  p.kind \in kinds /\ p.at = at /\ UNCHANGED <<setup, life, faults, given>>

\* doe/main.py: the table of all configurations and the encoders are made once.
DoeBegin(p) ==
  /\ Plugin(p, {"doe"}, "begin")
  /\ IF disk.total = None
     THEN \E part \in PartsOf(Allowed) :
            /\ disk' = [disk EXCEPT !.global = "ready", !.total = part, !.partial = Opened("total")]
            /\ Step(p, "total", Allowed) /\ UNCHANGED damaged
     ELSE Step(p, "design", disk.total) /\ Damage({"total"}) /\ UNCHANGED disk

DoeTotal(p) ==
  /\ Plugin(p, {"doe"}, "total")
  /\ disk' = [disk EXCEPT !.total = Allowed, !.partial = Closed("total")]
  /\ Step(p, "design", Allowed) /\ UNCHANGED damaged

\* create_doe, and the merge with the table of all configurations.
CreateDoe == IF setup.algorithm = "lhs" THEN (SUBSET Confs) \ {{}} ELSE {Confs}
Rows(confs) ==
  [i \in 1 .. Cardinality(confs) |-> [conf |-> SetToSeq(confs)[i], counter |-> PerConfiguration]]

\* What is not on disk is none of the values that are.
ASSUME NoneAssumption ==
  /\ None \notin Int
  /\ \A S \in SUBSET Confs : None # S /\ None # Rows(S)
  /\ \A S \in SUBSET Centroids : None # S

DoeDesign(p) ==
  /\ Plugin(p, {"doe"}, "design")
  /\ \E design \in CreateDoe :
       \E part \in PartsOf(design \cap p.read) :
         /\ disk' = [disk EXCEPT !.doe = Rows(part), !.partial = Opened("doe")]
         /\ Step(p, "write", design \cap p.read)
  /\ UNCHANGED damaged

DoeWrite(p) ==
  /\ Plugin(p, {"doe"}, "write")
  /\ disk' = [disk EXCEPT !.doe = Rows(p.read), !.partial = Closed("doe")]
  /\ Ends(p) /\ UNCHANGED damaged

\* model/main.py reads the tables of the parameters and of the observations.
ModelBegin(p) ==
  /\ Plugin(p, Metrics, "begin")
  /\ \/ ~StoresParameters(p.kind) /\ Fails(p, "no_parameters")
     \/ StoresParameters(p.kind) /\ disk.table = None /\ Fails(p, "no_table")
     \/ /\ StoresParameters(p.kind) /\ disk.table = 0
        /\ Ends(p) /\ UNCHANGED <<disk, damaged>>
     \/ /\ StoresParameters(p.kind) /\ disk.table \notin {None, 0}
        /\ Step(p, "encoders", 1 .. disk.table) /\ UNCHANGED <<disk, damaged>>

\* The encoders: the copy of the workspace, or the ones of the doe plugin.
Encoders(p, workspace, there, global) ==
  /\ UNCHANGED damaged
  /\ \/ disk.local[workspace] = "ready" /\ Step(p, there, p.read) /\ UNCHANGED disk
     \/ disk.local[workspace] = "torn" /\ Fails(p, "torn_encoders")
     \/ disk.local[workspace] = "absent" /\ disk.global = "absent" /\ Fails(p, "no_encoders")
     \/ /\ disk.local[workspace] = "absent" /\ disk.global = "ready"
        /\ disk' = [disk EXCEPT !.local[workspace] = "torn", !.global = global]
        /\ Step(p, "save", p.read)

\* Mutant: model/main.py removes the encoders of the doe plugin too.
ModelTakesEncoders(p) ==
  Plugin(p, Metrics, "encoders") /\ Encoders(p, setup.plugin[p.kind], "fit", "absent")

ModelEncoders(p) ==
  Plugin(p, Metrics, "encoders") /\ Encoders(p, setup.plugin[p.kind], "fit", "ready")

\* predict/main.py removes the ones of the doe plugin.
PredictEncoders(p) ==
  Plugin(p, {"predict"}, "encoders") /\ Encoders(p, "predict", "load", "absent")

AfterEncoders(p) == IF p.kind = "predict" THEN "load" ELSE "fit"

EncodersSaved(p) ==
  LET workspace == IF p.kind = "predict" THEN "predict" ELSE setup.plugin[p.kind]
  IN  /\ Plugin(p, Metrics \cup {"predict"}, "save")
      /\ disk' = [disk EXCEPT !.local[workspace] = "ready"]
      /\ Step(p, AfterEncoders(p), p.read) /\ UNCHANGED damaged

\* Mutant: the limit is passed before any model is taken.
ForcedLate(p) == p.iteration > MaxIteration + 1

\* model takes any model one iteration later than model_plus does.
Forced(p) ==
  IF setup.plugin[p.kind] = "model" THEN p.iteration > MaxIteration
                                    ELSE p.iteration >= MaxIteration

\* One observation cannot be cross validated.  model_plus sets a quarter of them apart
\* to test with and looks for at least one neighbour in the rest.
Fewest(p) == IF setup.plugin[p.kind] = "model" THEN 2 ELSE 4

\* What model_plus fits is tested again: Box-Cox takes positive numbers only, and before
\* the last iteration one of the good estimators has to pass.
ModelFit(p) ==
  /\ Plugin(p, Metrics, "fit")
  /\ \/ Cardinality(p.read) < Fewest(p) /\ Fails(p, "few_observations")
     \/ /\ Cardinality(p.read) >= Fewest(p)
        /\ disk' = [disk EXCEPT !.models = @ \cup {p.kind}, !.partial = Opened(p.kind)]
        /\ Step(p, "write", p.read) /\ UNCHANGED damaged
     \/ /\ Cardinality(p.read) >= Fewest(p) /\ ~Forced(p)
        /\ Ends(p) /\ UNCHANGED <<disk, damaged>>
     \/ /\ Cardinality(p.read) >= Fewest(p) /\ setup.plugin[p.kind] = "model_plus"
        /\ Fails(p, "not_positive")
     \/ /\ Cardinality(p.read) >= Fewest(p) /\ setup.plugin[p.kind] = "model_plus" /\ ~Forced(p)
        /\ Fails(p, "no_estimator")

ModelWrite(p) ==
  /\ Plugin(p, Metrics, "write")
  /\ disk' = [disk EXCEPT !.partial = Closed(p.kind)] /\ Ends(p) /\ UNCHANGED damaged

\* create_cluster: kmeans needs as many observations as clusters and scaling needs one;
\* dbscan may find nothing and another algorithm finds nothing, which cannot be scaled
\* back.  Unscaled it makes an empty table.
FewestToCluster ==
  IF setup.clustering = "kmeans" THEN NumClusters
  ELSE IF setup.clustering = "unknown" /\ ~setup.scaled THEN 0 ELSE 1
MayFindNone == setup.clustering = "dbscan" \/ (setup.clustering = "unknown" /\ setup.scaled)
CreateCluster ==
  IF setup.clustering # "unknown" THEN (SUBSET Centroids) \ {{}}
  ELSE IF setup.scaled THEN {} ELSE {{}}

ClusterBegin(p) ==
  /\ Plugin(p, {"cluster"}, "begin")
  /\ \/ disk.table = None /\ Fails(p, "no_table")
     \/ disk.table # None /\ disk.table < FewestToCluster /\ Fails(p, "few_observations")
     \/ disk.table # None /\ disk.table >= FewestToCluster /\ MayFindNone /\ Fails(p, "no_clusters")
     \/ /\ disk.table # None /\ disk.table >= FewestToCluster /\ UNCHANGED damaged
        /\ \E found \in CreateCluster : \E part \in PartsOf(found) :
             /\ disk' = [disk EXCEPT !.clusters = part, !.partial = Opened("clusters")]
             /\ Step(p, "write", found)

ClusterWrite(p) ==
  /\ Plugin(p, {"cluster"}, "write")
  /\ disk' = [disk EXCEPT !.clusters = p.read, !.partial = Closed("clusters")]
  /\ Ends(p) /\ UNCHANGED damaged

\* A plugin of an earlier server may find nothing of what a shutdown has erased.
CannotPredict == disk.total = None \/ (setup.features /\ disk.clusters = None)

\* Mutant: only the configurations of the last design are predicted.
PredictDesign(p) ==
  /\ Plugin(p, {"predict"}, "begin")
  /\ \/ CannotPredict /\ Fails(p, "no_table")
     \/ /\ ~CannotPredict /\ UNCHANGED disk
        /\ Damage({"total"} \cup IF setup.features THEN {"clusters"} ELSE {})
        /\ Step(p, "encoders",
                {row.conf : row \in ToSet(disk.doe)}
                  \X IF setup.features THEN disk.clusters ELSE {"no_features"})

\* predict/main.py: every configuration with every centroid.
PredictBegin(p) ==
  /\ Plugin(p, {"predict"}, "begin")
  /\ \/ CannotPredict /\ Fails(p, "no_table")
     \/ /\ ~CannotPredict /\ UNCHANGED disk
        /\ Damage({"total"} \cup IF setup.features THEN {"clusters"} ELSE {})
        /\ Step(p, "encoders",
                disk.total \X IF setup.features THEN disk.clusters ELSE {"no_features"})

PredictLoad(p) ==
  /\ Plugin(p, {"predict"}, "load")
  /\ \/ ~AreModelsValid /\ Fails(p, "no_model")
     \/ AreModelsValid /\ disk.partial \cap Metrics # {} /\ Fails(p, "torn_model")
     \/ /\ AreModelsValid /\ disk.partial \cap Metrics = {} /\ UNCHANGED damaged
        /\ \E part \in PartsOf(p.read) :
             disk' = [disk EXCEPT !.predictions = part, !.partial = Opened("predictions")]
        /\ Step(p, "write", p.read)

PredictWrite(p) ==
  /\ Plugin(p, {"predict"}, "write")
  /\ disk' = [disk EXCEPT !.predictions = p.read, !.partial = Closed("predictions")]
  /\ Ends(p) /\ UNCHANGED damaged

PluginStep(p) ==
  \/ DoeBegin(p) \/ DoeTotal(p) \/ DoeDesign(p) \/ DoeWrite(p)
  \/ ModelBegin(p) \/ ModelEncoders(p) \/ EncodersSaved(p) \/ ModelFit(p) \/ ModelWrite(p)
  \/ ClusterBegin(p) \/ ClusterWrite(p)
  \/ PredictBegin(p) \/ PredictEncoders(p) \/ PredictLoad(p) \/ PredictWrite(p)

----------------------------------------------------------------------------
(* Departures, deaths and shutdowns.                                       *)

Fault == faults < MaxFaults /\ faults' = faults + 1 /\ UNCHANGED <<setup, damaged>>
Up == server.phase # "down"

\* bye_client of the last client: the iteration and the count of the
\* configurations sent are kept.
Bye ==
  /\ Fault /\ server.phase \in {"exploring", "informed", "undefined"}
  /\ server' = [server EXCEPT !.phase = "clueless", !.doe = <<>>, !.cluster = {}, !.prediction = {}]
  /\ UNCHANGED <<disk, plugins, life, reason, given>>

Crash ==
  /\ Fault /\ Up /\ ServerEnds
  /\ UNCHANGED <<disk, plugins, life, reason, given>>

\* A plugin is killed; its parent ends when it waits for it.
Kill(p) ==
  /\ Fault /\ plugins' = plugins \ {p}
  /\ IF p.born = life /\ Up THEN ServerEnds ELSE UNCHANGED server
  /\ UNCHANGED <<disk, life, reason, given>>

\* Plugins of an earlier server go on without the files they have open, which are
\* unlinked; whoever still has to read the description or its directory fails.
Outlives(p) == p.at \in {"total", "design", "save", "fit", "load"}
Unlinked(p) ==
  [p EXCEPT !.at = IF @ = "total" THEN "design" ELSE IF @ = "save" THEN AfterEncoders(p) ELSE @]

\* main returns: the destructor of the handler erases its storage and workspaces.
Shutdown ==
  /\ Fault /\ server.phase \in {"clueless", "exploring", "informed", "undefined"}
  /\ disk' = ClearLaunchers(Erase(disk))
  /\ plugins' = {Unlinked(p) : p \in {q \in plugins : Outlives(q)}}
  /\ ServerEnds /\ UNCHANGED <<life, reason, given>>

Restart ==
  /\ ~Up /\ life <= MaxFaults
  /\ server' = NewHandler /\ life' = life + 1
  /\ UNCHANGED <<setup, disk, plugins, faults, reason, damaged, given>>

\* Nothing is left to do: the client has its answer, or nobody starts the server.
Rest ==
  /\ \/ server.phase \in {"informed", "undefined"}
     \/ server.phase = "down" /\ life > MaxFaults
  /\ UNCHANGED learnVars

LearnNext ==
  \/ Rest \/ Handler \/ \E p \in plugins : PluginStep(p)
  \/ Bye \/ Crash \/ Shutdown \/ Restart \/ \E p \in plugins : Kill(p)

\* The client keeps sending observations, the worker handles what arrives and the
\* plugins run; nobody has to leave, die or be restarted.
LearnSpec ==
  /\ LearnInit /\ [][LearnNext]_learnVars
  /\ WF_learnVars(Handler) /\ WF_learnVars(\E p \in plugins : PluginStep(p))

----------------------------------------------------------------------------
\* The types of the members of the handler and of what is on disk.
LearnTypeOK ==
  /\ server.phase \in {"clueless", "waiting", "exploring", "informed", "undefined", "down"}
  /\ server.sent \in Nat /\ server.iteration \in Nat
  /\ \A i \in DOMAIN server.doe :
       server.doe[i].conf \in Allowed /\ server.doe[i].counter \in 1 .. PerConfiguration
  /\ disk.total = None \/ disk.total \subseteq Allowed
  /\ disk.table \in {None} \cup 0 .. Enough
  /\ disk.models \subseteq Metrics /\ disk.partial \subseteq Files
  /\ disk.global \in {"absent", "ready"}
  /\ \A w \in Workspaces : disk.local[w] \in {"absent", "torn", "ready"}
  /\ \A p \in plugins : p.born \in 1 .. life

\* The knowledge a client is given has, for each of its clusters, every allowed
\* configuration, whoever died before and whatever was recovered, unless somebody
\* read a file that a plugin was still writing or died writing.
KnowledgeIsComplete ==
  (server.phase = "informed" /\ ~damaged) =>
    \A row \in server.prediction : \A c \in Allowed : <<c, row[2]>> \in server.prediction

\* Until the server dies for the first time every plugin finds the table, the encoders
\* and the models that another process was to leave for it, whole, unless two metrics
\* share a plugin: then one may find the encoders half copied by the other.  What is left
\* to fail for is the data and the parameters.
PluginsFindTheirFiles ==
  (life = 1 /\ faults = 0) =>
    \/ reason \in {None, "no_parameters", "few_observations", "not_positive", "no_estimator",
                   "no_clusters"}
    \/ /\ reason = "torn_encoders"
       /\ \E m, n \in DOMAIN setup.plugin : m # n /\ setup.plugin[m] = setup.plugin[n]

\* The configurations of a DOE are explored in turns: before one is sent a second time all
\* the others were sent once, and none is used up while another is two turns behind.
Balanced ==
  \A i \in DOMAIN server.doe : \A c \in Confs : given[c] <= given[server.doe[i].conf] + 1

\* agora_properties.hpp: the maximum number of iterations to perform.
IterationsAreBounded ==
  server.iteration <= MaxIteration

\* How many iterations there are: one more than max_number_iteration if some metric has the
\* plugin model, also when clients leave and come back, unless a file was read half-written.
\* An unknown algorithm on features that are not scaled never makes a cluster.
Clusters == setup.features => setup.clustering # "unknown" \/ setup.scaled
LearningIsBounded ==
  (~damaged /\ Clusters) =>
    server.iteration <= MaxIteration
      + IF \E m \in DOMAIN setup.plugin : setup.plugin[m] = "model" THEN 1 ELSE 0

\* Observations are only thrown away by a shutdown, or after a design that came out
\* empty or was read half-written: a recovery that finds no DOE starts over.
ObservationsAreKept ==
  [][(disk.table # None /\ setup.algorithm = "full-factorial" /\ ~damaged')
      => (Shutdown \/ (disk'.table # None /\ disk'.table >= disk.table))]_learnVars

\* A client that explores gets the knowledge of its application, unless a plugin
\* fails, somebody dies or the client leaves, or no cluster can be made.
LearningEnds ==
  (server.phase = "exploring" /\ faults = 0 /\ Clusters)
    ~> (server.phase \in {"informed", "undefined"} \/ reason # None \/ faults > 0)

=============================================================================
