----------------------------- MODULE DataAware -----------------------------
(***************************************************************************)
(* The application process: the thread of the application that goes round  *)
(* the generated functions (update, the monitored block, push_monitor),    *)
(* the support thread that applies what the remote handler sends, and the  *)
(* manager they share: a DataAwareAsrtm with one Asrtm per feature cluster *)
(* or, in a block without features, a plain Asrtm.                         *)
(*                                                                         *)
(* Every method call is one step, since it holds asrtm_mutex (the plain    *)
(* class: manager_mutex) from its first to its last statement; the support *)
(* thread may come in between any two of them.                             *)
(***************************************************************************)
EXTENDS Asrtm, DataFeatures, SequencesExt

CONSTANTS
  Kinds,      \* the template instances: "PLAIN", or the distance of the features
  Confs,      \* the configurations
  Default,    \* the value of the knobs before the first update
  States,     \* the optimisation states the block may have
  Clauses,    \* constraints and ranks
  FirstState, \* the state the generated code activates
  Keys,       \* the keys clusters are added with
  FirstKey,   \* the key of the cluster of the generated code
  Inputs,     \* the features of the inputs
  Models,     \* the predictions: sequences of clusters [key, confs]
  MaxOps      \* messages received and calls made outside the loop

ASSUME DataAwareAssumption ==
  /\ Kinds \subseteq {"PLAIN", "EUCLIDEAN", "NORMALIZED", "INTEGRAL"}
  /\ Default \notin Confs /\ FirstState \in States /\ FirstKey \in Keys /\ MaxOps \in Nat
  /\ Null \notin Confs \cup {Default} \cup [conf : Confs, made : 0 .. MaxOps]
  /\ NoState \notin States
  /\ Keys \cup Inputs \subseteq Features /\ Null \notin Inputs
  /\ \A model \in Models :
       model # <<>> /\ model \in Seq([key : Features, confs : (SUBSET Confs) \ {{}}])

VARIABLES
  kind,       \* which class the block uses
  agora,      \* does the block use the remote handler (a support thread runs)?
  managers,   \* the clusters, in order: an Asrtm and its key
  active,     \* active_manager, a position in managers
  pc,         \* the next call of the application thread
  input,      \* the features of the input being configured, or Null
  inforce,    \* the configuration in the knobs of the application
  observed,   \* the configurations the observations in the monitors come from
  ops,        \* messages and calls so far; names the points they allocate
  fault,      \* a failed assertion or a null pointer dereferenced, or "none"
  wanted,     \* ghost: the state the application activated last
  strayed,    \* ghost: create_sibling left another state active
  raced,      \* ghost: the support thread came between find, get and applied
  interrupted,\* ghost: the support thread came after the input was given
  late,       \* ghost: runtime knowledge was added to monitors already in use
  asked       \* ghost: the configuration to explore, Null once superseded

vars == <<kind, agora, managers, active, pc, input, inforce, observed, ops, fault,
          wanted, strayed, raced, interrupted, late, asked>>
app    == <<pc, input, inforce, observed, fault>>
shared == <<managers, active>>
ghosts == <<wanted, strayed, raced, interrupted, late, asked>>
fixed  == <<kind, agora>>

Current == managers[active]
ForAll(Method(_)) == [i \in DOMAIN managers |-> Method(managers[i])]
Allocate(confs) == [conf : confs, made : {ops + 1}]
KeysOf(clusters) == [i \in DOMAIN clusters |-> clusters[i].key]

\* The pair of a key and a manager: the constructor copies every member, and finds
\* the active state again at the same place of the iteration.
WithKey(m, k) == [f \in {"key"} \cup DOMAIN m |-> IF f = "key" THEN k ELSE m[f]]

----------------------------------------------------------------------------
(* The generated context: the states, the runtime information of the       *)
(* monitors and, without the remote handler, the knowledge of design time. *)

Built(k, s, remote) ==
  LET problem == [NewManager EXCEPT !.optimizers = [t \in States |-> {}],
                                    !.current = s, !.adaptors = 1]
      known   == AddOperatingPoints(problem, [conf : Confs, made : {0}])
      started == IF kind = "PLAIN" THEN StartSupportThread(problem)
                                   ELSE SetAutotunerInDse(problem)
  IN  WithKey(IF remote THEN started ELSE known, k)

Init ==
  /\ kind \in Kinds /\ agora \in BOOLEAN
  /\ wanted = FirstState
  /\ managers = <<Built(FirstKey, FirstState, agora)>>
  /\ active = 1 /\ pc = "idle" /\ input = Null
  /\ inforce = Default /\ observed = {} /\ ops = 0 /\ fault = "none"
  /\ strayed = FALSE /\ raced = FALSE /\ interrupted = FALSE /\ late = FALSE
  /\ asked = Null

----------------------------------------------------------------------------
(* The application thread: the loop of the generated code.                 *)

Goto(from, to) == fault = "none" /\ pc = from /\ pc' = to
Abort(reason) ==
  /\ fault' = reason
  /\ UNCHANGED <<fixed, shared, input, inforce, observed, ops, ghosts>>
Quiet == UNCHANGED <<fixed, ops, fault>>

\* update(features): select_feature_cluster, in a block that has features.
SelectFeatureCluster(f) ==
  LET closest == ClosestOf(kind, f, KeysOf(managers))
  IN  /\ Goto("idle", "selected") /\ Quiet
      /\ ~SelectionFails(kind, f, KeysOf(managers))
      /\ input' = f
      /\ active' = IF kind = "PLAIN" THEN active ELSE closest
      /\ managers' = IF active' = active THEN managers
                     ELSE [managers EXCEPT ![closest] = RestoreFromDataFeatureSwitch(@)]
      /\ UNCHANGED <<inforce, observed, ghosts>>

SelectionDies(f) ==
  /\ Goto("idle", "idle") /\ SelectionFails(kind, f, KeysOf(managers))
  /\ Abort("zero_width")

\* Without knowledge the knobs stay as they are.
IsApplicationKnowledgeEmpty ==
  /\ Goto("selected", IF KnowledgeEmpty(Current) THEN "run" ELSE "find")
  /\ Quiet /\ UNCHANGED <<shared, input, inforce, observed, ghosts>>

\* The adaptors judge the running configuration, then the state proposes one.
FindBest ==
  /\ Goto("find", "get")
  /\ IF FindDereferences(Current, observed # {}) /\ Current.application = Null
     THEN Abort("null_application")
     ELSE /\ Quiet
          /\ \E m \in FindBestConfiguration(Current) :
               managers' = [managers EXCEPT ![active] = m]
          /\ UNCHANGED <<active, input, inforce, observed, ghosts>>

\* The knobs are assigned, and the application confirms, only on a change.
GetBest ==
  /\ Goto("get", IF ConfigurationChanged(Current) THEN "apply" ELSE "run")
  /\ IF Current.proposed = Null
     THEN Abort("null_proposal")
     ELSE /\ Quiet
          /\ inforce' = IF ConfigurationChanged(Current) THEN Current.proposed.conf ELSE inforce
          /\ managers' = [managers EXCEPT ![active] = GetBestConfiguration(@)]
          /\ UNCHANGED <<active, input, observed, ghosts>>

Applied ==
  /\ Goto("apply", "run") /\ Quiet
  /\ observed' = IF ClearsMonitors(Current) THEN {} ELSE observed
  /\ late' = IF ClearsMonitors(Current) THEN FALSE ELSE late
  /\ managers' = [managers EXCEPT ![active] = ConfigurationApplied(@)]
  /\ UNCHANGED <<active, input, inforce, wanted, strayed, raced, interrupted, asked>>

\* start_monitor, the block, stop_monitor: the monitors have a new observation.
RunBlock ==
  /\ Goto("run", IF agora THEN "report" ELSE "log") /\ Quiet
  /\ observed' = observed \cup {inforce}
  /\ input' = Null /\ interrupted' = FALSE
  /\ UNCHANGED <<shared, inforce, wanted, strayed, raced, late, asked>>

\* in_design_space_exploration, of either class.
Exploring == InDesignSpaceExploration(Current)

\* push_monitor: send_observation, and send_delta with the expected value of the
\* metric unless in_design_space_exploration.
Report ==
  /\ Goto("report", IF Exploring THEN "log" ELSE "mean") /\ Quiet
  /\ UNCHANGED <<shared, input, inforce, observed, ghosts>>

\* log: the expected value of the metric again, under a condition of its own.
Log ==
  /\ Goto("log", IF Exploring THEN "idle" ELSE "expected") /\ Quiet
  /\ UNCHANGED <<shared, input, inforce, observed, ghosts>>

\* get_mean asserts that there is a running configuration; a release build answers
\* 9999 instead.
GetMean ==
  /\ Goto("mean", "log") \/ Goto("expected", "idle")
  /\ \/ Current.application = Null /\ Abort("null_mean")
     \/ Quiet /\ UNCHANGED <<shared, input, inforce, observed, ghosts>>

Loop ==
  \/ \E f \in IF kind = "PLAIN" THEN {FirstKey} ELSE Inputs :
       SelectFeatureCluster(f) \/ SelectionDies(f)
  \/ IsApplicationKnowledgeEmpty \/ FindBest \/ GetBest \/ Applied
  \/ RunBlock \/ Report \/ Log \/ GetMean

----------------------------------------------------------------------------
(* The support thread: local_application_handler.                          *)

Message ==
  /\ agora /\ fault = "none" /\ ops < MaxOps /\ ops' = ops + 1
  /\ raced' = (raced \/ pc \in {"get", "apply", "mean", "expected"})
  /\ interrupted' = (input # Null)
  /\ UNCHANGED <<fixed, app, late>>

\* explore: every cluster knows the configuration to explore, and nothing else.
Explore(c) ==
  /\ Message
  /\ managers' = ForAll(LAMBDA m : SetSinglePoint(m, [conf |-> c, made |-> ops + 1]))
  /\ asked' = c
  /\ UNCHANGED <<active, wanted, strayed>>

\* prediction: a clone of the first cluster for each cluster of the model.  The
\* clones are made from one reference, so they agree on the active state.
Predict(model) ==
  /\ Message
  /\ asked' = Null
  /\ IF kind = "PLAIN"
     THEN /\ managers' = ForAll(LAMBDA m : SetModel(m, Allocate(model[1].confs)))
          /\ UNCHANGED <<active, wanted, strayed>>
     ELSE \E reference \in CreateSibling(managers[1]) :
            /\ managers' = [i \in DOMAIN model |->
                 WithKey(SetModel(reference, Allocate(model[i].confs)), model[i].key)]
            /\ active' = 1
            /\ strayed' = (strayed \/ reference.current # wanted)
            /\ UNCHANGED wanted

SupportThread ==
  \/ \E c \in Confs : Explore(c)
  \/ \E model \in Models : Predict(model)

----------------------------------------------------------------------------
(* What the application may call between two rounds.                       *)

Call ==
  /\ fault = "none" /\ pc = "idle" /\ ops < MaxOps /\ ops' = ops + 1
  /\ UNCHANGED <<fixed, pc, input, inforce, raced, interrupted>>

\* add_feature_cluster: a clone of the first cluster at the end.  The active
\* cluster is found again by its key, as the first that has it.
AddFeatureCluster(k) ==
  /\ Call /\ kind # "PLAIN"
  /\ \E clone \in CreateSibling(managers[1]) :
       /\ managers' = Append(managers, WithKey(clone, k))
       /\ strayed' = (strayed \/ clone.current # wanted)
  /\ active' = SelectInSeq(managers', LAMBDA m : m.key = Current.key)
  /\ asked' = Null
  /\ UNCHANGED <<observed, fault, wanted, late>>

\* The problem is defined in every cluster.
DefineProblem(Method(_)) ==
  /\ Call /\ managers' = ForAll(Method)
  /\ UNCHANGED <<active, observed, fault, strayed, late, asked>>

CreateState(s) == DefineProblem(LAMBDA m : CreateNewState(m, s)) /\ UNCHANGED wanted

\* The application does not remove the state it activated.
RemoveTheState(s) ==
  /\ s # wanted /\ s \in DOMAIN managers[1].optimizers
  /\ IF \E i \in DOMAIN managers : RemoveStateFails(managers[i], s)
     THEN /\ Call /\ fault' = "active_state"
          /\ UNCHANGED <<shared, observed, wanted, strayed, late, asked>>
     ELSE DefineProblem(LAMBDA m : RemoveState(m, s)) /\ UNCHANGED wanted

ChangeState(s) ==
  /\ s \in DOMAIN managers[1].optimizers /\ s # wanted
  /\ DefineProblem(LAMBDA m : ChangeActiveState(m, s)) /\ wanted' = s

AddConstraint(c)    == DefineProblem(LAMBDA m : AddClause(m, c)) /\ UNCHANGED wanted
RemoveConstraint(c) == DefineProblem(LAMBDA m : RemoveClause(m, c)) /\ UNCHANGED wanted

\* add_operating_points and remove_operating_points: the active cluster only.
ChangeKnowledge(m) ==
  /\ Call /\ managers' = [managers EXCEPT ![active] = m] /\ asked' = Null
  /\ UNCHANGED <<active, observed, fault, wanted, strayed, late>>

AddPoints(confs)    == ChangeKnowledge(AddOperatingPoints(Current, Allocate(confs)))
RemovePoints(confs) == ChangeKnowledge(RemoveOperatingPoints(Current, confs))

RemoveRuntimeKnowledge ==
  /\ DefineProblem(LAMBDA m : SetAdaptors(m, 0)) /\ UNCHANGED wanted

NewAdaptors ==
  /\ Call /\ managers' = ForAll(LAMBDA m : SetAdaptors(m, ops + 1))
  /\ UNCHANGED <<active, fault, wanted, strayed, asked>>

\* add_runtime_knowledge with the monitor in use.
AddRuntimeKnowledge ==
  /\ NewAdaptors /\ Current.adaptors = 0
  /\ late' = (observed # {}) /\ UNCHANGED observed

\* The generated init assigns new monitors, then replaces the runtime knowledge.
GlobalInit == NewAdaptors /\ observed' = {} /\ late' = FALSE

Calls ==
  \/ \E k \in Keys : AddFeatureCluster(k)
  \/ \E s \in States : CreateState(s) \/ RemoveTheState(s) \/ ChangeState(s)
  \/ \E c \in Clauses : AddConstraint(c) \/ RemoveConstraint(c)
  \/ \E c \in Confs : AddPoints({c}) \/ RemovePoints({c})
  \/ RemoveRuntimeKnowledge \/ AddRuntimeKnowledge \/ GlobalInit

\* The process ended.
Aborted == fault # "none" /\ UNCHANGED vars

Next == Loop \/ SupportThread \/ Calls \/ Aborted

\* The application keeps going round its loop.
Spec == Init /\ [][Next]_vars /\ WF_vars(Loop)

----------------------------------------------------------------------------
Faults == {"none", "null_application", "null_proposal", "null_mean", "active_state", "zero_width"}
OpsOf(confs) == [conf : confs, made : 0 .. MaxOps]
Problems == UNION {[S -> SUBSET Clauses] : S \in SUBSET States}

\* The types of the members of the managers and of the application's variables.
TypeOK ==
  /\ kind \in Kinds /\ agora \in BOOLEAN
  /\ managers # <<>> /\ active \in DOMAIN managers
  /\ \A i \in DOMAIN managers :
       /\ managers[i].knowledge \subseteq OpsOf(Confs)
       /\ managers[i].optimizers \in Problems
       /\ managers[i].current \in DOMAIN managers[i].optimizers
       /\ {managers[i].application, managers[i].proposed} \subseteq OpsOf(Confs) \cup {Null}
       /\ managers[i].status \in ApplicationStatus
  /\ pc \in {"idle", "selected", "find", "get", "apply", "run", "report", "mean", "log", "expected"}
  /\ inforce \in Confs \cup {Default} /\ observed \subseteq Confs \cup {Default}
  /\ ops \in 0 .. MaxOps /\ fault \in Faults

\* No call of the loop meets a null Operating Point (the assertions of
\* get_best_configuration and get_mean, the dereference of evaluate_error), unless
\* the support thread replaced the knowledge between find, get and applied, or
\* the delta is asked of a cluster that has no knowledge; and remove_state never
\* finds a state active that the application did not activate, unless
\* create_sibling left it so.  No division by zero ends the process as long as the
\* clusters differ in every coordinate.
FaultsHaveACause ==
  /\ fault \in {"null_application", "null_proposal"} => raced
  /\ fault = "null_mean" => raced \/ Current.knowledge = {}
  /\ fault = "active_state" => strayed
  /\ fault = "zero_width" =>
       kind = "INTEGRAL" /\ \E i, j \in DOMAIN managers : \E n \in DOMAIN Comparisons :
                             i # j /\ managers[i].key[n] = managers[j].key[n]

\* asrtm.hpp, get_best_configuration: the assertion that there is a proposal ("Error:
\* AS-RTM attempt to retrieve the best configuration from an empty state").
ProposalIsThere == fault # "null_proposal"

DistinctKeys == \A i, j \in DOMAIN managers : managers[i].key = managers[j].key => i = j

\* find_best_configuration corrects the expectation of the configuration the
\* observations come from: everything the monitors hold was measured under
\* application_configuration, through explorations, predictions and switches of
\* cluster, unless the runtime knowledge was attached to monitors in use.  Nor does
\* it hold with a normalized distance, which may prefer the second of two clusters
\* that have one key: add_feature_cluster then makes the first one active, and
\* nothing restores it.
FedByTheRunningConfiguration ==
  (/\ pc = "find" /\ ~late /\ (kind \in {"NORMALIZED", "INTEGRAL"} => DistinctKeys)
   /\ Current.status = "TUNED" /\ Current.adaptors # 0 /\ Current.application # Null)
  => observed \subseteq {Current.application.conf}

\* The cluster that serves an input respects the comparison functions if any
\* cluster does, and with the Euclidean distance none that is as admissible is
\* strictly nearer, unless a message replaced the clusters after the selection.
ServedByTheClosest ==
  (kind # "PLAIN" /\ pc \in {"find", "get", "apply"} /\ ~interrupted)
  => \A i \in DOMAIN managers :
       /\ Admissible(managers[i].key, input) => Admissible(Current.key, input)
       /\ (/\ kind = "EUCLIDEAN"
           /\ Admissible(managers[i].key, input) = Admissible(Current.key, input))
          => Distance(input, Current.key) <= Distance(input, managers[i].key)

\* All clusters have the same states, the one the application activated among them, so
\* that change_active_state and remove_state do in every cluster what they do in the
\* first, whatever create_sibling and set_model put in their place.
StatesAgree ==
  \A i \in DOMAIN managers :
    /\ DOMAIN managers[i].optimizers = DOMAIN managers[1].optimizers
    /\ wanted \in DOMAIN managers[i].optimizers

\* asrtm.hpp, create_sibling: "check if it is the current state", and "a copy of this
\* AS-RTM": all clusters solve the same problems, and the state the application
\* activated is active everywhere.
ProblemsAgree ==
  \A i \in DOMAIN managers :
    managers[i].current = wanted /\ managers[i].optimizers = managers[1].optimizers

\* A configuration the remote handler asked to explore reaches the knobs of the
\* application, unless another message or call supersedes it or the process aborts.
ExploredIsRun ==
  \A c \in Confs : asked = c ~> (inforce = c \/ asked # c \/ fault # "none")

=============================================================================
