---------------------------- MODULE AgoraHandler ----------------------------
(***************************************************************************)
(* The Agora server for one application: the workers that take messages    *)
(* from the inbox of the remote handler and the RemoteApplicationHandler   *)
(* whose methods they call, from the first welcome to the broadcast of the *)
(* application knowledge.                                                  *)
(*                                                                         *)
(* app_mutex protects the methods, but process_observation gives it up     *)
(* while it parses the observation and while it waits for a plugin; every  *)
(* stretch of code between two such points is one action.  welcome_client  *)
(* keeps the mutex (owner) while it waits for a plugin.                    *)
(*                                                                         *)
(* Messages, configurations and predictions carry no payload: the design of*)
(* experiments is the number of explorations it still asks for.  Clients,  *)
(* broker, plugins and storage are outside of the server.                  *)
(***************************************************************************)
EXTENDS Naturals, Sequences, FiniteSets

CONSTANTS
  Clients,       \* client identifiers
  Malformed,     \* clients whose application information does not parse
  Workers,       \* threads of the pool
  Nobody,        \* the owner of a free mutex, the client of an idle worker
  PerIteration,  \* num_configurations_per_iteration
  MaxDoe,        \* bound: explorations the DOE plugin can ask for
  Features,      \* are_features_enabled
  MaxInbox,      \* bound: messages waiting in the inbox
  MaxSent,       \* bound: from here on the sent configurations are not counted
  MaxCrashes     \* bound: crashes of the server

ASSUME ClientsAssumption == IsFiniteSet(Clients) /\ Malformed \subseteq Clients
ASSUME WorkersAssumption == Nobody \notin Workers /\ Nobody \notin Clients
ASSUME NumbersAssumption ==
  /\ PerIteration \in Nat /\ MaxDoe \in Nat /\ MaxInbox \in Nat
  /\ MaxSent \in Nat /\ PerIteration <= MaxSent /\ MaxCrashes \in Nat
  /\ Features \in BOOLEAN

VARIABLES
  up,            \* the server process runs
  crashes,       \* how many times it crashed
  inbox,         \* MessageQueue of the remote handler
  status,        \* handler_status, a set of InternalStatus flags
  sent,          \* num_configurations_sent_per_iteration
  doe,           \* explorations left in doe.required_explorations
  cluster,       \* is_cluster_valid
  prediction,    \* is_prediction_valid
  clients,       \* active_clients
  owner,         \* the worker that keeps app_mutex while a plugin runs
  pc,            \* pc[w]: where worker w is
  job,           \* job[w]: the client whose message w handles
  store,         \* what the storage holds: doe, models, cluster, prediction
  orphans,       \* plugins that outlive the server that started them
  conn,          \* conn[c]: client c is connected
  asked,         \* clients that heard the welcome of a restarted server
  told           \* told[c]: the last message client c received

handler == <<status, sent, doe, cluster, prediction, clients, owner>>
outside == <<conn, asked, store, orphans>>
vars == <<up, crashes, inbox, handler, pc, job, outside, told>>

Flags == {"CLUELESS", "UNDEFINED", "EXPLORING", "WITH_DOE", "BUILDING_DOE",
          "BUILDING_MODEL", "BUILDING_CLUSTER", "BUILDING_PREDICTION", "WITH_MODEL",
          "WITH_CLUSTER", "WITH_PREDICTION"}
Message == [type : {"welcome", "kia", "observation"}, client : Clients]

\* the launchers, by what their plugins produce
Plugins == {"doe", "model", "predict"}
\* a worker waits for a plugin, the mutex given up or (recovering) kept
Waiting == [model |-> "model", predict |-> "predict", doe |-> "doe",
            rpredict |-> "predict", rdoe |-> "doe"]
\* ... and has seen it end
Waited == [model |-> "modelled", predict |-> "predicted", doe |-> "planned",
           rpredict |-> "rpredicted", rdoe |-> "rplanned"]
Places == {"idle", "welcome", "kia", "observation", "parse"}
            \cup DOMAIN Waiting \cup {Waited[k] : k \in DOMAIN Waiting}

Free == owner = Nobody
Exploring == {"EXPLORING", "WITH_DOE"}
Modelling == {"BUILDING_MODEL"} \cup IF Features THEN {"BUILDING_CLUSTER"} ELSE {}

-----------------------------------------------------------------------------
Init ==
  /\ up = TRUE /\ crashes = 0
  /\ inbox = <<>>
  /\ status = {"CLUELESS"}
  /\ sent = 0 /\ doe = 0
  /\ cluster = FALSE /\ prediction = FALSE
  /\ clients = {}
  /\ owner = Nobody
  /\ pc = [w \in Workers |-> "idle"]
  /\ job = [w \in Workers |-> Nobody]
  /\ store = [doe |-> 0, models |-> FALSE, cluster |-> FALSE, prediction |-> FALSE]
  /\ orphans = {}
  /\ conn = [c \in Clients |-> FALSE]
  /\ asked = {}
  /\ told = [c \in Clients |-> "nothing"]

-----------------------------------------------------------------------------
(* Outside of the server *)

\* a message reaches the inbox while the server runs, and is lost otherwise
Sends(type, c) ==
  inbox' = IF up THEN Append(inbox, [type |-> type, client |-> c]) ELSE inbox

\* A client starts and introduces itself.
Connect(c) ==
  /\ ~conn[c] /\ Len(inbox) < MaxInbox
  /\ conn' = [conn EXCEPT ![c] = TRUE]
  /\ Sends("welcome", c)
  /\ UNCHANGED <<up, crashes, handler, pc, job, asked, store, orphans, told>>

\* A client ends, or its connection does: its last will is published.
Leave(c) ==
  /\ conn[c] /\ Len(inbox) < MaxInbox
  /\ conn' = [conn EXCEPT ![c] = FALSE]
  /\ asked' = asked \ {c}
  /\ told' = [told EXCEPT ![c] = "nothing"]
  /\ Sends("kia", c)
  /\ UNCHANGED <<up, crashes, handler, pc, job, store, orphans>>

\* A client that was given something to run reports what it observed.
Observe(c) ==
  /\ conn[c] /\ Len(inbox) < MaxInbox
  /\ told[c] \in {"explore", "prediction"}
  /\ Sends("observation", c)
  /\ UNCHANGED <<up, crashes, handler, pc, job, outside, told>>

\* what a plugin may leave in the storage
Outcomes(k) ==
  CASE k = "doe" -> {[store EXCEPT !.doe = n] : n \in 0..MaxDoe}
    [] k = "model" -> {[store EXCEPT !.models = r.models, !.cluster = r.cluster] :
                         r \in [models : BOOLEAN, cluster : {b \in BOOLEAN : b => Features}]}
    [] k = "predict" -> {[store EXCEPT !.prediction = p] : p \in BOOLEAN}

\* The plugins worker w waits for have ended well.
PluginEnds(w) ==
  /\ pc[w] \in DOMAIN Waiting
  /\ store' \in Outcomes(Waiting[pc[w]])
  /\ pc' = [pc EXCEPT ![w] = Waited[pc[w]]]
  /\ UNCHANGED <<up, crashes, inbox, handler, job, orphans, conn, asked, told>>

OrphanEnds(k) ==
  /\ k \in orphans
  /\ store' \in Outcomes(k)
  /\ orphans' = orphans \ {k}
  /\ UNCHANGED <<up, crashes, inbox, handler, pc, job, conn, asked, told>>

\* The process ends: a plugin failed and Launcher::wait threw through the worker,
\* or it was killed.  What is in memory is gone, the storage and the plugins stay.
Crash ==
  /\ up /\ crashes < MaxCrashes
  /\ up' = FALSE /\ crashes' = crashes + 1
  /\ inbox' = <<>>
  /\ status' = {"CLUELESS"} /\ sent' = 0 /\ doe' = 0
  /\ cluster' = FALSE /\ prediction' = FALSE
  /\ clients' = {} /\ owner' = Nobody
  /\ pc' = [w \in Workers |-> "idle"]
  /\ orphans' = orphans \cup {Waiting[pc[w]] : w \in {v \in Workers : pc[v] \in DOMAIN Waiting}}
  /\ job' = [w \in Workers |-> Nobody]
  /\ asked' = {}
  /\ UNCHANGED <<store, conn, told>>

\* The server starts and publishes a welcome to the clients.
Restart ==
  /\ ~up
  /\ up' = TRUE
  /\ asked' = {c \in Clients : conn[c]}
  /\ UNCHANGED <<crashes, inbox, handler, pc, job, conn, store, orphans, told>>

\* A client that hears it introduces itself again.
Rewelcome(c) ==
  /\ c \in asked /\ Len(inbox) < MaxInbox
  /\ asked' = asked \ {c}
  /\ Sends("welcome", c)
  /\ UNCHANGED <<up, crashes, handler, pc, job, conn, store, orphans, told>>

-----------------------------------------------------------------------------
(* The handler *)

\* Worker::task takes the next message; it then competes for app_mutex, so that
\* messages may be handled in another order.
Take(w) ==
  /\ up /\ pc[w] = "idle" /\ inbox # <<>>
  /\ pc' = [pc EXCEPT ![w] = Head(inbox).type]
  /\ job' = [job EXCEPT ![w] = Head(inbox).client]
  /\ inbox' = Tail(inbox)
  /\ UNCHANGED <<up, crashes, handler, outside, told>>

server == <<up, crashes, inbox, outside>>

\* w goes on, or returns to Worker::task
Goes(w, place) == pc' = [pc EXCEPT ![w] = place] /\ UNCHANGED job
Done(w) == pc' = [pc EXCEPT ![w] = "idle"] /\ job' = [job EXCEPT ![w] = Nobody]
Tell(c, what) == told' = [told EXCEPT ![c] = IF conn[c] THEN what ELSE @]

\* num_configurations_sent_per_iteration is only compared with PerIteration, so
\* counting stops at MaxSent
Count(n) == IF n < MaxSent THEN n ELSE MaxSent

\* faulty: the next configuration is taken whether there is one or not
SendConfiguration_Unchecked(c, d) ==
  doe' = d - 1 /\ sent' = Count(sent + 1) /\ Tell(c, "explore")

\* send_configuration(c), with d explorations left
SendConfiguration(c, d) ==
  IF d > 0
  THEN doe' = d - 1 /\ sent' = Count(sent + 1) /\ Tell(c, "explore")
  ELSE doe' = d /\ UNCHANGED <<sent, told>>

\* the end of welcome_client: what client c is sent in state st, with d
\* explorations left
Answer(c, st, d) ==
  IF "EXPLORING" \in st THEN SendConfiguration(c, d)
  ELSE /\ doe' = d /\ UNCHANGED sent
       /\ IF "WITH_PREDICTION" \in st THEN Tell(c, "prediction")
          ELSE IF "UNDEFINED" \in st THEN Tell(c, "abort")
          ELSE UNCHANGED told

\* faulty: only the first client is registered
WelcomeKnown_Unregistered(w) ==
  /\ pc[w] = "welcome" /\ Free
  /\ "CLUELESS" \notin status
  /\ Answer(job[w], status, doe)
  /\ Done(w)
  /\ UNCHANGED <<server, status, cluster, prediction, clients, owner>>

\* welcome_client, the handler knows the application
WelcomeKnown(w) ==
  /\ pc[w] = "welcome" /\ Free
  /\ "CLUELESS" \notin status
  /\ clients' = clients \cup {job[w]}
  /\ Answer(job[w], status, doe)
  /\ Done(w)
  /\ UNCHANGED <<server, status, cluster, prediction, owner>>

\* welcome_client of the first client, whose information cannot be parsed
WelcomeMalformed(w) ==
  /\ pc[w] = "welcome" /\ Free
  /\ "CLUELESS" \in status /\ job[w] \in Malformed
  /\ clients' = clients \cup {job[w]}
  /\ Done(w)
  /\ UNCHANGED <<server, status, sent, doe, cluster, prediction, owner, told>>

\* the rest of start_recovering once no prediction can be had: continue with the
\* d explorations in memory, or start the DOE plugin and wait, mutex kept
RecoverDoe(w, d) ==
  \/ /\ d > 0
     /\ status' = Exploring /\ owner' = Nobody
     /\ Answer(job[w], Exploring, d)
     /\ Done(w)
  \/ /\ d = 0
     /\ status' = {"BUILDING_DOE"} /\ owner' = w
     /\ doe' = d /\ UNCHANGED <<sent, told>>
     /\ Goes(w, "rdoe")

\* welcome_client of the first client: parse, then start_recovering
WelcomeFirst(w) ==
  /\ pc[w] = "welcome" /\ Free
  /\ "CLUELESS" \in status /\ job[w] \notin Malformed
  /\ clients' = clients \cup {job[w]}
  /\ prediction' = store.prediction
  /\ cluster' = IF Features THEN store.cluster ELSE cluster
  /\ \/ /\ store.prediction
        /\ status' = {"WITH_PREDICTION"} /\ UNCHANGED owner
        /\ Answer(job[w], {"WITH_PREDICTION"}, store.doe)
        /\ Done(w)
     \/ /\ ~store.prediction
        /\ store.models /\ (Features => store.cluster)
        /\ status' = {"BUILDING_PREDICTION"} /\ owner' = w
        /\ doe' = store.doe /\ UNCHANGED <<sent, told>>
        /\ Goes(w, "rpredict")
     \/ /\ ~store.prediction
        /\ ~(store.models /\ (Features => store.cluster))
        /\ RecoverDoe(w, store.doe)
  /\ UNCHANGED server

\* start_recovering after the prediction plugin
RecoverPrediction(w) ==
  /\ pc[w] = "rpredicted"
  /\ prediction' = store.prediction
  /\ \/ /\ store.prediction
        /\ status' = {"WITH_PREDICTION"} /\ owner' = Nobody
        /\ Answer(job[w], {"WITH_PREDICTION"}, doe)
        /\ Done(w)
     \/ ~store.prediction /\ RecoverDoe(w, doe)
  /\ UNCHANGED <<server, cluster, clients>>

\* faulty: an empty DOE is not noticed by the status
RecoverPlan_Silent(w) ==
  LET st == IF store.doe = 0 THEN status ELSE Exploring
  IN  /\ pc[w] = "rplanned"
      /\ status' = st /\ owner' = Nobody
      /\ Answer(job[w], st, store.doe)
      /\ Done(w)
      /\ UNCHANGED <<server, cluster, prediction, clients>>

\* start_recovering after the DOE plugin
RecoverPlan(w) ==
  LET st == IF store.doe = 0 THEN {"UNDEFINED"} ELSE Exploring
  IN  /\ pc[w] = "rplanned"
      /\ status' = st /\ owner' = Nobody
      /\ Answer(job[w], st, store.doe)
      /\ Done(w)
      /\ UNCHANGED <<server, cluster, prediction, clients>>

\* faulty: the DOE stays in memory after the last client
Bye_KeepsDoe(w) ==
  LET left == clients \ {job[w]}
      last == left = {}
  IN  /\ pc[w] = "kia" /\ Free
      /\ clients' = left
      /\ status' = IF last THEN {"CLUELESS"} ELSE status
      /\ cluster' = (cluster /\ ~last)
      /\ prediction' = (prediction /\ ~last)
      /\ Done(w)
      /\ UNCHANGED <<server, sent, doe, owner, told>>

\* bye_client
Bye(w) ==
  LET left == clients \ {job[w]}
      last == left = {}
  IN  /\ pc[w] = "kia" /\ Free
      /\ clients' = left
      /\ status' = IF last THEN {"CLUELESS"} ELSE status
      /\ doe' = IF last THEN 0 ELSE doe
      /\ cluster' = (cluster /\ ~last)
      /\ prediction' = (prediction /\ ~last)
      /\ Done(w)
      /\ UNCHANGED <<server, sent, owner, told>>

\* faulty: the status is not looked at
ObservationArrives_AnyPhase(w) ==
  /\ pc[w] = "observation" /\ Free
  /\ Goes(w, "parse")
  /\ UNCHANGED <<server, handler, told>>

\* process_observation up to the unlock: only the DSE phase is interested
ObservationArrives(w) ==
  /\ pc[w] = "observation" /\ Free
  /\ IF "EXPLORING" \in status THEN Goes(w, "parse") ELSE Done(w)
  /\ UNCHANGED <<server, handler, told>>

ObservationMalformed(w) ==
  /\ pc[w] = "parse"
  /\ Done(w)
  /\ UNCHANGED <<server, handler, told>>

\* process_observation from the second lock: the status is not looked at again
ObservationStored(w) ==
  /\ pc[w] = "parse" /\ Free
  /\ \/ /\ doe > 0 /\ sent < PerIteration
        /\ SendConfiguration(job[w], doe)
        /\ Done(w)
        /\ UNCHANGED status
     \/ /\ ~(doe > 0 /\ sent < PerIteration)
        /\ sent' = 0
        /\ status' = Modelling
        /\ Goes(w, "model")
        /\ UNCHANGED <<doe, told>>
  /\ UNCHANGED <<server, cluster, prediction, clients, owner>>

\* send_configuration to every active client while there are explorations left,
\* out of d; the order of an unordered_set is not known
SendToAll(d) ==
  \E S \in SUBSET clients :
    /\ Cardinality(S) <= d
    /\ S = clients \/ Cardinality(S) = d
    /\ doe' = d - Cardinality(S)
    /\ sent' = Count(sent + Cardinality(S))
    /\ told' = [c \in Clients |-> IF c \in S /\ conn[c] THEN "explore" ELSE told[c]]

\* the end of process_observation: explore on, or ask for another DOE first
ExploreOn(w) ==
  \/ /\ doe > 0
     /\ status' = Exploring
     /\ SendToAll(doe)
     /\ Done(w)
  \/ /\ doe = 0
     /\ status' = {"BUILDING_DOE"}
     /\ Goes(w, "doe")
     /\ UNCHANGED <<doe, sent, told>>

\* process_observation after the model and cluster plugins
Modelled(w) ==
  LET ready == store.models /\ (Features => store.cluster)
  IN  /\ pc[w] = "modelled" /\ Free
      /\ cluster' = IF Features THEN store.cluster ELSE cluster
      /\ \/ /\ ready
            /\ status' = {"BUILDING_PREDICTION"}
            /\ Goes(w, "predict")
            /\ UNCHANGED <<doe, sent, told>>
         \/ ~ready /\ ExploreOn(w)
      /\ UNCHANGED <<server, prediction, clients, owner>>

\* process_observation after the prediction plugin
Predicted(w) ==
  /\ pc[w] = "predicted" /\ Free
  /\ prediction' = store.prediction
  /\ \/ /\ store.prediction
        /\ status' = {"WITH_PREDICTION"}
        /\ told' = [c \in Clients |-> IF conn[c] THEN "prediction" ELSE told[c]]
        /\ Done(w)
        /\ UNCHANGED <<doe, sent>>
     \/ ~store.prediction /\ ExploreOn(w)
  /\ UNCHANGED <<server, cluster, clients, owner>>

\* faulty: it returns without a word when the plugin found nothing to explore
Planned_Silent(w) ==
  /\ pc[w] = "planned" /\ Free
  /\ \/ /\ store.doe = 0
        /\ doe' = 0 /\ UNCHANGED <<status, sent, told>>
     \/ /\ store.doe > 0
        /\ status' = Exploring
        /\ SendToAll(store.doe)
  /\ Done(w)
  /\ UNCHANGED <<server, cluster, prediction, clients, owner>>

\* process_observation after the DOE plugin
Planned(w) ==
  /\ pc[w] = "planned" /\ Free
  /\ \/ /\ store.doe = 0
        /\ status' = {"UNDEFINED"}
        /\ doe' = 0 /\ UNCHANGED <<sent, told>>
     \/ /\ store.doe > 0
        /\ status' = Exploring
        /\ SendToAll(store.doe)
  /\ Done(w)
  /\ UNCHANGED <<server, cluster, prediction, clients, owner>>

-----------------------------------------------------------------------------
WorkerStep(w) ==
  \/ Take(w)
  \/ WelcomeKnown(w) \/ WelcomeMalformed(w) \/ WelcomeFirst(w)
  \/ RecoverPrediction(w) \/ RecoverPlan(w)
  \/ Bye(w)
  \/ ObservationArrives(w) \/ ObservationMalformed(w) \/ ObservationStored(w)
  \/ Modelled(w) \/ Predicted(w) \/ Planned(w)

Next ==
  \/ \E c \in Clients : Connect(c) \/ Leave(c) \/ Observe(c) \/ Rewelcome(c)
  \/ \E w \in Workers : WorkerStep(w) \/ PluginEnds(w)
  \/ \E k \in Plugins : OrphanEnds(k)
  \/ Crash
  \/ Restart

Spec == Init /\ [][Next]_vars

\* Threads run and plugins end; a client that hears a welcome answers it, and one
\* that was given something to run reports it.
Fairness ==
  /\ \A w \in Workers : WF_vars(WorkerStep(w)) /\ WF_vars(PluginEnds(w))
  /\ \A c \in Clients : WF_vars(Rewelcome(c)) /\ WF_vars(Observe(c))

FairSpec == Spec /\ Fairness

-----------------------------------------------------------------------------
(* Properties *)

\* Type invariant: the variables keep the shape of the handler's members.
TypeOK ==
  /\ up \in BOOLEAN /\ crashes \in Nat
  /\ inbox \in Seq(Message)
  /\ status \in SUBSET Flags
  /\ sent \in Nat /\ doe \in Nat
  /\ cluster \in BOOLEAN /\ prediction \in BOOLEAN
  /\ clients \in SUBSET Clients
  /\ owner \in Workers \cup {Nobody}
  /\ pc \in [Workers -> Places]
  /\ job \in [Workers -> Clients \cup {Nobody}]
  /\ \A w \in Workers : pc[w] # "idle" => job[w] \in Clients
  /\ store \in [doe : Nat, models : BOOLEAN, cluster : BOOLEAN, prediction : BOOLEAN]
  /\ orphans \in SUBSET Plugins
  /\ conn \in [Clients -> BOOLEAN]
  /\ asked \in SUBSET Clients
  /\ told \in [Clients -> {"nothing", "explore", "prediction", "abort"}]

\* some worker is at one of these places
Someone(places) == \E w \in Workers : pc[w] \in places

\* The status never lies to the next caller, whatever the workers do in the
\* windows in which process_observation has given up the mutex: it says that
\* something is being built only while a worker is there to finish it, that there
\* is a prediction only when one is in memory, and none of the passing states
\* (RECOVERING, WITH_INFORMATION, WITH_MODEL, WITH_CLUSTER) is ever left behind.
StatusSound ==
  \/ status = {"CLUELESS"} /\ Free /\ ~prediction
  \/ status = {"UNDEFINED"} /\ Free
  \/ status = Exploring /\ Free
  \/ status = {"WITH_PREDICTION"} /\ Free /\ prediction
  \/ status = Modelling /\ Free /\ Someone({"model", "modelled"})
  \/ status = {"BUILDING_PREDICTION"} /\ Free /\ Someone({"predict", "predicted"})
  \/ status = {"BUILDING_DOE"} /\ Free /\ Someone({"doe", "planned"})
  \/ status = {"BUILDING_PREDICTION"} /\ ~Free /\ pc[owner] \in {"rpredict", "rpredicted"}
  \/ status = {"BUILDING_DOE"} /\ ~Free /\ pc[owner] \in {"rdoe", "rplanned"}

Quiet == up /\ Free /\ inbox = <<>> /\ asked = {} /\ \A w \in Workers : pc[w] = "idle"

\* active_clients is who is connected, once every message has been handled: a
\* client that left is not sent configurations, one that is connected is.
MembersAreConnected == Quiet => clients = {c \in Clients : conn[c]}

\* bye_client (application_handler.hpp): "If it was the last client connected,
\* free up the memory ... and reset the status to CLUELESS": without active clients
\* the handler has forgotten everything and the next welcome recovers.
LastByeResets == clients = {} => status = {"CLUELESS"} /\ doe = 0 /\ ~prediction

\* process_observation: "if we're not exploring configurations, we're not
\* interested in this message type": models are only built from the DSE phase, and so
\* by one worker at a time.
ModelsOnlyWhileExploring ==
  [][\A w \in Workers : pc[w] = "parse" /\ pc'[w] = "model" => status = Exploring]_vars

\* Once the application knowledge is there the handler keeps it until the last
\* client leaves: a late observation does not bring exploration back.
KnowledgeIsKept ==
  [][status = {"WITH_PREDICTION"} /\ up' /\ clients' # {} => status' = status]_vars

\* Nothing is being built forever: plugins end and whoever waited for them moves
\* the handler on, even if several workers found themselves building.
Building == status \cap {"BUILDING_DOE", "BUILDING_MODEL", "BUILDING_PREDICTION"} # {}
BuildingEnds == Building ~> ~Building

\* welcome_client (application_handler.hpp): "If we're already performing DSE, send
\* a new configuration to the client": who stays connected is sent something.
EveryClientIsAnswered ==
  \A c \in Clients : conn[c] ~> (~conn[c] \/ told[c] # "nothing")
=============================================================================
