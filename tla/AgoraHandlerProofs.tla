------------------------- MODULE AgoraHandlerProofs -------------------------
(***************************************************************************)
(* Proofs about AgoraHandler for any number of clients and workers: the    *)
(* type invariant and StatusSound, which rests on the discipline of        *)
(* app_mutex (LockSound).  And for one worker: what is only true when      *)
(* messages are handled one after the other.                               *)
(***************************************************************************)
EXTENDS AgoraHandler, FiniteSetTheorems, SequenceTheorems, TLAPS

Told == {"nothing", "explore", "prediction", "abort"}
Stored == [doe : Nat, models : BOOLEAN, cluster : BOOLEAN, prediction : BOOLEAN]
WaitPlaces == {"model", "predict", "doe", "rpredict", "rdoe"}
Kept == {"rpredict", "rpredicted", "rdoe", "rplanned"}

\* Where a worker goes when the plugin it waits for ends.
LEMMA WaitingFacts ==
  /\ DOMAIN Waiting = WaitPlaces
  /\ \A k \in WaitPlaces : Waiting[k] \in Plugins /\ Waited[k] \in Places
  /\ Waiting["model"] = "model" /\ Waiting["predict"] = "predict" /\ Waiting["doe"] = "doe"
  /\ Waiting["rpredict"] = "predict" /\ Waiting["rdoe"] = "doe"
  /\ Waited["model"] = "modelled" /\ Waited["predict"] = "predicted" /\ Waited["doe"] = "planned"
  /\ Waited["rpredict"] = "rpredicted" /\ Waited["rdoe"] = "rplanned"
BY DEF Waiting, Waited, WaitPlaces, Plugins, Places

\* The places a worker can be at.
LEMMA PlacesFacts ==
  Places = {"idle", "welcome", "kia", "observation", "parse",
            "model", "predict", "doe", "rpredict", "rdoe",
            "modelled", "predicted", "planned", "rpredicted", "rplanned"}
<1>1. {Waited[k] : k \in WaitPlaces}
        = {"modelled", "predicted", "planned", "rpredicted", "rplanned"}
  BY WaitingFacts DEF WaitPlaces
<1> QED BY <1>1, WaitingFacts DEF Places, WaitPlaces

\* What a plugin leaves behind is a state of the storage.
LEMMA OutcomesType ==
  ASSUME TypeOK, NEW k \in Plugins, NEW s \in Outcomes(k)
  PROVE  s \in Stored
<1>1. store \in Stored BY DEF TypeOK, Stored
<1>2. CASE k = "doe"
  <2>1. PICK n \in 0..MaxDoe : s = [store EXCEPT !.doe = n] BY <1>2 DEF Outcomes
  <2> QED BY <1>1, <2>1, NumbersAssumption DEF Stored
<1>3. CASE k = "model"
  <2>1. PICK r \in [models : BOOLEAN, cluster : {b \in BOOLEAN : b => Features}] :
           s = [store EXCEPT !.models = r.models, !.cluster = r.cluster]
    BY <1>3 DEF Outcomes
  <2> QED BY <1>1, <2>1 DEF Stored
<1>4. CASE k = "predict"
  <2>1. PICK p \in BOOLEAN : s = [store EXCEPT !.prediction = p] BY <1>4 DEF Outcomes
  <2> QED BY <1>1, <2>1 DEF Stored
<1> QED BY <1>2, <1>3, <1>4 DEF Plugins

\* Configurations are only sent while there are some.
LEMMA SendConfigurationType ==
  ASSUME TypeOK, NEW c \in Clients, NEW d \in Nat, SendConfiguration(c, d)
  PROVE  doe' \in Nat /\ sent' \in Nat /\ told' \in [Clients -> Told]
BY NumbersAssumption DEF TypeOK, Told, SendConfiguration, Tell, Count

\* What welcome_client answers.
LEMMA AnswerType ==
  ASSUME TypeOK, NEW c \in Clients, NEW d \in Nat, NEW st, Answer(c, st, d)
  PROVE  doe' \in Nat /\ sent' \in Nat /\ told' \in [Clients -> Told]
<1>1. CASE "EXPLORING" \in st
  BY <1>1, SendConfigurationType DEF Answer
<1>2. CASE "EXPLORING" \notin st
  BY <1>2 DEF TypeOK, Told, Answer, Tell
<1> QED BY <1>1, <1>2

\* The loop over the active clients stops when the explorations are used up.
LEMMA SendToAllType ==
  ASSUME TypeOK, NEW d \in Nat, SendToAll(d)
  PROVE  doe' \in Nat /\ sent' \in Nat /\ told' \in [Clients -> Told]
<1>1. PICK S \in SUBSET clients :
        /\ Cardinality(S) <= d
        /\ doe' = d - Cardinality(S)
        /\ sent' = Count(sent + Cardinality(S))
        /\ told' = [c \in Clients |-> IF c \in S /\ conn[c] THEN "explore" ELSE told[c]]
  BY DEF SendToAll
<1>2. S \in SUBSET Clients BY DEF TypeOK
<1>3. IsFiniteSet(S) BY <1>2, ClientsAssumption, FS_Subset
<1>4. Cardinality(S) \in Nat BY <1>3, FS_CardinalityType
<1>5. doe' \in Nat BY <1>1, <1>4
<1>6. sent' \in Nat BY <1>1, <1>4, NumbersAssumption DEF Count, TypeOK
<1>7. told' \in [Clients -> Told] BY <1>1 DEF TypeOK, Told
<1> QED BY <1>5, <1>6, <1>7

\* A step of a worker that leaves the queue, the storage and the clients alone keeps
\* the types when it keeps those of the handler.
LEMMA WorkerTypes ==
  ASSUME TypeOK, NEW w \in Workers, pc[w] # "idle", UNCHANGED server,
         doe' \in Nat, sent' \in Nat, told' \in [Clients -> Told],
         status' \in SUBSET Flags, cluster' \in BOOLEAN, prediction' \in BOOLEAN,
         clients' \in SUBSET Clients, owner' \in Workers \cup {Nobody},
         NEW place \in Places, Done(w) \/ Goes(w, place)
  PROVE  TypeOK'
<1>1. "idle" \in Places BY PlacesFacts
<1>2. pc' \in [Workers -> Places] BY <1>1 DEF TypeOK, Done, Goes
<1>3. job' \in [Workers -> Clients \cup {Nobody}] BY DEF TypeOK, Done, Goes
<1>4. \A v \in Workers : pc'[v] # "idle" => job'[v] \in Clients
  BY DEF TypeOK, Done, Goes
<1>5. /\ up' \in BOOLEAN /\ crashes' \in Nat /\ inbox' \in Seq(Message)
      /\ store' \in Stored /\ orphans' \in SUBSET Plugins
      /\ conn' \in [Clients -> BOOLEAN] /\ asked' \in SUBSET Clients
  BY DEF TypeOK, server, outside, Stored
<1> QED BY <1>2, <1>3, <1>4, <1>5 DEF TypeOK, Told, Stored

\* The loop at the end of process_observation, or the start of the DOE plugin.
LEMMA ExploreOnType ==
  ASSUME TypeOK, NEW w \in Workers, ExploreOn(w)
  PROVE  /\ doe' \in Nat /\ sent' \in Nat /\ told' \in [Clients -> Told]
         /\ status' \in SUBSET Flags
         /\ Done(w) \/ Goes(w, "doe")
<1>1. CASE doe > 0 /\ status' = Exploring /\ SendToAll(doe) /\ Done(w)
  BY <1>1, SendToAllType DEF TypeOK, Exploring, Flags
<1>2. CASE /\ doe = 0 /\ status' = {"BUILDING_DOE"} /\ Goes(w, "doe")
           /\ UNCHANGED <<doe, sent, told>>
  BY <1>2 DEF TypeOK, Flags, Told
<1> QED BY <1>1, <1>2 DEF ExploreOn

\* The rest of start_recovering.
LEMMA RecoverDoeType ==
  ASSUME TypeOK, NEW w \in Workers, pc[w] # "idle", NEW d \in Nat, RecoverDoe(w, d)
  PROVE  /\ doe' \in Nat /\ sent' \in Nat /\ told' \in [Clients -> Told]
         /\ status' \in SUBSET Flags /\ owner' \in Workers \cup {Nobody}
         /\ Done(w) \/ Goes(w, "rdoe")
<1>0. job[w] \in Clients BY DEF TypeOK
<1>1. CASE /\ d > 0 /\ status' = Exploring /\ owner' = Nobody
           /\ Answer(job[w], Exploring, d) /\ Done(w)
  BY <1>0, <1>1, AnswerType DEF Exploring, Flags
<1>2. CASE /\ d = 0 /\ status' = {"BUILDING_DOE"} /\ owner' = w
           /\ doe' = d /\ UNCHANGED <<sent, told>> /\ Goes(w, "rdoe")
  BY <1>2 DEF TypeOK, Flags, Told
<1> QED BY <1>1, <1>2 DEF RecoverDoe

\* A worker's step keeps the types.
LEMMA WorkerStepType ==
  ASSUME TypeOK, NEW w \in Workers, WorkerStep(w)
  PROVE  TypeOK'
<1> USE PlacesFacts
<1>0. /\ pc[w] # "idle" => job[w] \in Clients
      /\ store \in Stored /\ store.doe \in Nat /\ doe \in Nat
      /\ store.cluster \in BOOLEAN /\ store.prediction \in BOOLEAN
  BY DEF TypeOK, Stored
<1>1. CASE Take(w)
  <2>1. inbox \in Seq(Message) /\ inbox # <<>> BY <1>1 DEF Take, TypeOK
  <2>2. Head(inbox) \in Message /\ Tail(inbox) \in Seq(Message) BY <2>1
  <2>3. Head(inbox).type \in Places /\ Head(inbox).client \in Clients
    BY <2>2 DEF Message
  <2>4. /\ pc' \in [Workers -> Places] /\ job' \in [Workers -> Clients \cup {Nobody}]
        /\ \A v \in Workers : pc'[v] # "idle" => job'[v] \in Clients
    BY <1>1, <2>3 DEF Take, TypeOK
  <2> QED BY <1>1, <2>2, <2>4 DEF Take, TypeOK, handler, outside
<1>2. CASE WelcomeKnown(w)
  <2>1. doe' \in Nat /\ sent' \in Nat /\ told' \in [Clients -> Told]
    BY <1>0, <1>2, AnswerType DEF WelcomeKnown
  <2> QED BY <1>0, <1>2, <2>1, WorkerTypes DEF WelcomeKnown, TypeOK
<1>3. CASE WelcomeMalformed(w)
  <2>1. doe' \in Nat /\ sent' \in Nat /\ told' \in [Clients -> Told]
    BY <1>3 DEF WelcomeMalformed, TypeOK, Told
  <2> QED BY <1>0, <1>3, <2>1, WorkerTypes DEF WelcomeMalformed, TypeOK
<1>4. CASE WelcomeFirst(w)
  <2>1. /\ pc[w] = "welcome" /\ UNCHANGED server /\ job[w] \in Clients
        /\ clients' \in SUBSET Clients
        /\ prediction' \in BOOLEAN /\ cluster' \in BOOLEAN
    BY <1>0, <1>4 DEF WelcomeFirst, TypeOK
  <2>2. CASE /\ status' = {"WITH_PREDICTION"} /\ UNCHANGED owner
             /\ Answer(job[w], {"WITH_PREDICTION"}, store.doe) /\ Done(w)
    <3>1. doe' \in Nat /\ sent' \in Nat /\ told' \in [Clients -> Told]
      BY <1>0, <2>1, <2>2, AnswerType
    <3>2. status' \in SUBSET Flags /\ owner' \in Workers \cup {Nobody}
      BY <2>2 DEF TypeOK, Flags
    <3> QED BY <2>1, <2>2, <3>1, <3>2, WorkerTypes
  <2>3. CASE /\ status' = {"BUILDING_PREDICTION"} /\ owner' = w
             /\ doe' = store.doe /\ UNCHANGED <<sent, told>> /\ Goes(w, "rpredict")
    <3>1. /\ doe' \in Nat /\ sent' \in Nat /\ told' \in [Clients -> Told]
          /\ status' \in SUBSET Flags /\ owner' \in Workers \cup {Nobody}
      BY <1>0, <2>3 DEF TypeOK, Flags, Told
    <3>2. "rpredict" \in Places OBVIOUS
    <3> QED BY <2>1, <2>3, <3>1, <3>2, WorkerTypes
  <2>4. CASE RecoverDoe(w, store.doe)
    <3>2. "rdoe" \in Places OBVIOUS
    <3>3. pc[w] # "idle" BY <2>1
    <3>4. /\ doe' \in Nat /\ sent' \in Nat /\ told' \in [Clients -> Told]
          /\ status' \in SUBSET Flags /\ owner' \in Workers \cup {Nobody}
          /\ Done(w) \/ Goes(w, "rdoe")
      BY <1>0, <2>4, <3>3, RecoverDoeType
    <3> QED BY <2>1, <3>2, <3>3, <3>4, WorkerTypes
  <2> QED BY <1>4, <2>2, <2>3, <2>4 DEF WelcomeFirst
<1>5. CASE RecoverPrediction(w)
  <2>1. /\ pc[w] = "rpredicted" /\ UNCHANGED server /\ job[w] \in Clients
        /\ clients' \in SUBSET Clients
        /\ prediction' \in BOOLEAN /\ cluster' \in BOOLEAN
    BY <1>0, <1>5 DEF RecoverPrediction, TypeOK
  <2>2. CASE /\ status' = {"WITH_PREDICTION"} /\ owner' = Nobody
             /\ Answer(job[w], {"WITH_PREDICTION"}, doe) /\ Done(w)
    <3>1. doe' \in Nat /\ sent' \in Nat /\ told' \in [Clients -> Told]
      BY <1>0, <2>1, <2>2, AnswerType
    <3>2. status' \in SUBSET Flags /\ owner' \in Workers \cup {Nobody}
      BY <2>2 DEF TypeOK, Flags
    <3> QED BY <2>1, <2>2, <3>1, <3>2, WorkerTypes
  <2>3. CASE RecoverDoe(w, doe)
    <3>2. "rdoe" \in Places OBVIOUS
    <3>3. pc[w] # "idle" BY <2>1
    <3>4. /\ doe' \in Nat /\ sent' \in Nat /\ told' \in [Clients -> Told]
          /\ status' \in SUBSET Flags /\ owner' \in Workers \cup {Nobody}
          /\ Done(w) \/ Goes(w, "rdoe")
      BY <1>0, <2>3, <3>3, RecoverDoeType
    <3> QED BY <2>1, <3>2, <3>3, <3>4, WorkerTypes
  <2> QED BY <1>5, <2>2, <2>3 DEF RecoverPrediction
<1>6. CASE RecoverPlan(w)
  <2>1. doe' \in Nat /\ sent' \in Nat /\ told' \in [Clients -> Told]
    BY <1>0, <1>6, AnswerType DEF RecoverPlan
  <2>2. status' \in SUBSET Flags BY <1>6 DEF RecoverPlan, Exploring, Flags
  <2> QED BY <1>6, <2>1, <2>2, WorkerTypes DEF RecoverPlan, TypeOK
<1>7. CASE Bye(w)
  <2>1. /\ doe' \in Nat /\ sent' \in Nat /\ told' \in [Clients -> Told]
        /\ status' \in SUBSET Flags
    BY <1>7 DEF Bye, TypeOK, Told, Flags
  <2>2. cluster' \in BOOLEAN /\ prediction' \in BOOLEAN
    BY <1>7, Zenon DEF Bye
  <2> QED BY <1>7, <2>1, <2>2, WorkerTypes DEF Bye, TypeOK
<1>8. CASE ObservationArrives(w) \/ ObservationMalformed(w)
  <2>1. Done(w) \/ Goes(w, "parse") BY <1>8 DEF ObservationArrives, ObservationMalformed
  <2>2. pc[w] # "idle" /\ UNCHANGED <<server, handler, told>>
    BY <1>8 DEF ObservationArrives, ObservationMalformed
  <2> QED BY <2>1, <2>2, WorkerTypes DEF handler, TypeOK, Told
<1>9. CASE ObservationStored(w)
  <2>1. /\ doe' \in Nat /\ sent' \in Nat /\ told' \in [Clients -> Told]
        /\ status' \in SUBSET Flags
        /\ Done(w) \/ Goes(w, "model")
    <3>1. CASE SendConfiguration(job[w], doe) /\ Done(w) /\ UNCHANGED status
      BY <1>0, <1>9, <3>1, SendConfigurationType DEF ObservationStored, TypeOK
    <3>2. CASE ~(SendConfiguration(job[w], doe) /\ Done(w) /\ UNCHANGED status)
      BY <1>9, <3>2 DEF ObservationStored, TypeOK, Told, Flags, Modelling
    <3> QED BY <3>1, <3>2
  <2>2. /\ pc[w] # "idle" /\ UNCHANGED server /\ "model" \in Places
        /\ cluster' \in BOOLEAN /\ prediction' \in BOOLEAN
        /\ clients' \in SUBSET Clients /\ owner' \in Workers \cup {Nobody}
    BY <1>9 DEF ObservationStored, TypeOK
  <2> QED BY <2>1, <2>2, WorkerTypes
<1>10. CASE Modelled(w)
  <2>1. /\ doe' \in Nat /\ sent' \in Nat /\ told' \in [Clients -> Told]
        /\ status' \in SUBSET Flags
        /\ Done(w) \/ Goes(w, "doe") \/ Goes(w, "predict")
    <3>1. CASE ExploreOn(w) BY <3>1, ExploreOnType
    <3>2. CASE ~ExploreOn(w) BY <1>10, <3>2 DEF Modelled, TypeOK, Told, Flags
    <3> QED BY <3>1, <3>2
  <2>2. "doe" \in Places /\ "predict" \in Places OBVIOUS
  <2> QED BY <1>0, <1>10, <2>1, <2>2, WorkerTypes DEF Modelled, TypeOK
<1>11. CASE Predicted(w)
  <2>1. /\ doe' \in Nat /\ sent' \in Nat /\ told' \in [Clients -> Told]
        /\ status' \in SUBSET Flags
        /\ Done(w) \/ Goes(w, "doe")
    <3>1. CASE ExploreOn(w) BY <3>1, ExploreOnType
    <3>2. CASE ~ExploreOn(w) BY <1>11, <3>2 DEF Predicted, TypeOK, Told, Flags
    <3> QED BY <3>1, <3>2
  <2>2. /\ pc[w] # "idle" /\ UNCHANGED server /\ "doe" \in Places
        /\ cluster' \in BOOLEAN /\ prediction' \in BOOLEAN
        /\ clients' \in SUBSET Clients /\ owner' \in Workers \cup {Nobody}
    BY <1>0, <1>11 DEF Predicted, TypeOK
  <2> QED BY <2>1, <2>2, WorkerTypes
<1>12. CASE Planned(w)
  <2>1. /\ doe' \in Nat /\ sent' \in Nat /\ told' \in [Clients -> Told]
        /\ status' \in SUBSET Flags
    <3>1. CASE status' = Exploring /\ SendToAll(store.doe)
      BY <1>0, <3>1, SendToAllType DEF Exploring, Flags
    <3>2. CASE ~(status' = Exploring /\ SendToAll(store.doe))
      BY <1>12, <3>2 DEF Planned, TypeOK, Told, Flags
    <3> QED BY <3>1, <3>2
  <2> QED BY <1>12, <2>1, WorkerTypes DEF Planned, TypeOK
<1> QED BY <1>1, <1>2, <1>3, <1>4, <1>5, <1>6, <1>7, <1>8, <1>9, <1>10, <1>11, <1>12
        DEF WorkerStep

\* Everything outside of the workers keeps the types.
LEMMA OutsideType ==
  ASSUME TypeOK, Next, ~\E w \in Workers : WorkerStep(w)
  PROVE  TypeOK'
<1>1. ASSUME NEW c \in Clients, NEW type \in {"welcome", "kia", "observation"}, Sends(type, c)
      PROVE  inbox' \in Seq(Message)
  <2>1. [type |-> type, client |-> c] \in Message BY DEF Message
  <2> QED BY <1>1, <2>1 DEF Sends, TypeOK
<1>2. ASSUME NEW c \in Clients, Connect(c) PROVE TypeOK'
  <2>1. inbox' \in Seq(Message) BY <1>1, <1>2 DEF Connect
  <2> QED BY <1>2, <2>1 DEF Connect, TypeOK, handler
<1>3. ASSUME NEW c \in Clients, Leave(c) PROVE TypeOK'
  <2>1. inbox' \in Seq(Message) BY <1>1, <1>3 DEF Leave
  <2> QED BY <1>3, <2>1 DEF Leave, TypeOK, handler
<1>4. ASSUME NEW c \in Clients, Observe(c) PROVE TypeOK'
  <2>1. inbox' \in Seq(Message) BY <1>1, <1>4 DEF Observe
  <2> QED BY <1>4, <2>1 DEF Observe, TypeOK, handler, outside
<1>5. ASSUME NEW c \in Clients, Rewelcome(c) PROVE TypeOK'
  <2>1. inbox' \in Seq(Message) BY <1>1, <1>5 DEF Rewelcome
  <2> QED BY <1>5, <2>1 DEF Rewelcome, TypeOK, handler
<1>6. ASSUME NEW w \in Workers, PluginEnds(w) PROVE TypeOK'
  <2>1. pc[w] \in WaitPlaces BY <1>6, WaitingFacts DEF PluginEnds
  <2>2. store' \in Stored BY <1>6, <2>1, WaitingFacts, OutcomesType DEF PluginEnds
  <2>3. pc' \in [Workers -> Places] /\ pc[w] # "idle"
    BY <1>6, <2>1, WaitingFacts DEF PluginEnds, TypeOK, WaitPlaces
  <2>4. \A v \in Workers : pc'[v] # "idle" => job'[v] \in Clients
    BY <1>6, <2>3 DEF PluginEnds, TypeOK
  <2> QED BY <1>6, <2>2, <2>3, <2>4 DEF PluginEnds, TypeOK, handler, Stored
<1>7. ASSUME NEW k \in Plugins, OrphanEnds(k) PROVE TypeOK'
  <2>1. store' \in Stored BY <1>7, OutcomesType DEF OrphanEnds
  <2> QED BY <1>7, <2>1 DEF OrphanEnds, TypeOK, handler, Stored
<1>8. CASE Crash
  <2>1. orphans' \in SUBSET Plugins
    BY <1>8, WaitingFacts DEF Crash, TypeOK
  <2>2. "idle" \in Places BY PlacesFacts
  <2>3. status' \in SUBSET Flags BY <1>8 DEF Crash, Flags
  <2>4. /\ pc' \in [Workers -> Places] /\ job' \in [Workers -> Clients \cup {Nobody}]
        /\ \A v \in Workers : pc'[v] = "idle"
    BY <1>8, <2>2 DEF Crash
  <2>5. inbox' \in Seq(Message) BY <1>8 DEF Crash
  <2>6. /\ up' \in BOOLEAN /\ crashes' \in Nat /\ sent' \in Nat /\ doe' \in Nat
        /\ cluster' \in BOOLEAN /\ prediction' \in BOOLEAN
        /\ clients' \in SUBSET Clients /\ owner' \in Workers \cup {Nobody}
        /\ asked' \in SUBSET Clients
    <3>1. /\ up' = FALSE /\ crashes' = crashes + 1 /\ sent' = 0 /\ doe' = 0
          /\ cluster' = FALSE /\ prediction' = FALSE
          /\ clients' = {} /\ owner' = Nobody /\ asked' = {}
      BY <1>8, Zenon DEF Crash
    <3>2. crashes' \in Nat /\ sent' \in Nat /\ doe' \in Nat
      <4>1. crashes \in Nat BY DEF TypeOK
      <4> QED BY <3>1, <4>1
    <3>3. up' \in BOOLEAN /\ cluster' \in BOOLEAN /\ prediction' \in BOOLEAN
      BY <3>1, Zenon
    <3>4. clients' \in SUBSET Clients /\ asked' \in SUBSET Clients BY <3>1, Zenon
    <3>5. owner' \in Workers \cup {Nobody} BY <3>1, Zenon
    <3> QED BY <3>2, <3>3, <3>4, <3>5
  <2>7. UNCHANGED <<store, conn, told>> BY <1>8 DEF Crash
  <2> QED BY <2>1, <2>3, <2>4, <2>5, <2>6, <2>7 DEF TypeOK
<1>9. CASE Restart
  BY <1>9 DEF Restart, TypeOK, handler
<1> QED BY <1>2, <1>3, <1>4, <1>5, <1>6, <1>7, <1>8, <1>9 DEF Next

\* A server that has just started is well typed.
LEMMA TypeInit == Init => TypeOK
<1> SUFFICES ASSUME Init PROVE TypeOK OBVIOUS
<1>1. "idle" \in Places BY PlacesFacts
<1>2. /\ pc \in [Workers -> Places] /\ job \in [Workers -> Clients \cup {Nobody}]
      /\ \A v \in Workers : pc[v] = "idle"
  BY <1>1 DEF Init
<1>3. inbox \in Seq(Message) BY DEF Init
<1>4. /\ up \in BOOLEAN /\ crashes \in Nat /\ sent \in Nat /\ doe \in Nat
      /\ cluster \in BOOLEAN /\ prediction \in BOOLEAN
      /\ clients \in SUBSET Clients /\ owner \in Workers \cup {Nobody}
      /\ asked \in SUBSET Clients /\ orphans \in SUBSET Plugins
      /\ status \in SUBSET Flags
  BY DEF Init, Flags
<1>5. store \in Stored BY DEF Init, Stored
<1>6. conn \in [Clients -> BOOLEAN] /\ told \in [Clients -> Told] BY DEF Init, Told
<1> QED BY <1>2, <1>3, <1>4, <1>5, <1>6 DEF TypeOK, Stored, Told

\* TypeOK is inductive.
LEMMA TypeStep == TypeOK /\ [Next]_vars => TypeOK'
<1> SUFFICES ASSUME TypeOK, [Next]_vars PROVE TypeOK' OBVIOUS
<1>1. CASE \E w \in Workers : WorkerStep(w) BY <1>1, WorkerStepType
<1>2. CASE Next /\ ~\E w \in Workers : WorkerStep(w) BY <1>2, OutsideType
<1>3. CASE UNCHANGED vars BY <1>3 DEF vars, handler, outside, TypeOK
<1> QED BY <1>1, <1>2, <1>3

\* The members of RemoteApplicationHandler, the inbox and the storage keep their
\* types; in particular the DOE is never asked for a configuration it does not have.
THEOREM HandlerTypes == Spec => []TypeOK
<1>1. Init => TypeOK BY TypeInit
<1>2. TypeOK /\ [Next]_vars => TypeOK' BY TypeStep
<1> QED BY <1>1, <1>2, PTL DEF Spec

-----------------------------------------------------------------------------
(* The status *)

\* app_mutex is kept through a plugin by the one worker that recovers.
LockSound == \A w \in Workers : owner = w <=> pc[w] \in Kept

\* the inductive invariant behind StatusSound
StatusInv == TypeOK /\ LockSound /\ StatusSound

Phases == {{"model", "modelled"}, {"predict", "predicted"}, {"doe", "planned"},
           {"rpredict", "rpredicted"}, {"rdoe", "rplanned"}}

\* Whoever builds something goes on building it.
Stay == \A v \in Workers : \A ph \in Phases : pc[v] \in ph => pc'[v] \in ph

\* A step that lets builders build and touches nothing of the handler is sound.
LEMMA SoundKept ==
  ASSUME StatusInv, UNCHANGED <<status, prediction, owner>>, Stay
  PROVE  StatusSound'
<1>1. \A v \in Workers :
        /\ pc[v] \in {"model", "modelled"} => pc'[v] \in {"model", "modelled"}
        /\ pc[v] \in {"predict", "predicted"} => pc'[v] \in {"predict", "predicted"}
        /\ pc[v] \in {"doe", "planned"} => pc'[v] \in {"doe", "planned"}
        /\ pc[v] \in {"rpredict", "rpredicted"} => pc'[v] \in {"rpredict", "rpredicted"}
        /\ pc[v] \in {"rdoe", "rplanned"} => pc'[v] \in {"rdoe", "rplanned"}
  BY DEF Stay, Phases
<1>2. /\ Someone({"model", "modelled"}) => Someone({"model", "modelled"})'
      /\ Someone({"predict", "predicted"}) => Someone({"predict", "predicted"})'
      /\ Someone({"doe", "planned"}) => Someone({"doe", "planned"})'
  BY <1>1 DEF Someone
<1>3. ~Free => owner \in Workers BY DEF Free, StatusInv, TypeOK
<1> QED BY <1>1, <1>2, <1>3 DEF StatusSound, StatusInv, Free

\* A worker that neither builds nor recovers leaves the builders alone.
LEMMA OthersStay ==
  ASSUME TypeOK, NEW w \in Workers, NEW place,
         \A ph \in Phases : pc[w] \notin ph,
         pc' = [pc EXCEPT ![w] = place]
  PROVE  Stay
BY DEF TypeOK, Stay

\* A free mutex stays free when w moves between places outside of start_recovering.
LEMMA LockFree ==
  ASSUME TypeOK, LockSound, NEW w \in Workers, NEW place,
         pc[w] \notin Kept, place \notin Kept,
         pc' = [pc EXCEPT ![w] = place], UNCHANGED owner
  PROVE  LockSound'
BY DEF TypeOK, LockSound

\* w releases the mutex, or never had it.
LEMMA LockReleased ==
  ASSUME TypeOK, LockSound, NEW w \in Workers, NEW place,
         place \notin Kept, owner \in {w, Nobody},
         pc' = [pc EXCEPT ![w] = place], owner' = Nobody
  PROVE  LockSound'
BY WorkersAssumption DEF TypeOK, LockSound

\* w keeps the mutex while it waits for a plugin.
LEMMA LockKept ==
  ASSUME TypeOK, LockSound, NEW w \in Workers, NEW place \in Kept,
         owner \in {w, Nobody},
         pc' = [pc EXCEPT ![w] = place], owner' = w
  PROVE  LockSound'
BY WorkersAssumption DEF TypeOK, LockSound

\* The rest of start_recovering ends exploring, or building with the mutex kept.
LEMMA RecoverDoeSound ==
  ASSUME TypeOK, LockSound, NEW w \in Workers, owner \in {w, Nobody}, NEW d \in Nat,
         RecoverDoe(w, d)
  PROVE  LockSound' /\ StatusSound'
<1>1. CASE status' = Exploring /\ owner' = Nobody /\ Done(w)
  <2>1. LockSound' BY <1>1, LockReleased DEF Done, Kept
  <2> QED BY <1>1, <2>1 DEF StatusSound, Free
<1>2. CASE status' = {"BUILDING_DOE"} /\ owner' = w /\ Goes(w, "rdoe")
  <2>1. LockSound' BY <1>2, LockKept DEF Goes, Kept
  <2>2. pc'[owner'] = "rdoe" BY <1>2 DEF Goes, TypeOK
  <2>3. owner' # Nobody BY <1>2, WorkersAssumption
  <2> QED BY <1>2, <2>1, <2>2, <2>3 DEF StatusSound, Free
<1> QED BY <1>1, <1>2 DEF RecoverDoe

\* The end of process_observation explores, or builds with the mutex given up.
LEMMA ExploreOnSound ==
  ASSUME TypeOK, LockSound, NEW w \in Workers, Free, pc[w] \notin Kept,
         ExploreOn(w), UNCHANGED owner
  PROVE  LockSound' /\ StatusSound'
<1>1. CASE status' = Exploring /\ Done(w)
  <2>1. LockSound' BY <1>1, LockFree DEF Done, Kept
  <2> QED BY <1>1, <2>1 DEF StatusSound, Free
<1>2. CASE status' = {"BUILDING_DOE"} /\ Goes(w, "doe")
  <2>1. LockSound' BY <1>2, LockFree DEF Goes, Kept
  <2>2. pc'[w] = "doe" BY <1>2 DEF Goes, TypeOK
  <2> QED BY <1>2, <2>1, <2>2 DEF StatusSound, Free, Someone
<1> QED BY <1>1, <1>2 DEF ExploreOn

\* Every action of the handler needs the mutex free, or is its owner's.
LEMMA WorkerStepSound ==
  ASSUME StatusInv, NEW w \in Workers, WorkerStep(w)
  PROVE  LockSound' /\ StatusSound'
<1>0. TypeOK /\ LockSound /\ StatusSound BY DEF StatusInv
<1>1. CASE Take(w)
  <2>1. /\ pc[w] = "idle" /\ pc' = [pc EXCEPT ![w] = Head(inbox).type]
        /\ UNCHANGED <<status, prediction, owner>>
    BY <1>1 DEF Take, handler
  <2>2. Head(inbox).type \in {"welcome", "kia", "observation"}
    <3>1. inbox \in Seq(Message) /\ inbox # <<>> BY <1>0, <1>1 DEF Take, TypeOK
    <3>2. Head(inbox) \in Message BY <3>1
    <3> QED BY <3>2 DEF Message
  <2>3. LockSound' BY <1>0, <2>1, <2>2, LockFree DEF Kept
  <2>4. Stay BY <1>0, <2>1, OthersStay DEF Phases
  <2> QED BY <2>1, <2>3, <2>4, SoundKept
<1>2. CASE \/ WelcomeKnown(w) \/ WelcomeMalformed(w) \/ ObservationArrives(w)
           \/ ObservationMalformed(w)
  <2>1. PICK place \in {"idle", "parse"} :
          /\ pc[w] \in {"welcome", "observation", "parse"}
          /\ pc' = [pc EXCEPT ![w] = place]
          /\ UNCHANGED <<status, prediction, owner>>
    BY <1>2 DEF WelcomeKnown, WelcomeMalformed, ObservationArrives, ObservationMalformed,
                Done, Goes, handler
  <2>2. LockSound' BY <1>0, <2>1, LockFree DEF Kept
  <2>3. Stay BY <1>0, <2>1, OthersStay DEF Phases
  <2> QED BY <2>1, <2>2, <2>3, SoundKept
<1>3. CASE WelcomeFirst(w)
  <2>1. pc[w] = "welcome" /\ owner = Nobody /\ prediction' = store.prediction
    BY <1>3 DEF WelcomeFirst, Free
  <2>2. CASE store.prediction /\ status' = {"WITH_PREDICTION"} /\ UNCHANGED owner /\ Done(w)
    <3>1. LockSound' BY <1>0, <2>1, <2>2, LockFree DEF Done, Kept
    <3> QED BY <2>1, <2>2, <3>1 DEF StatusSound, Free
  <2>3. CASE status' = {"BUILDING_PREDICTION"} /\ owner' = w /\ Goes(w, "rpredict")
    <3>1. LockSound' BY <1>0, <2>1, <2>3, LockKept DEF Goes, Kept
    <3>2. pc'[owner'] = "rpredict" BY <1>0, <2>3 DEF Goes, TypeOK
    <3>3. owner' # Nobody BY <2>3, WorkersAssumption
    <3> QED BY <2>3, <3>1, <3>2, <3>3 DEF StatusSound, Free
  <2>4. CASE RecoverDoe(w, store.doe)
    <3>1. store.doe \in Nat BY <1>0 DEF TypeOK
    <3> QED BY <1>0, <2>1, <2>4, <3>1, RecoverDoeSound
  <2> QED BY <1>3, <2>2, <2>3, <2>4 DEF WelcomeFirst
<1>4. CASE RecoverPrediction(w)
  <2>1. owner = w /\ prediction' = store.prediction
    BY <1>0, <1>4 DEF RecoverPrediction, LockSound, Kept
  <2>2. CASE store.prediction /\ status' = {"WITH_PREDICTION"} /\ owner' = Nobody /\ Done(w)
    <3>1. LockSound' BY <1>0, <2>1, <2>2, LockReleased DEF Done, Kept
    <3> QED BY <2>1, <2>2, <3>1 DEF StatusSound, Free
  <2>3. CASE RecoverDoe(w, doe)
    <3>1. doe \in Nat BY <1>0 DEF TypeOK
    <3> QED BY <1>0, <2>1, <2>3, <3>1, RecoverDoeSound
  <2> QED BY <1>4, <2>2, <2>3 DEF RecoverPrediction
<1>5. CASE RecoverPlan(w)
  <2>1. owner = w BY <1>0, <1>5 DEF RecoverPlan, LockSound, Kept
  <2>2. owner' = Nobody /\ (status' = {"UNDEFINED"} \/ status' = Exploring) /\ Done(w)
    BY <1>5 DEF RecoverPlan
  <2>3. LockSound' BY <1>0, <2>1, <2>2, LockReleased DEF Done, Kept
  <2> QED BY <2>2, <2>3 DEF StatusSound, Free
<1>6. CASE Bye(w)
  <2>1. pc[w] = "kia" /\ owner = Nobody /\ owner' = Nobody /\ Done(w)
    BY <1>6 DEF Bye, Free
  <2>2. LockSound' BY <1>0, <2>1, LockFree DEF Done, Kept
  <2>3. CASE clients \ {job[w]} = {}
    <3>1. status' = {"CLUELESS"} BY <1>6, <2>3 DEF Bye
    <3>2. ~prediction' BY <1>6, <2>3, Zenon DEF Bye
    <3> QED BY <2>1, <2>2, <3>1, <3>2 DEF StatusSound, Free
  <2>4. CASE clients \ {job[w]} # {}
    <3>1. status' = status BY <1>6, <2>4 DEF Bye
    <3>2. prediction' = prediction
      <4>1. prediction \in BOOLEAN BY <1>0 DEF TypeOK
      <4> QED BY <1>6, <2>4, <4>1, Zenon DEF Bye
    <3>3. Stay BY <1>0, <2>1, OthersStay DEF Phases, Done
    <3> QED BY <2>1, <2>2, <3>1, <3>2, <3>3, SoundKept
  <2> QED BY <2>3, <2>4
<1>7. CASE ObservationStored(w)
  <2>1. pc[w] = "parse" /\ owner = Nobody /\ UNCHANGED <<owner, prediction>>
    BY <1>7 DEF ObservationStored, Free
  <2>2. CASE Done(w) /\ UNCHANGED status
    <3>1. LockSound' BY <1>0, <2>1, <2>2, LockFree DEF Done, Kept
    <3>2. Stay BY <1>0, <2>1, <2>2, OthersStay DEF Phases, Done
    <3> QED BY <2>1, <2>2, <3>1, <3>2, SoundKept
  <2>3. CASE status' = Modelling /\ Goes(w, "model")
    <3>1. LockSound' BY <1>0, <2>1, <2>3, LockFree DEF Goes, Kept
    <3>2. pc'[w] = "model" BY <1>0, <2>3 DEF Goes, TypeOK
    <3> QED BY <2>1, <2>3, <3>1, <3>2 DEF StatusSound, Free, Someone
  <2> QED BY <1>7, <2>2, <2>3 DEF ObservationStored
<1>8. CASE Modelled(w)
  <2>1. pc[w] \notin Kept /\ Free /\ owner' = owner BY <1>8 DEF Modelled, Kept
  <2>2. CASE status' = {"BUILDING_PREDICTION"} /\ Goes(w, "predict")
    <3>1. LockSound' BY <1>0, <2>1, <2>2, LockFree DEF Goes, Kept
    <3>2. pc'[w] = "predict" BY <1>0, <2>2 DEF Goes, TypeOK
    <3> QED BY <2>1, <2>2, <3>1, <3>2 DEF StatusSound, Free, Someone
  <2>3. CASE ExploreOn(w) BY <1>0, <2>1, <2>3, ExploreOnSound
  <2> QED BY <1>8, <2>2, <2>3 DEF Modelled
<1>9. CASE Predicted(w)
  <2>1. /\ pc[w] \notin Kept /\ Free /\ owner' = owner
        /\ prediction' = store.prediction
    BY <1>9 DEF Predicted, Kept
  <2>2. CASE store.prediction /\ status' = {"WITH_PREDICTION"} /\ Done(w)
    <3>1. LockSound' BY <1>0, <2>1, <2>2, LockFree DEF Done, Kept
    <3> QED BY <2>1, <2>2, <3>1 DEF StatusSound, Free
  <2>3. CASE ExploreOn(w) BY <1>0, <2>1, <2>3, ExploreOnSound
  <2> QED BY <1>9, <2>2, <2>3 DEF Predicted
<1>10. CASE Planned(w)
  <2>1. /\ pc[w] \notin Kept /\ Free /\ owner' = owner /\ Done(w)
        /\ status' = {"UNDEFINED"} \/ status' = Exploring
    BY <1>10 DEF Planned, Kept
  <2>2. LockSound' BY <1>0, <2>1, LockFree DEF Done, Kept
  <2> QED BY <2>1, <2>2 DEF StatusSound, Free
<1> QED BY <1>1, <1>2, <1>3, <1>4, <1>5, <1>6, <1>7, <1>8, <1>9, <1>10 DEF WorkerStep

\* Clients, plugins and crashes do not make the status lie.
LEMMA OutsideSound ==
  ASSUME StatusInv, Next, ~\E w \in Workers : WorkerStep(w)
  PROVE  LockSound' /\ StatusSound'
<1>0. TypeOK /\ LockSound /\ StatusSound BY DEF StatusInv
<1>1. ASSUME UNCHANGED <<status, prediction, owner, pc>> PROVE LockSound' /\ StatusSound'
  <2>1. Stay BY <1>1 DEF Stay
  <2>2. LockSound' BY <1>0, <1>1 DEF LockSound
  <2> QED BY <1>1, <2>1, <2>2, SoundKept
<1>2. ASSUME NEW c \in Clients, Connect(c) \/ Leave(c) \/ Observe(c) \/ Rewelcome(c)
      PROVE  LockSound' /\ StatusSound'
  BY <1>1, <1>2 DEF Connect, Leave, Observe, Rewelcome, handler
<1>3. ASSUME NEW w \in Workers, PluginEnds(w) PROVE LockSound' /\ StatusSound'
  <2>1. /\ pc[w] \in WaitPlaces /\ pc' = [pc EXCEPT ![w] = Waited[pc[w]]]
        /\ UNCHANGED <<status, prediction, owner>>
    BY <1>3, WaitingFacts DEF PluginEnds, handler
  <2>2. LockSound'
    BY <1>0, <2>1, WaitingFacts DEF LockSound, TypeOK, WaitPlaces, Kept
  <2>3. Stay BY <1>0, <2>1, WaitingFacts DEF Stay, Phases, TypeOK, WaitPlaces
  <2> QED BY <2>1, <2>2, <2>3, SoundKept
<1>4. ASSUME NEW k \in Plugins, OrphanEnds(k) PROVE LockSound' /\ StatusSound'
  BY <1>1, <1>4 DEF OrphanEnds, handler
<1>5. CASE Crash
  <2>1. LockSound' BY <1>5, WorkersAssumption DEF Crash, LockSound, Kept
  <2>2. status' = {"CLUELESS"} /\ owner' = Nobody BY <1>5 DEF Crash
  <2>3. ~prediction' BY <1>5, Zenon DEF Crash
  <2> QED BY <2>1, <2>2, <2>3 DEF StatusSound, Free
<1>6. CASE Restart
  BY <1>1, <1>6 DEF Restart, handler
<1> QED BY <1>2, <1>3, <1>4, <1>5, <1>6 DEF Next

\* A handler that was just created is CLUELESS and its mutex free.
LEMMA StatusInit == Init => StatusInv
<1> SUFFICES ASSUME Init PROVE StatusInv OBVIOUS
<1>1. LockSound BY WorkersAssumption DEF Init, LockSound, Kept
<1>2. ~prediction BY Zenon DEF Init
<1>3. StatusSound BY <1>2 DEF Init, StatusSound, Free
<1> QED BY <1>1, <1>3, TypeInit DEF StatusInv

\* StatusInv is inductive.
LEMMA StatusStep == StatusInv /\ [Next]_vars => StatusInv'
<1> SUFFICES ASSUME StatusInv, [Next]_vars PROVE StatusInv' OBVIOUS
<1>0. TypeOK' BY TypeStep DEF StatusInv
<1>1. CASE \E w \in Workers : WorkerStep(w) BY <1>0, <1>1, WorkerStepSound DEF StatusInv
<1>2. CASE Next /\ ~\E w \in Workers : WorkerStep(w)
  BY <1>0, <1>2, OutsideSound DEF StatusInv
<1>3. CASE UNCHANGED vars
  <2>1. UNCHANGED <<status, prediction, owner, pc>> BY <1>3 DEF vars, handler
  <2>2. Stay /\ LockSound' BY <2>1 DEF Stay, StatusInv, LockSound
  <2> QED BY <1>0, <2>1, <2>2, SoundKept DEF StatusInv
<1> QED BY <1>1, <1>2, <1>3

\* However many workers handle messages of the application at once, the status of
\* its handler is one that the next call can rely on.
THEOREM StatusAlwaysSound == Spec => []StatusSound
<1>1. Init => StatusInv BY StatusInit
<1>2. StatusInv /\ [Next]_vars => StatusInv' BY StatusStep
<1>3. StatusInv => StatusSound BY DEF StatusInv
<1> QED BY <1>1, <1>2, <1>3, PTL DEF Spec

-----------------------------------------------------------------------------
(***************************************************************************)
(* What AgoraHandler promises when the pool has one thread, for any number *)
(* of clients: bye_client resets the handler, models are only built from   *)
(* the DSE phase, the application knowledge is kept and the active clients *)
(* are those that are connected.  With two threads none of the four holds: *)
(* process_observation does not look at the status again after the windows *)
(* in which it has given up the mutex, and two threads may handle a welcome*)
(* and a goodbye in another order than they were sent.                     *)
(***************************************************************************)

OneWorker == \A v, w \in Workers : v = w

\* a worker in the middle of a message that has a client
Busy == Places \ {"idle", "welcome", "kia", "observation"}

\* the status is the one the worker left it in before it gave up the mutex
Expected ==
  \A w \in Workers :
    /\ pc[w] = "parse" => status = Exploring
    /\ pc[w] \in {"model", "modelled"} => status = Modelling
    /\ pc[w] \in {"predict", "predicted", "rpredict", "rpredicted"} =>
         status = {"BUILDING_PREDICTION"}
    /\ pc[w] \in {"doe", "planned", "rdoe", "rplanned"} => status = {"BUILDING_DOE"}
    /\ pc[w] \in Busy => clients # {}

\* the inductive invariant of a server with one worker
SerialInv == StatusInv /\ Expected /\ LastByeResets

\* The places of a worker that is not between two messages.
LEMMA BusyFacts ==
  Busy = {"parse", "model", "predict", "doe", "rpredict", "rdoe",
          "modelled", "predicted", "planned", "rpredicted", "rplanned"}
BY PlacesFacts DEF Busy

\* The only worker returns to Worker::task.
LEMMA ExpectedDone ==
  ASSUME OneWorker, TypeOK, NEW w \in Workers, Done(w)
  PROVE  Expected'
<1>1. \A v \in Workers : pc'[v] = "idle" BY DEF OneWorker, Done, TypeOK
<1> QED BY <1>1, BusyFacts DEF Expected

\* The only worker goes on, with the status that belongs to the place.
LEMMA ExpectedGoes ==
  ASSUME OneWorker, TypeOK, NEW w \in Workers, NEW place, Goes(w, place),
         clients' # {},
         \/ place = "parse" /\ status' = Exploring
         \/ place = "model" /\ status' = Modelling
         \/ place \in {"predict", "rpredict"} /\ status' = {"BUILDING_PREDICTION"}
         \/ place \in {"doe", "rdoe"} /\ status' = {"BUILDING_DOE"}
  PROVE  Expected'
<1>1. \A v \in Workers : pc'[v] = place BY DEF OneWorker, Goes, TypeOK
<1> QED BY <1>1 DEF Expected

\* The end of process_observation.
LEMMA ExploreOnSerial ==
  ASSUME OneWorker, TypeOK, NEW w \in Workers, clients' # {}, ExploreOn(w)
  PROVE  Expected'
BY ExpectedDone, ExpectedGoes DEF ExploreOn

\* The rest of start_recovering.
LEMMA RecoverDoeSerial ==
  ASSUME OneWorker, TypeOK, NEW w \in Workers, clients' # {}, NEW d, RecoverDoe(w, d)
  PROVE  Expected'
BY ExpectedDone, ExpectedGoes DEF RecoverDoe

\* A step of the only worker.
LEMMA WorkerStepSerial ==
  ASSUME OneWorker, SerialInv, NEW w \in Workers, WorkerStep(w)
  PROVE  Expected' /\ LastByeResets'
<1>0. TypeOK /\ Expected /\ LastByeResets BY DEF SerialInv, StatusInv
<1>1. CASE Take(w)
  <2>1. inbox \in Seq(Message) /\ inbox # <<>> BY <1>0, <1>1 DEF Take, TypeOK
  <2>2. Head(inbox) \in Message BY <2>1
  <2>3. Head(inbox).type \in {"welcome", "kia", "observation"} BY <2>2 DEF Message
  <2>4. \A v \in Workers : pc'[v] \in {"welcome", "kia", "observation"}
    BY <1>0, <1>1, <2>3 DEF OneWorker, Take, TypeOK
  <2>5. Expected' BY <2>4, BusyFacts DEF Expected
  <2>6. LastByeResets' BY <1>0, <1>1 DEF Take, LastByeResets, handler
  <2> QED BY <2>5, <2>6
<1>2. CASE WelcomeKnown(w) \/ WelcomeMalformed(w)
  <2>1. job[w] \in clients' /\ Done(w) BY <1>2 DEF WelcomeKnown, WelcomeMalformed
  <2>2. clients' # {} BY <2>1
  <2> QED BY <1>0, <2>1, <2>2, ExpectedDone DEF LastByeResets
<1>3. CASE WelcomeFirst(w)
  <2>1. clients' # {} BY <1>3 DEF WelcomeFirst
  <2>2. CASE Done(w) BY <1>0, <2>1, <2>2, ExpectedDone DEF LastByeResets
  <2>3. CASE status' = {"BUILDING_PREDICTION"} /\ Goes(w, "rpredict")
    BY <1>0, <2>1, <2>3, ExpectedGoes DEF LastByeResets
  <2>4. CASE RecoverDoe(w, store.doe)
    BY <1>0, <2>1, <2>4, RecoverDoeSerial DEF LastByeResets
  <2> QED BY <1>3, <2>2, <2>3, <2>4 DEF WelcomeFirst
<1>4. CASE RecoverPrediction(w)
  <2>1. clients' # {} BY <1>0, <1>4, BusyFacts DEF RecoverPrediction, Expected
  <2>2. CASE Done(w) BY <1>0, <2>1, <2>2, ExpectedDone DEF LastByeResets
  <2>3. CASE RecoverDoe(w, doe) BY <1>0, <2>1, <2>3, RecoverDoeSerial DEF LastByeResets
  <2> QED BY <1>4, <2>2, <2>3 DEF RecoverPrediction
<1>5. CASE RecoverPlan(w) \/ Planned(w)
  <2>1. clients' # {} BY <1>0, <1>5, BusyFacts DEF RecoverPlan, Planned, Expected
  <2> QED BY <1>0, <1>5, <2>1, ExpectedDone DEF RecoverPlan, Planned, LastByeResets
<1>6. CASE Bye(w)
  <2>1. Expected' BY <1>0, <1>6, ExpectedDone DEF Bye
  <2>2. ASSUME clients' = {} PROVE status' = {"CLUELESS"} /\ doe' = 0
    BY <1>6, <2>2 DEF Bye
  <2>3. ASSUME clients' = {} PROVE ~prediction'
    BY <1>6, <2>3, Zenon DEF Bye
  <2> QED BY <2>1, <2>2, <2>3 DEF LastByeResets
<1>7. CASE ObservationArrives(w)
  <2>1. LastByeResets' BY <1>0, <1>7 DEF ObservationArrives, LastByeResets, handler
  <2>2. CASE Done(w) BY <1>0, <2>1, <2>2, ExpectedDone
  <2>3. CASE "EXPLORING" \in status /\ Goes(w, "parse") /\ UNCHANGED <<status, clients>>
    <3>1. clients # {} BY <1>0, <2>3 DEF LastByeResets
    <3>2. status' = Exploring
      <4>1. StatusSound BY DEF SerialInv, StatusInv
      <4> QED BY <2>3, <4>1 DEF StatusSound, Modelling, Exploring
    <3> QED BY <1>0, <2>1, <2>3, <3>1, <3>2, ExpectedGoes
  <2> QED BY <1>7, <2>2, <2>3 DEF ObservationArrives, handler
<1>8. CASE ObservationMalformed(w)
  BY <1>0, <1>8, ExpectedDone DEF ObservationMalformed, LastByeResets, handler
<1>9. CASE ObservationStored(w)
  <2>1. clients' # {} BY <1>0, <1>9, BusyFacts DEF ObservationStored, Expected
  <2>2. CASE Done(w) BY <1>0, <2>1, <2>2, ExpectedDone DEF LastByeResets
  <2>3. CASE status' = Modelling /\ Goes(w, "model")
    BY <1>0, <2>1, <2>3, ExpectedGoes DEF LastByeResets
  <2> QED BY <1>9, <2>2, <2>3 DEF ObservationStored
<1>10. CASE Modelled(w) \/ Predicted(w)
  <2>1. clients' # {} BY <1>0, <1>10, BusyFacts DEF Modelled, Predicted, Expected
  <2>2. CASE Done(w) BY <1>0, <2>1, <2>2, ExpectedDone DEF LastByeResets
  <2>3. CASE status' = {"BUILDING_PREDICTION"} /\ Goes(w, "predict")
    BY <1>0, <2>1, <2>3, ExpectedGoes DEF LastByeResets
  <2>4. CASE ExploreOn(w) BY <1>0, <2>1, <2>4, ExploreOnSerial DEF LastByeResets
  <2> QED BY <1>10, <2>2, <2>3, <2>4 DEF Modelled, Predicted
<1> QED BY <1>1, <1>2, <1>3, <1>4, <1>5, <1>6, <1>7, <1>8, <1>9, <1>10 DEF WorkerStep

\* Clients, plugins and crashes leave the worker where it was, or end it.
LEMMA OutsideSerial ==
  ASSUME OneWorker, SerialInv, Next, ~\E w \in Workers : WorkerStep(w)
  PROVE  Expected' /\ LastByeResets'
<1>0. TypeOK /\ Expected /\ LastByeResets BY DEF SerialInv, StatusInv
<1>1. ASSUME UNCHANGED <<handler, pc>> PROVE Expected' /\ LastByeResets'
  <2>1. UNCHANGED <<status, clients, doe, prediction, pc>> BY <1>1 DEF handler
  <2> QED BY <1>0, <2>1 DEF Expected, LastByeResets
<1>2. ASSUME NEW c \in Clients, Connect(c) \/ Leave(c) \/ Observe(c) \/ Rewelcome(c)
      PROVE  Expected' /\ LastByeResets'
  BY <1>1, <1>2 DEF Connect, Leave, Observe, Rewelcome
<1>3. ASSUME NEW w \in Workers, PluginEnds(w) PROVE Expected' /\ LastByeResets'
  <2>1. /\ pc[w] \in WaitPlaces /\ pc' = [pc EXCEPT ![w] = Waited[pc[w]]]
        /\ UNCHANGED <<status, clients, doe, prediction>>
    BY <1>3, WaitingFacts DEF PluginEnds, handler
  <2>2. Expected'
    BY <1>0, <2>1, WaitingFacts, BusyFacts DEF Expected, TypeOK, WaitPlaces
  <2> QED BY <1>0, <2>1, <2>2 DEF LastByeResets
<1>4. ASSUME NEW k \in Plugins, OrphanEnds(k) PROVE Expected' /\ LastByeResets'
  BY <1>1, <1>4 DEF OrphanEnds
<1>5. CASE Crash
  <2>1. \A w \in Workers : pc'[w] = "idle" BY <1>5 DEF Crash
  <2>2. Expected' BY <2>1, BusyFacts DEF Expected
  <2>3. status' = {"CLUELESS"} /\ doe' = 0 BY <1>5 DEF Crash
  <2>4. ~prediction' BY <1>5, Zenon DEF Crash
  <2> QED BY <2>2, <2>3, <2>4 DEF LastByeResets
<1>6. CASE Restart
  BY <1>1, <1>6 DEF Restart
<1> QED BY <1>2, <1>3, <1>4, <1>5, <1>6 DEF Next

\* The server starts with its worker idle and a handler that knows nothing.
LEMMA SerialInit == Init => SerialInv
<1> SUFFICES ASSUME Init PROVE SerialInv OBVIOUS
<1>1. \A w \in Workers : pc[w] = "idle" BY DEF Init
<1>2. Expected BY <1>1, BusyFacts DEF Expected
<1>3. ~prediction BY Zenon DEF Init
<1>4. LastByeResets BY <1>3 DEF Init, LastByeResets
<1> QED BY <1>2, <1>4, StatusInit DEF SerialInv

\* SerialInv is inductive.
LEMMA SerialStep ==
  ASSUME OneWorker, SerialInv, [Next]_vars
  PROVE  SerialInv'
<1>0. StatusInv' BY StatusStep DEF SerialInv
<1>1. CASE \E w \in Workers : WorkerStep(w)
  BY <1>0, <1>1, WorkerStepSerial DEF SerialInv
<1>2. CASE Next /\ ~\E w \in Workers : WorkerStep(w)
  BY <1>0, <1>2, OutsideSerial DEF SerialInv
<1>3. CASE UNCHANGED vars
  <2>1. UNCHANGED <<status, clients, doe, prediction, pc>> BY <1>3 DEF vars, handler
  <2> QED BY <1>0, <2>1 DEF SerialInv, Expected, LastByeResets
<1> QED BY <1>1, <1>2, <1>3

\* With one worker the handler has forgotten everything once the last active client
\* has said bye, even when observations of that client are still in the inbox.
THEOREM LastByeResetsSerially ==
  ASSUME OneWorker
  PROVE  Spec => []LastByeResets
<1>1. Init => SerialInv BY SerialInit
<1>2. SerialInv /\ [Next]_vars => SerialInv' BY SerialStep
<1>3. SerialInv => LastByeResets BY DEF SerialInv
<1> QED BY <1>1, <1>2, <1>3, PTL DEF Spec

\* A step of the only worker does not take the application knowledge away.
LEMMA KnowledgeStep ==
  ASSUME OneWorker, SerialInv, Next,
         status = {"WITH_PREDICTION"}, up', clients' # {}
  PROVE  status' = status
<1>0. Expected BY DEF SerialInv
<1>1. ASSUME NEW w \in Workers, WorkerStep(w) PROVE status' = status
  <2>1. CASE Take(w) BY <2>1 DEF Take, handler
  <2>2. CASE WelcomeKnown(w) \/ WelcomeMalformed(w)
    BY <2>2 DEF WelcomeKnown, WelcomeMalformed
  <2>3. CASE WelcomeFirst(w) BY <2>3 DEF WelcomeFirst
  <2>4. CASE RecoverPrediction(w) BY <1>0, <2>4 DEF RecoverPrediction, Expected
  <2>5. CASE RecoverPlan(w) BY <1>0, <2>5 DEF RecoverPlan, Expected
  <2>6. CASE Bye(w) BY <2>6 DEF Bye
  <2>7. CASE ObservationArrives(w) \/ ObservationMalformed(w)
    BY <2>7 DEF ObservationArrives, ObservationMalformed, handler
  <2>8. CASE ObservationStored(w)
    BY <1>0, <2>8 DEF ObservationStored, Expected, Exploring
  <2>9. CASE Modelled(w) BY <1>0, <2>9 DEF Modelled, Expected, Modelling
  <2>10. CASE Predicted(w) BY <1>0, <2>10 DEF Predicted, Expected
  <2>11. CASE Planned(w) BY <1>0, <2>11 DEF Planned, Expected
  <2> QED BY <1>1, <2>1, <2>2, <2>3, <2>4, <2>5, <2>6, <2>7, <2>8, <2>9, <2>10, <2>11
          DEF WorkerStep
<1>2. ASSUME NEW c \in Clients, Connect(c) \/ Leave(c) \/ Observe(c) \/ Rewelcome(c)
      PROVE  status' = status
  BY <1>2 DEF Connect, Leave, Observe, Rewelcome, handler
<1>3. ASSUME NEW w \in Workers, PluginEnds(w) PROVE status' = status
  BY <1>3 DEF PluginEnds, handler
<1>4. ASSUME NEW k \in Plugins, OrphanEnds(k) PROVE status' = status
  BY <1>4 DEF OrphanEnds, handler
<1>5. ~Crash BY Zenon DEF Crash
<1>6. CASE Restart BY <1>6 DEF Restart, handler
<1> QED BY <1>1, <1>2, <1>3, <1>4, <1>5, <1>6 DEF Next

\* With one worker the application knowledge stays until the last client leaves or
\* the process ends.
THEOREM KnowledgeIsKeptSerially ==
  ASSUME OneWorker
  PROVE  Spec => KnowledgeIsKept
<1>1. Init => SerialInv BY SerialInit
<1>2. SerialInv /\ [Next]_vars => SerialInv' BY SerialStep
<1>3. SerialInv /\ [Next]_vars =>
        [status = {"WITH_PREDICTION"} /\ up' /\ clients' # {} => status' = status]_vars
  BY KnowledgeStep
<1> QED BY <1>1, <1>2, <1>3, PTL DEF Spec, KnowledgeIsKept

----------------------------------------------------------------------------
(* Who is connected.                                                       *)

\* The i-th message of q is a welcome or a goodbye of c, and the last one.
Word(q, i, c) == q[i].client = c /\ q[i].type # "observation"
LastWord(q, i, c) == Word(q, i, c) /\ \A j \in 1 .. Len(q) : j > i => ~Word(q, j, c)

\* There is none in q.
Silent(q, c) == \A i \in 1 .. Len(q) : ~Word(q, i, c)

\* The last one says what b says.
Agrees(q, c, b) ==
  \A i \in 1 .. Len(q) : LastWord(q, i, c) => (q[i].type = "welcome" <=> b = TRUE)

\* A worker has one in its hands, and what it is.
InHand(w, c) == job[w] = c /\ pc[w] \in {"welcome", "kia"}

\* The last word of a client, wherever it is, says whether it is connected; once it
\* was heard, so do the active clients.  Nothing of this is there in a server that
\* is down, and a client asked to introduce itself again is connected.
LastWordInInbox == \A c \in Clients : Agrees(inbox, c, conn[c])
LastWordInHand ==
  \A w \in Workers, c \in Clients :
    InHand(w, c) /\ Silent(inbox, c) => (pc[w] = "welcome" <=> conn[c] = TRUE)
LastWordHeard ==
  \A c \in Clients :
    up = TRUE /\ c \notin asked /\ Silent(inbox, c) /\ (\A w \in Workers : ~InHand(w, c))
      => (c \in clients <=> conn[c] = TRUE)
DownKnowsNothing ==
  up = FALSE => /\ inbox = <<>> /\ asked = {} /\ clients = {}
                /\ \A w \in Workers : pc[w] = "idle"
AskedAreConnected == \A c \in asked : conn[c] = TRUE

\* the inductive invariant of the membership
MembersInv ==
  LastWordInInbox /\ LastWordInHand /\ LastWordHeard /\ DownKnowsNothing /\ AskedAreConnected

\* What m does to q for c: if it is a word of c it is the last one, otherwise nothing
\* changes for c.
IsWord(m, c) == m.client = c /\ m.type # "observation"
Speaks(q, q2, m, c) ==
  /\ IsWord(m, c) => ~Silent(q2, c)
  /\ IsWord(m, c) => \A i \in 1 .. Len(q2) : LastWord(q2, i, c) => q2[i] = m
  /\ ~IsWord(m, c) => (Silent(q2, c) => Silent(q, c))
  /\ ~IsWord(m, c) => \A b : Agrees(q, c, b) => Agrees(q2, c, b)

\* A message is sent.
LEMMA WordsAppended ==
  ASSUME NEW q \in Seq(Message), NEW m \in Message, NEW q2, q2 = Append(q, m), NEW c
  PROVE  Speaks(q, q2, m, c)
<1> DEFINE n == Len(q)
           word == IsWord(m, c)
<1>1. /\ n \in Nat /\ Len(q2) = n + 1 /\ q2[n + 1] = m
      /\ \A i \in 1 .. n : q2[i] = q[i]
  <2>1. Len(q) \in Nat BY LenProperties
  <2> QED BY <2>1, AppendProperties
<1> HIDE DEF n
<1>2. n = Len(q) BY DEF n
<1>3. n + 1 \in 1 .. n + 1 /\ \A i \in 1 .. n : i \in 1 .. n + 1 BY <1>1
<1>4. \A i \in 1 .. n + 1 : i = n + 1 \/ i \in 1 .. n BY <1>1
<1>5. Word(q2, n + 1, c) <=> word BY <1>1 DEF Word, IsWord
<1>6. \A i \in 1 .. n : Word(q2, i, c) <=> Word(q, i, c) BY <1>1 DEF Word
<1> HIDE DEF word
<1>7. word => ~Silent(q2, c) BY <1>1, <1>3, <1>5 DEF Silent
<1>8. ASSUME word, NEW i \in 1 .. Len(q2), LastWord(q2, i, c) PROVE q2[i] = m
  <2>1. i \in 1 .. n => n + 1 > i BY <1>1
  <2>2. i \notin 1 .. n BY <1>1, <1>3, <1>5, <1>8, <2>1 DEF LastWord
  <2> QED BY <1>1, <1>4, <2>2
<1>9. ASSUME Silent(q2, c) PROVE Silent(q, c)
  BY <1>1, <1>2, <1>3, <1>6, <1>9 DEF Silent
<1>10. ASSUME ~word, NEW b, Agrees(q, c, b) PROVE Agrees(q2, c, b)
  <2> SUFFICES ASSUME NEW i \in 1 .. n + 1, LastWord(q2, i, c)
               PROVE  q2[i].type = "welcome" <=> b = TRUE
    BY <1>1 DEF Agrees
  <2>1. i \in 1 .. n BY <1>4, <1>5, <1>10 DEF LastWord
  <2>2. Word(q, i, c) BY <1>6, <2>1 DEF LastWord
  <2>3. \A j \in 1 .. n : j > i => ~Word(q, j, c) BY <1>1, <1>3, <1>6 DEF LastWord
  <2>4. LastWord(q, i, c) BY <1>2, <2>2, <2>3 DEF LastWord
  <2>5. q[i].type = "welcome" <=> b = TRUE BY <1>2, <1>10, <2>1, <2>4 DEF Agrees
  <2>6. q2[i] = q[i] BY <1>1, <2>1
  <2> QED BY <2>5, <2>6
<1> QED BY <1>7, <1>8, <1>9, <1>10 DEF word, Speaks

\* The first message is taken: the last word of c is still there, or it is in hand.
LEMMA WordsTaken ==
  ASSUME NEW q \in Seq(Message), q # <<>>, NEW q2, q2 = Tail(q), NEW c
  PROVE  /\ \A b : Agrees(q, c, b) => Agrees(q2, c, b)
         /\ Silent(q2, c) /\ ~Word(q, 1, c) => Silent(q, c)
         /\ Silent(q2, c) /\ Word(q, 1, c) => LastWord(q, 1, c)
         /\ 1 \in 1 .. Len(q) /\ Head(q) = q[1] /\ q[1] \in Message
<1> DEFINE n == Len(q2)
<1>1. n \in Nat /\ Len(q) = n + 1 /\ \A i \in 1 .. n : q2[i] = q[i + 1]
  <2>1. q2 \in Seq(Message) /\ Len(q2) = Len(q) - 1 /\ \A i \in 1 .. Len(q2) : q2[i] = q[i + 1]
    BY HeadTailProperties
  <2>2. Len(q) \in Nat /\ Len(q2) \in Nat BY <2>1, LenProperties
  <2> QED BY <2>1, <2>2
<1> HIDE DEF n
<1>2. n = Len(q2) BY DEF n
<1>3. \A i \in 1 .. n : Word(q2, i, c) <=> Word(q, i + 1, c) BY <1>1 DEF Word
<1>4. \A j \in 1 .. n + 1 : j = 1 \/ (j - 1 \in 1 .. n /\ (j - 1) + 1 = j) BY <1>1
<1>5. \A i \in 1 .. n : i + 1 \in 1 .. n + 1 BY <1>1
<1>6. ASSUME NEW b, Agrees(q, c, b) PROVE Agrees(q2, c, b)
  <2> SUFFICES ASSUME NEW i \in 1 .. n, LastWord(q2, i, c)
               PROVE  q2[i].type = "welcome" <=> b = TRUE
    BY <1>2 DEF Agrees
  <2>1. Word(q, i + 1, c) BY <1>3 DEF LastWord
  <2>2. ASSUME NEW j \in 1 .. n + 1, j > i + 1 PROVE ~Word(q, j, c)
    <3>1. j - 1 \in 1 .. n /\ (j - 1) + 1 = j /\ j - 1 > i BY <1>1, <2>2
    <3>2. ~Word(q2, j - 1, c) BY <1>2, <3>1 DEF LastWord
    <3>3. Word(q2, j - 1, c) <=> Word(q, (j - 1) + 1, c) BY <1>3, <3>1
    <3> QED BY <3>1, <3>2, <3>3
  <2>3. LastWord(q, i + 1, c) BY <1>1, <2>1, <2>2 DEF LastWord
  <2>4. q[i + 1].type = "welcome" <=> b = TRUE BY <1>1, <1>5, <1>6, <2>3 DEF Agrees
  <2>5. q2[i] = q[i + 1] BY <1>1
  <2> QED BY <2>4, <2>5
<1>7. ASSUME Silent(q2, c), NEW j \in 1 .. n + 1, j # 1 PROVE ~Word(q, j, c)
  <2>1. j - 1 \in 1 .. n /\ (j - 1) + 1 = j BY <1>4, <1>7
  <2>2. ~Word(q2, j - 1, c) BY <1>2, <1>7, <2>1 DEF Silent
  <2>3. Word(q2, j - 1, c) <=> Word(q, (j - 1) + 1, c) BY <1>3, <2>1
  <2> QED BY <2>1, <2>2, <2>3
<1>8. ASSUME Silent(q2, c), ~Word(q, 1, c) PROVE Silent(q, c)
  BY <1>1, <1>7, <1>8 DEF Silent
<1>9. ASSUME Silent(q2, c), Word(q, 1, c) PROVE LastWord(q, 1, c)
  <2>1. \A j \in 1 .. n + 1 : j > 1 => j # 1 BY <1>1
  <2> QED BY <1>1, <1>7, <1>9, <2>1 DEF LastWord
<1>10. 1 \in 1 .. Len(q) BY <1>1
<1>11. Head(q) = q[1] /\ q[1] \in Message BY <1>10, ElementOfSeq
<1> QED BY <1>6, <1>8, <1>9, <1>10, <1>11

\* Nobody has a word in an empty inbox.
LEMMA NothingIsSilent ==
  ASSUME NEW c PROVE Silent(<<>>, c) /\ \A b : Agrees(<<>>, c, b)
BY EmptySeq DEF Silent, Agrees

\* A client says welcome or goodbye to a server that runs.
LEMMA WordSent ==
  ASSUME TypeOK, MembersInv, up = TRUE, NEW d \in Clients, NEW m \in Message,
         m.client = d, m.type # "observation", inbox' = Append(inbox, m),
         UNCHANGED <<up, pc, job, clients>>, asked' \subseteq asked, asked \ asked' \subseteq {d},
         \A c \in Clients : c # d => conn'[c] = conn[c],
         m.type = "welcome" <=> conn'[d] = TRUE, d \notin asked'
  PROVE  MembersInv'
<1>0. LastWordInInbox /\ LastWordInHand /\ LastWordHeard /\ DownKnowsNothing /\ AskedAreConnected
  BY DEF MembersInv
<1>1. inbox \in Seq(Message) BY DEF TypeOK
<1> DEFINE q2 == inbox'
<1>2. \A c : Speaks(inbox, q2, m, c) BY <1>1, WordsAppended
<1>3. /\ ~Silent(q2, d)
      /\ \A i \in 1 .. Len(q2) : LastWord(q2, i, d) => q2[i] = m
  <2>1. IsWord(m, d) BY DEF IsWord
  <2> QED BY <1>2, <2>1, Zenon DEF Speaks
<1>4. ASSUME NEW c \in Clients, c # d
      PROVE  /\ Silent(q2, c) => Silent(inbox, c)
             /\ \A b : Agrees(inbox, c, b) => Agrees(q2, c, b)
  <2>1. ~IsWord(m, c) BY <1>4 DEF IsWord
  <2> QED BY <1>2, <2>1, Zenon DEF Speaks
<1> HIDE DEF q2
<1>5. q2 = inbox' BY DEF q2
<1>6. \A w \in Workers, c \in Clients : InHand(w, c)' <=> InHand(w, c) BY DEF InHand
<1>7. ASSUME NEW c \in Clients PROVE Agrees(q2, c, conn'[c])
  <2>1. CASE c = d BY <1>3, <2>1 DEF Agrees
  <2>2. CASE c # d
    <3>1. Agrees(inbox, c, conn[c]) BY <1>0 DEF LastWordInInbox
    <3> QED BY <1>4, <2>2, <3>1
  <2> QED BY <2>1, <2>2
<1>8. ASSUME NEW w \in Workers, NEW c \in Clients, InHand(w, c)', Silent(q2, c)
      PROVE  pc'[w] = "welcome" <=> conn'[c] = TRUE
  <2>1. c # d /\ Silent(inbox, c) /\ InHand(w, c) BY <1>3, <1>4, <1>6, <1>8
  <2>2. pc[w] = "welcome" <=> conn[c] = TRUE BY <1>0, <2>1 DEF LastWordInHand
  <2> QED BY <2>1, <2>2
<1>9. ASSUME NEW c \in Clients, c \notin asked', Silent(q2, c), \A w \in Workers : ~InHand(w, c)'
      PROVE  c \in clients' <=> conn'[c] = TRUE
  <2>1. c # d /\ Silent(inbox, c) BY <1>3, <1>4, <1>9
  <2>2. c \notin asked /\ \A w \in Workers : ~InHand(w, c) BY <1>6, <1>9, <2>1
  <2>3. c \in clients <=> conn[c] = TRUE BY <1>0, <2>1, <2>2 DEF LastWordHeard
  <2> QED BY <2>1, <2>3
<1>10. LastWordInInbox' BY <1>5, <1>7 DEF LastWordInInbox
<1>11. LastWordInHand' BY <1>5, <1>8 DEF LastWordInHand
<1>12. LastWordHeard' BY <1>5, <1>9 DEF LastWordHeard
<1>13. DownKnowsNothing' BY DEF DownKnowsNothing
<1>14. AskedAreConnected'
  <2> SUFFICES ASSUME NEW c \in asked' PROVE conn'[c] = TRUE BY DEF AskedAreConnected
  <2>1. c \in asked /\ c # d /\ c \in Clients BY DEF TypeOK
  <2>2. conn[c] = TRUE BY <1>0, <2>1 DEF AskedAreConnected
  <2> QED BY <2>1, <2>2
<1> QED BY <1>10, <1>11, <1>12, <1>13, <1>14 DEF MembersInv

\* The one worker is done with a message, or goes on with it.
LEMMA WordHandled ==
  ASSUME OneWorker, TypeOK, MembersInv, NEW w \in Workers, pc[w] # "idle",
         UNCHANGED <<up, inbox, conn, asked>>, pc'[w] \notin {"welcome", "kia"},
         pc[w] = "welcome" => clients' = clients \cup {job[w]},
         pc[w] = "kia" => clients' = clients \ {job[w]},
         pc[w] \notin {"welcome", "kia"} => clients' = clients
  PROVE  MembersInv'
<1>0. LastWordInInbox /\ LastWordInHand /\ LastWordHeard /\ DownKnowsNothing /\ AskedAreConnected
  BY DEF MembersInv
<1>1. up = TRUE BY <1>0 DEF DownKnowsNothing, TypeOK
<1>2. \A v \in Workers : v = w BY DEF OneWorker
<1>3. \A v \in Workers, c \in Clients : ~InHand(v, c)' BY <1>2 DEF InHand
<1>4. ASSUME NEW c \in Clients, c \notin asked, Silent(inbox, c)
      PROVE  c \in clients' <=> conn[c] = TRUE
  <2>1. CASE InHand(w, c)
    <3>1. pc[w] = "welcome" <=> conn[c] = TRUE BY <1>0, <1>4, <2>1 DEF LastWordInHand
    <3> QED BY <2>1, <3>1 DEF InHand
  <2>2. CASE ~InHand(w, c)
    <3>1. \A v \in Workers : ~InHand(v, c) BY <1>2, <2>2
    <3>2. c \in clients <=> conn[c] = TRUE BY <1>0, <1>1, <1>4, <3>1 DEF LastWordHeard
    <3>3. c \in clients' <=> c \in clients BY <2>2 DEF InHand
    <3> QED BY <3>2, <3>3
  <2> QED BY <2>1, <2>2
<1>5. LastWordInInbox' BY <1>0 DEF LastWordInInbox
<1>6. LastWordInHand' BY <1>3 DEF LastWordInHand
<1>7. LastWordHeard' BY <1>4 DEF LastWordHeard
<1>8. DownKnowsNothing' BY <1>1 DEF DownKnowsNothing
<1>9. AskedAreConnected' BY <1>0 DEF AskedAreConnected
<1> QED BY <1>5, <1>6, <1>7, <1>8, <1>9 DEF MembersInv

\* The one worker takes a message.
LEMMA WordTaken ==
  ASSUME OneWorker, TypeOK, MembersInv, NEW w \in Workers, Take(w)
  PROVE  MembersInv'
<1>0. LastWordInInbox /\ LastWordInHand /\ LastWordHeard /\ DownKnowsNothing /\ AskedAreConnected
  BY DEF MembersInv
<1>1. /\ inbox \in Seq(Message) /\ inbox # <<>> /\ inbox' = Tail(inbox) /\ pc[w] = "idle"
      /\ pc'[w] = Head(inbox).type /\ job'[w] = Head(inbox).client
      /\ UNCHANGED <<up, conn, asked, clients>>
  BY DEF Take, TypeOK, handler, outside
<1>2. \A v \in Workers : v = w BY DEF OneWorker
<1> DEFINE q2 == inbox'
<1>3. ASSUME NEW c \in Clients
      PROVE  /\ \A b : Agrees(inbox, c, b) => Agrees(q2, c, b)
             /\ Silent(q2, c) /\ ~Word(inbox, 1, c) => Silent(inbox, c)
             /\ Silent(q2, c) /\ Word(inbox, 1, c) => LastWord(inbox, 1, c)
             /\ 1 \in 1 .. Len(inbox) /\ Head(inbox) = inbox[1] /\ inbox[1] \in Message
  BY <1>1, WordsTaken
<1> HIDE DEF q2
<1>4. q2 = inbox' BY DEF q2
<1>5. up = TRUE BY <1>0, <1>1 DEF DownKnowsNothing, TypeOK
<1>6. ASSUME NEW c \in Clients
      PROVE  /\ ~InHand(w, c)
             /\ InHand(w, c)' <=> Word(inbox, 1, c)
             /\ pc'[w] = inbox[1].type
  <2>1. Head(inbox) = inbox[1] /\ inbox[1].type \in {"welcome", "kia", "observation"}
    BY <1>3 DEF Message
  <2> QED BY <1>1, <2>1 DEF InHand, Word
<1>7. ASSUME NEW c \in Clients PROVE Agrees(q2, c, conn[c])
  <2>1. Agrees(inbox, c, conn[c]) BY <1>0 DEF LastWordInInbox
  <2> QED BY <1>3, <2>1
<1>8. ASSUME NEW c \in Clients, InHand(w, c)', Silent(q2, c)
      PROVE  pc'[w] = "welcome" <=> conn[c] = TRUE
  <2>1. LastWord(inbox, 1, c) /\ 1 \in 1 .. Len(inbox) BY <1>3, <1>6, <1>8
  <2>2. Agrees(inbox, c, conn[c]) BY <1>0 DEF LastWordInInbox
  <2>3. inbox[1].type = "welcome" <=> conn[c] = TRUE BY <2>1, <2>2 DEF Agrees
  <2> QED BY <1>6, <2>3
<1>9. ASSUME NEW c \in Clients, c \notin asked, Silent(q2, c), ~InHand(w, c)'
      PROVE  c \in clients <=> conn[c] = TRUE
  <2>1. Silent(inbox, c) BY <1>3, <1>6, <1>9
  <2>2. \A v \in Workers : ~InHand(v, c) BY <1>2, <1>6
  <2> QED BY <1>0, <1>5, <1>9, <2>1, <2>2 DEF LastWordHeard
<1>10. LastWordInInbox' BY <1>1, <1>4, <1>7 DEF LastWordInInbox
<1>11. LastWordInHand' BY <1>1, <1>2, <1>4, <1>8 DEF LastWordInHand
<1>12. LastWordHeard' BY <1>1, <1>4, <1>9 DEF LastWordHeard
<1>13. DownKnowsNothing' BY <1>1, <1>5 DEF DownKnowsNothing
<1>14. AskedAreConnected' BY <1>0, <1>1 DEF AskedAreConnected
<1> QED BY <1>10, <1>11, <1>12, <1>13, <1>14 DEF MembersInv

\* Every step of the one worker.
LEMMA WorkerStepMembers ==
  ASSUME OneWorker, TypeOK, MembersInv, NEW w \in Workers, WorkerStep(w)
  PROVE  MembersInv'
<1>1. CASE Take(w) BY <1>1, WordTaken
<1>2. ASSUME Done(w) PROVE pc'[w] = "idle" BY <1>2 DEF Done, TypeOK
<1>3. ASSUME NEW p, Goes(w, p) PROVE pc'[w] = p BY <1>3 DEF Goes, TypeOK
<1>4. ASSUME UNCHANGED server PROVE UNCHANGED <<up, inbox, conn, asked>>
  BY <1>4 DEF server, outside
<1>5. CASE WelcomeKnown(w) \/ WelcomeMalformed(w)
  <2>1. /\ pc[w] = "welcome" /\ clients' = clients \cup {job[w]} /\ Done(w) /\ UNCHANGED server
    BY <1>5 DEF WelcomeKnown, WelcomeMalformed
  <2> QED BY <1>2, <1>4, <2>1, WordHandled
<1>6. CASE WelcomeFirst(w)
  <2>1. pc[w] = "welcome" /\ clients' = clients \cup {job[w]} /\ UNCHANGED server
    BY <1>6 DEF WelcomeFirst
  <2>2. Done(w) \/ Goes(w, "rpredict") \/ Goes(w, "rdoe") BY <1>6 DEF WelcomeFirst, RecoverDoe
  <2>3. pc'[w] \in {"idle", "rpredict", "rdoe"} BY <1>2, <1>3, <2>2
  <2> QED BY <1>4, <2>1, <2>3, WordHandled
<1>7. CASE Bye(w)
  <2>1. pc[w] = "kia" /\ clients' = clients \ {job[w]} /\ Done(w) /\ UNCHANGED server
    BY <1>7 DEF Bye
  <2> QED BY <1>2, <1>4, <2>1, WordHandled
<1>8. CASE \/ RecoverPrediction(w) \/ RecoverPlan(w) \/ Modelled(w) \/ Predicted(w) \/ Planned(w)
           \/ ObservationArrives(w) \/ ObservationMalformed(w) \/ ObservationStored(w)
  <2>1. /\ pc[w] \in {"rpredicted", "rplanned", "modelled", "predicted", "planned",
                      "observation", "parse"}
        /\ UNCHANGED server /\ clients' = clients
    BY <1>8 DEF RecoverPrediction, RecoverPlan, Modelled, Predicted, Planned, ObservationArrives,
                ObservationMalformed, ObservationStored, handler
  <2>2. \/ Done(w) \/ Goes(w, "rdoe") \/ Goes(w, "doe") \/ Goes(w, "parse") \/ Goes(w, "model")
        \/ Goes(w, "predict")
    BY <1>8 DEF RecoverPrediction, RecoverDoe, RecoverPlan, Modelled, Predicted, Planned, ExploreOn,
                ObservationArrives, ObservationMalformed, ObservationStored
  <2>3. pc'[w] \in {"idle", "rdoe", "doe", "parse", "model", "predict"} BY <1>2, <1>3, <2>2
  <2> QED BY <1>4, <2>1, <2>3, WordHandled
<1> QED BY <1>1, <1>5, <1>6, <1>7, <1>8 DEF WorkerStep

\* A client sends a message, or does not reach a server that is down.
LEMMA ClientMembers ==
  ASSUME TypeOK, MembersInv, NEW d \in Clients,
         Connect(d) \/ Leave(d) \/ Observe(d) \/ Rewelcome(d)
  PROVE  MembersInv'
<1>0. LastWordInInbox /\ LastWordInHand /\ LastWordHeard /\ DownKnowsNothing /\ AskedAreConnected
  BY DEF MembersInv
<1>1. inbox \in Seq(Message) /\ conn \in [Clients -> BOOLEAN] /\ asked \subseteq Clients
  BY DEF TypeOK
<1>2. UNCHANGED <<up, pc, job, clients>> /\ asked' \subseteq asked /\ asked \ asked' \subseteq {d}
  BY DEF Connect, Leave, Observe, Rewelcome, handler, outside
<1>3. \A c \in Clients : c # d => conn'[c] = conn[c]
  BY <1>1 DEF Connect, Leave, Observe, Rewelcome, outside
<1>4. CASE up = FALSE
  <2>1. /\ inbox = <<>> /\ asked = {} /\ clients = {}
        /\ \A w \in Workers : pc[w] = "idle"
    BY <1>0, <1>4 DEF DownKnowsNothing
  <2>2. ASSUME NEW type, Sends(type, d) PROVE inbox' = inbox BY <1>4, <2>2 DEF Sends
  <2>3. inbox' = <<>> BY <2>1, <2>2 DEF Connect, Leave, Observe, Rewelcome
  <2>4. asked' = {} BY <1>2, <2>1
  <2>5. LastWordInInbox' BY <2>3, NothingIsSilent DEF LastWordInInbox
  <2>6. LastWordInHand' BY <1>2, <2>1 DEF LastWordInHand, InHand
  <2>7. LastWordHeard' BY <1>2, <1>4 DEF LastWordHeard
  <2>8. DownKnowsNothing' BY <1>2, <2>1, <2>3, <2>4 DEF DownKnowsNothing
  <2>9. AskedAreConnected' BY <2>4 DEF AskedAreConnected
  <2> QED BY <2>5, <2>6, <2>7, <2>8, <2>9 DEF MembersInv
<1>5. CASE up = TRUE
  <2>1. ASSUME NEW type, Sends(type, d) PROVE inbox' = Append(inbox, [type |-> type, client |-> d])
    BY <1>5, <2>1 DEF Sends
  <2>2. CASE Connect(d)
    <3> DEFINE m == [type |-> "welcome", client |-> d]
    <3>1. m \in Message /\ m.client = d /\ m.type = "welcome" BY DEF Message
    <3>2. inbox' = Append(inbox, m) BY <2>1, <2>2 DEF Connect
    <3>3. conn[d] = FALSE BY <1>1, <2>2, Zenon DEF Connect
    <3>4. conn'[d] = TRUE /\ asked' = asked BY <1>1, <2>2 DEF Connect
    <3>5. d \notin asked' BY <1>0, <3>3, <3>4 DEF AskedAreConnected
    <3> HIDE DEF m
    <3> QED BY <1>2, <1>3, <1>5, <3>1, <3>2, <3>4, <3>5, WordSent
  <2>3. CASE Leave(d)
    <3> DEFINE m == [type |-> "kia", client |-> d]
    <3>1. m \in Message /\ m.client = d /\ m.type = "kia" BY DEF Message
    <3>2. inbox' = Append(inbox, m) BY <2>1, <2>3 DEF Leave
    <3>3. conn'[d] = FALSE /\ d \notin asked' BY <1>1, <2>3 DEF Leave
    <3> HIDE DEF m
    <3> QED BY <1>2, <1>3, <1>5, <3>1, <3>2, <3>3, WordSent
  <2>4. CASE Rewelcome(d)
    <3> DEFINE m == [type |-> "welcome", client |-> d]
    <3>1. m \in Message /\ m.client = d /\ m.type = "welcome" BY DEF Message
    <3>2. inbox' = Append(inbox, m) BY <2>1, <2>4 DEF Rewelcome
    <3>3. d \notin asked' /\ conn' = conn /\ d \in asked BY <2>4 DEF Rewelcome
    <3>4. conn'[d] = TRUE BY <1>0, <3>3 DEF AskedAreConnected
    <3> HIDE DEF m
    <3> QED BY <1>2, <1>3, <1>5, <3>1, <3>2, <3>3, <3>4, WordSent
  <2>5. CASE Observe(d)
    <3> DEFINE m == [type |-> "observation", client |-> d]
    <3>1. m \in Message /\ m.type = "observation" BY DEF Message
    <3>2. inbox' = Append(inbox, m) BY <2>1, <2>5 DEF Observe
    <3>3. UNCHANGED <<conn, asked>> BY <2>5 DEF Observe, outside
    <3> HIDE DEF m
    <3> DEFINE q2 == inbox'
    <3>4. ASSUME NEW c \in Clients
          PROVE  /\ Silent(q2, c) => Silent(inbox, c)
                 /\ \A b : Agrees(inbox, c, b) => Agrees(q2, c, b)
      <4>1. Speaks(inbox, q2, m, c) BY <1>1, <3>1, <3>2, WordsAppended
      <4>2. ~IsWord(m, c) BY <3>1 DEF IsWord
      <4> QED BY <4>1, <4>2, Zenon DEF Speaks
    <3> HIDE DEF q2
    <3>5. q2 = inbox' BY DEF q2
    <3>6. \A w \in Workers, c \in Clients : InHand(w, c)' <=> InHand(w, c) BY <1>2 DEF InHand
    <3>7. LastWordInInbox' BY <1>0, <3>3, <3>4, <3>5 DEF LastWordInInbox
    <3>8. LastWordInHand' BY <1>0, <1>2, <3>3, <3>4, <3>5, <3>6 DEF LastWordInHand
    <3>9. LastWordHeard' BY <1>0, <1>2, <3>3, <3>4, <3>5, <3>6 DEF LastWordHeard
    <3>10. DownKnowsNothing' BY <1>2, <1>5 DEF DownKnowsNothing
    <3>11. AskedAreConnected' BY <1>0, <3>3 DEF AskedAreConnected
    <3> QED BY <3>7, <3>8, <3>9, <3>10, <3>11 DEF MembersInv
  <2> QED BY <2>2, <2>3, <2>4, <2>5
<1> QED BY <1>4, <1>5 DEF TypeOK

\* Plugins, crashes and restarts.
LEMMA ServerMembers ==
  ASSUME OneWorker, TypeOK, MembersInv,
         \/ \E w \in Workers : PluginEnds(w)
         \/ \E k \in Plugins : OrphanEnds(k)
         \/ Crash \/ Restart \/ UNCHANGED vars
  PROVE  MembersInv'
<1>0. LastWordInInbox /\ LastWordInHand /\ LastWordHeard /\ DownKnowsNothing /\ AskedAreConnected
  BY DEF MembersInv
<1>1. ASSUME NEW w \in Workers, PluginEnds(w) PROVE MembersInv'
  <2>1. /\ pc[w] \in WaitPlaces /\ pc'[w] = Waited[pc[w]]
        /\ UNCHANGED <<up, inbox, conn, asked, clients>>
    BY <1>1, WaitingFacts DEF PluginEnds, TypeOK, handler
  <2>2. pc[w] \notin {"idle", "welcome", "kia"} BY <2>1 DEF WaitPlaces
  <2>3. pc'[w] \notin {"welcome", "kia"} BY <2>1, WaitingFacts DEF WaitPlaces
  <2> QED BY <2>1, <2>2, <2>3, WordHandled
<1>2. ASSUME UNCHANGED <<up, inbox, conn, asked, clients, pc, job>> PROVE MembersInv'
  <2>1. \A w \in Workers, c \in Clients : InHand(w, c)' <=> InHand(w, c) BY <1>2 DEF InHand
  <2>2. LastWordInInbox' BY <1>0, <1>2 DEF LastWordInInbox
  <2>3. LastWordInHand' BY <1>0, <1>2, <2>1 DEF LastWordInHand
  <2>4. LastWordHeard' BY <1>0, <1>2, <2>1 DEF LastWordHeard
  <2>5. DownKnowsNothing' BY <1>0, <1>2 DEF DownKnowsNothing
  <2>6. AskedAreConnected' BY <1>0, <1>2 DEF AskedAreConnected
  <2> QED BY <2>2, <2>3, <2>4, <2>5, <2>6 DEF MembersInv
<1>3. ASSUME NEW k \in Plugins, OrphanEnds(k) PROVE MembersInv'
  BY <1>2, <1>3 DEF OrphanEnds, handler
<1>4. CASE UNCHANGED vars BY <1>2, <1>4 DEF vars, handler, outside
<1>5. CASE Crash
  <2>1. /\ up' = FALSE /\ inbox' = <<>> /\ clients' = {} /\ asked' = {}
        /\ \A w \in Workers : pc'[w] = "idle"
    BY <1>5 DEF Crash
  <2>2. LastWordInInbox' BY <2>1, NothingIsSilent DEF LastWordInInbox
  <2>3. LastWordInHand' BY <2>1 DEF LastWordInHand, InHand
  <2>4. LastWordHeard' BY <2>1 DEF LastWordHeard
  <2>5. DownKnowsNothing' BY <2>1 DEF DownKnowsNothing
  <2>6. AskedAreConnected' BY <2>1 DEF AskedAreConnected
  <2> QED BY <2>2, <2>3, <2>4, <2>5, <2>6 DEF MembersInv
<1>6. CASE Restart
  <2>1. up = FALSE BY <1>6, Zenon DEF Restart, TypeOK
  <2>2. inbox = <<>> /\ clients = {} /\ \A w \in Workers : pc[w] = "idle"
    BY <1>0, <2>1 DEF DownKnowsNothing
  <2>3. up' = TRUE /\ UNCHANGED <<inbox, conn, clients, pc, job>> BY <1>6 DEF Restart, handler
  <2>4. asked' = {c \in Clients : conn[c]} BY <1>6 DEF Restart
  <2>5. \A c \in Clients : conn[c] = TRUE \/ conn[c] = FALSE BY DEF TypeOK
  <2>6. \A c \in Clients : c \notin asked' => conn[c] = FALSE BY <2>4, <2>5
  <2>7. \A c \in asked' : conn[c] = TRUE BY <2>4, <2>5, Zenon
  <2>8. LastWordInInbox' BY <2>2, <2>3, NothingIsSilent DEF LastWordInInbox
  <2>9. LastWordInHand' BY <2>2, <2>3 DEF LastWordInHand, InHand
  <2>10. LastWordHeard' BY <2>2, <2>3, <2>6 DEF LastWordHeard
  <2>11. DownKnowsNothing' BY <2>3 DEF DownKnowsNothing
  <2>12. AskedAreConnected' BY <2>3, <2>7 DEF AskedAreConnected
  <2> QED BY <2>8, <2>9, <2>10, <2>11, <2>12 DEF MembersInv
<1> QED BY <1>1, <1>3, <1>4, <1>5, <1>6

\* With one worker the active clients are those that are connected, once every
\* message was handled: goodbyes, welcomes and the welcomes after a restart reach the
\* handler in the order they were sent.
THEOREM MembersAreConnectedSerially ==
  ASSUME OneWorker
  PROVE  Spec => []MembersAreConnected
<1>1. Init => MembersInv
  <2> SUFFICES ASSUME Init PROVE MembersInv OBVIOUS
  <2>1. /\ up = TRUE /\ inbox = <<>> /\ clients = {} /\ asked = {}
        /\ \A w \in Workers : pc[w] = "idle"
        /\ \A c \in Clients : conn[c] = FALSE
    BY DEF Init
  <2>2. LastWordInInbox BY <2>1, NothingIsSilent DEF LastWordInInbox
  <2>3. LastWordInHand BY <2>1 DEF LastWordInHand, InHand
  <2>4. LastWordHeard BY <2>1 DEF LastWordHeard
  <2>5. DownKnowsNothing BY <2>1 DEF DownKnowsNothing
  <2>6. AskedAreConnected BY <2>1 DEF AskedAreConnected
  <2> QED BY <2>2, <2>3, <2>4, <2>5, <2>6 DEF MembersInv
<1>2. TypeOK /\ MembersInv /\ [Next]_vars => MembersInv'
  BY WorkerStepMembers, ClientMembers, ServerMembers DEF Next
<1>3. TypeOK /\ MembersInv => MembersAreConnected
  <2> SUFFICES ASSUME TypeOK, MembersInv, Quiet
               PROVE  clients = {c \in Clients : conn[c]}
    BY DEF MembersAreConnected
  <2>1. up = TRUE BY Zenon DEF Quiet, TypeOK
  <2>2. inbox = <<>> /\ asked = {} /\ \A w \in Workers : pc[w] = "idle" BY DEF Quiet
  <2>3. \A c \in Clients : Silent(inbox, c) /\ \A w \in Workers : ~InHand(w, c)
    BY <2>2, NothingIsSilent DEF InHand
  <2>4. \A c \in Clients : c \in clients <=> conn[c] = TRUE
    BY <2>1, <2>2, <2>3 DEF MembersInv, LastWordHeard
  <2>5. clients \subseteq Clients /\ \A c \in Clients : conn[c] \in BOOLEAN BY DEF TypeOK
  <2>6. \A c \in Clients : (conn[c] = TRUE) <=> conn[c] BY <2>5, Zenon
  <2> QED BY <2>4, <2>5, <2>6, Zenon
<1>4. Spec => []TypeOK BY HandlerTypes
<1> QED BY <1>1, <1>2, <1>3, <1>4, PTL DEF Spec
=============================================================================
