------------------------------- MODULE Asrtm -------------------------------
(***************************************************************************)
(* Class Asrtm, the Application-Specific RunTime Manager, as operators on  *)
(* the record of its members: each method is one critical section of       *)
(* manager_mutex, so a method is a function from a manager to a manager.   *)
(*                                                                         *)
(* An Operating Point is a configuration and the moment it was allocated,  *)
(* because the class compares pointers.  The optimisation problem of a     *)
(* state is the set of the clauses (constraints, rank) it was given; which *)
(* point solves it is the business of MargotState.                         *)
(***************************************************************************)
EXTENDS Integers, Sequences

CONSTANTS
  Null,      \* no Operating Point: an empty shared pointer
  NoState    \* current_optimizer = application_optimizers.end()

\* enum class ApplicationStatus
ApplicationStatus == {"UNDEFINED", "TUNED", "DESIGN_SPACE_EXPLORATION", "WITH_PREDICTION"}
DSE == "DESIGN_SPACE_EXPLORATION"

\* The constructor, and the members it initialises.  adaptors names the field
\* adaptors the manager points to (0: none) and stands for the monitor handlers,
\* which are added, copied and removed with them.
NewManager ==
  [knowledge |-> {}, optimizers |-> <<>>, current |-> NoState, adaptors |-> 0,
   application |-> Null, proposed |-> Null, status |-> "UNDEFINED"]

\* Knowledge::add does not replace a configuration that is already known, and
\* Knowledge::remove goes by the configuration.
KnowledgeAdd(knowledge, ops) ==
  knowledge \cup {op \in ops : \A known \in knowledge : known.conf # op.conf}
KnowledgeRemove(knowledge, confs) == {op \in knowledge : op.conf \notin confs}

\* add_operating_points and remove_operating_points.
AddOperatingPoints(m, ops)      == [m EXCEPT !.knowledge = KnowledgeAdd(@, ops)]
RemoveOperatingPoints(m, confs) == [m EXCEPT !.knowledge = KnowledgeRemove(@, confs)]

\* is_application_knowledge_empty
KnowledgeEmpty(m) == m.knowledge = {}

\* in_design_space_exploration
InDesignSpaceExploration(m) == m.status \in {DSE, "WITH_PREDICTION"}

\* create_new_state does nothing for a state that exists.
CreateNewState(m, s) ==
  IF s \in DOMAIN m.optimizers THEN m
  ELSE [m EXCEPT !.optimizers = [t \in DOMAIN @ \cup {s} |-> IF t = s THEN {} ELSE @[t]]]

\* Mutant: the assertion of remove_state is compiled out with the test it makes.
RemoveStateUnguarded(m, s) == FALSE

\* remove_state aborts when the state that it finds is the active one.
RemoveStateFails(m, s) == m.current = IF s \in DOMAIN m.optimizers THEN s ELSE NoState
RemoveState(m, s) ==
  [m EXCEPT !.optimizers = [t \in DOMAIN @ \ {s} |-> @[t]]]

\* change_active_state to a state that exists.
ChangeActiveState(m, s) == [m EXCEPT !.current = s]

\* add_runtime_knowledge and remove_all_runtime_knowledge.
SetAdaptors(m, a) == [m EXCEPT !.adaptors = a]

\* add_constraint, set_rank and remove_constraint on the active state.
AddClause(m, c)    == [m EXCEPT !.optimizers[m.current] = @ \cup {c}]
RemoveClause(m, c) == [m EXCEPT !.optimizers[m.current] = @ \ {c}]

\* find_best_configuration first judges the running configuration, and then asks
\* the active state.  With runtime information the judgement dereferences
\* application_configuration as soon as the monitors have a valid observation.
FindDereferences(m, valid) == m.status = "TUNED" /\ m.adaptors # 0 /\ valid
FindBestConfiguration(m) ==
  LET answers == IF KnowledgeEmpty(m) THEN {Null} ELSE m.knowledge
  IN  IF m.current = NoState THEN {m} ELSE {[m EXCEPT !.proposed = op] : op \in answers}

\* Mutant: no change is reported during the exploration.
ChangedOutsideDse(m) == m.proposed # m.application /\ m.status # DSE

\* get_best_configuration: the application is told of a change, and is out of
\* sync until it confirms.
ConfigurationChanged(m) == m.proposed # m.application
GetBestConfiguration(m) ==
  [m EXCEPT !.status = IF ConfigurationChanged(m) /\ @ # DSE THEN "UNDEFINED" ELSE @]

\* Mutant: the first configuration after a switch does not clear the monitors.
ClearsUnlessFirst(m) ==
  /\ m.application # Null /\ m.application # m.proposed
  /\ m.status # DSE /\ m.adaptors # 0

\* configuration_applied, and whether it clears the monitors.
ClearsMonitors(m) == m.application # m.proposed /\ m.status # DSE /\ m.adaptors # 0
ConfigurationApplied(m) ==
  [m EXCEPT !.application = m.proposed, !.status = IF @ # DSE THEN "TUNED" ELSE DSE]

\* create_sibling of a constraint and of a rank: the same goal, which is shared, or
\* the same objective, and no Operating Points.
ConstraintSibling(clause) == clause

\* State::create_sibling clones the rank and every constraint.
StateSibling(clauses) == {ConstraintSibling(c) : c \in clauses}

\* Mutant: a state without constraints and rank is not cloned unless it is active.
SiblingOfUsed(m) ==
  {[NewManager EXCEPT !.optimizers = [t \in {s \in DOMAIN m.optimizers :
                                             s = m.current \/ m.optimizers[s] # {}} |-> m.optimizers[t]],
                      !.current = m.current, !.adaptors = m.adaptors]}

\* create_sibling compares each key with the key it just inserted, so the last
\* state of the iteration is left active; the order of an unordered_map is open.
\* The clone has no knowledge, is out of sync and points to the same adaptors.
CreateSibling(m) ==
  {[NewManager EXCEPT !.optimizers = [t \in DOMAIN m.optimizers |-> StateSibling(m.optimizers[t])],
                      !.current = s, !.adaptors = m.adaptors] :
     s \in IF DOMAIN m.optimizers = {} THEN {NoState} ELSE DOMAIN m.optimizers}

\* Mutant: the status survives the switch.
RestoreConfigurationOnly(m) == [m EXCEPT !.application = Null]

\* restore_from_data_feature_switch
RestoreFromDataFeatureSwitch(m) ==
  [m EXCEPT !.status = IF @ # DSE THEN "UNDEFINED" ELSE DSE, !.application = Null]

\* The data-aware manager starts the support thread for its clusters.
SetAutotunerInDse(m) == [m EXCEPT !.status = DSE]

\* start_support_thread of a manager that has a thread of its own.
StartSupportThread(m) == [m EXCEPT !.status = DSE]

\* set_single_point and set_model replace the knowledge and drop the proposal;
\* the running configuration is kept.  set_model also resets the adaptors, which is
\* ClearObservations of Monitors.
SetSinglePoint(m, op) ==
  [m EXCEPT !.knowledge = {op}, !.status = DSE, !.proposed = Null]
SetModel(m, ops) ==
  [m EXCEPT !.knowledge = ops, !.status = "WITH_PREDICTION", !.proposed = Null]

=============================================================================
