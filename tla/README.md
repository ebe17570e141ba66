# mARGOt and Agora in TLA+

mARGOt is an autotuner linked into an application: it keeps the application's
*Operating Points* (software-knob configurations with the metrics they give) and, each
time the application asks, returns the one that is best for the current constraints and
objective. Agora is a server that learns those Operating Points online: it sends
configurations to the clients that run the application, collects what they observe, runs
plugins that model the metrics and broadcasts the resulting application knowledge. Heel
generates the glue code from a configuration file.

This directory holds TLA+ models of the parts with the program's own logic, TLC
configurations that check them on small instances, and theorems that TLAPS proves for
every instance. Definitions keep the names of the code; `PROJECT.json` maps each of them
to the lines it models. Run with `tlc -config X.cfg MCModule` and `tlapm Module.tla`.

## Inventory

| Component (source) | State it keeps | Operations | What makes it correct |
|---|---|---|---|
| `State` with `Constraint`, `View`, `Rank`, `Goal`, `Knowledge` (`margot/include/margot`) | stack of constraints, `blocked_ops` and view of each, rank, `problem_is_changed`, memo | add/remove constraint, set rank, add/remove Operating Points, replace knowledge, `get_best_operating_point` | the answer is the optimum; with none feasible, the least important constraints are relaxed first |
| adaptors (`knowledge_adaptor.hpp`, `field_adaptor.hpp`) | window of error coefficients per field, average | evaluate, reset | the coefficient is the average of the window |
| `Asrtm` (`asrtm.hpp`) | states, active state, status, proposed and applied configuration, support thread | forwards to `State`; find/apply configuration; `set_single_point`, `set_model` from the support thread | what is applied is what was proposed; server messages do not disturb the application thread |
| `DataAwareAsrtm` (`da_asrtm.hpp`) | managers by feature cluster, active one | add/remove/select cluster, everything `Asrtm` has | the active manager is the closest cluster's |
| monitors, `CircularBuffer`, `StatisticalProvider` | bounded buffer, versioned statistics | push, clear, average/min/max | statistics are those of the buffer's content |
| `RemoteApplicationHandler` (`agora/src/application_handler.cpp`) | status flags, clients, DOE, cluster, prediction, counters, mutex | `welcome_client`, `bye_client`, `process_observation`, `start_recovering` | the status never lies; members are the connected clients; knowledge, once there, stays |
| `Worker`, `ThreadPool`, `Queue` (`worker.cpp`, `threadpool.hpp`, `safe_queue.hpp`) | job queue, condition variables, `finished` flags | enqueue, dequeue, task, stop, wait, shutdown | no lost wake-up; a shutdown ends every thread and the process |
| `PahoClient`/`RemoteHandler` | connection, inbox | callbacks, publish, last will | every message delivered reaches the inbox |
| `ApplicationManager` | one handler per application | get/remove handler | one handler per identifier |
| `Launcher` | pid of a plugin | launch, wait | a failing plugin is noticed |
| storage (`fs_*`, `csv_fs_*`) | files | load/store | what is loaded is what was stored |
| heel (`heel/src`) | models of a configuration file | parse, validate, compose, generate | generated priorities and code are those of the file |
| plugins (`agora/plugins`) | files of their workspace | doe, model, model_plus, cluster, predict | a plugin fails only for a reason it can name; what it leaves is complete |
| logger, vendored csv parser and bit masks | - | - | outside of this development |

How they interact: the application thread calls `Asrtm`, which holds `manager_mutex` and
forwards to the active `State`. The support thread of `Asrtm` talks to Agora through the
broker: `welcome`, `observation` and `kia` to the server; `explore`, `prediction`,
`abort` and the server's own `welcome` back. On the server the broker's callback enqueues
into the inbox, workers dequeue and call the handler of the application under
`app_mutex`; the handler forks plugins and waits for them, with or without the mutex;
plugins read and write the storage. A `shutdown` is passed from worker to worker through
the broker.

The hard behaviours are the long call sequences that reach an inconsistent filtering
structure or a stale memo (`State`), the windows in which `process_observation` has given
up the mutex, messages handled out of order by several workers, plugins that fail or
outlive the server and leave half-written files, the support thread that replaces the
knowledge between two calls of the application, clusters that change under monitors they
share, and the condition variables of the pool. `PROJECT.json` lists them
one by one under `hazards`.

## Modules

### MargotState

One `State` object and what it drives. `knowledge` is the `Knowledge`, `constraints` maps
a priority to its goal, field, `last_check_value` (`check`) and whether it has an adaptor,
`view` and `blocked` are the two containers of each constraint, `rankOps` counts copies in
the rank's multimap (it *is* a multimap: the code may insert twice), `changed` and `best`
are the memo. Each method is one action; the two loops of `get_best_operating_point` (the
update loop and the narrowing of the relaxation) are one iteration per step, so that the
invariants are checked between iterations. A stream sent through a loop of `filter_add`
or `filter_remove` is written as what it computes (`FilterAdd`, `Passes`, `Releases`). The
rank may return any of several equal Operating Points: which one depends on insertion
order. All methods run under `Asrtm::manager_mutex`, so calls do not overlap.

`Value`, `RankValue`, `Cmp` and the templates are constants: what the evaluators compute
from an Operating Point never changes. Numbers are integers on a grid of `1/Unit`, which
makes the scaled goal exact; the truncation of integral value types is a listed hazard
that this module does not cover.

`Spec` adds constraints only at *safe* priorities: unused, with at most one constraint
below. `SpecAnyOrder` and `SpecOverwrite` drop one restriction each; they are the
specifications of two findings.

### AgoraHandler

One application on the server. `pc[w]` is where worker `w` is inside a handler method,
`owner` the worker that keeps `app_mutex` across a wait (only recovery does), `status` the
set of `InternalStatus` flags. Each stretch of a method between two unlocks is one action:
`process_observation` is `ObservationArrives`, then `ObservationMalformed` or
`ObservationStored`, then `Modelled`, `Predicted` and `Planned` after the plugins it waits
for. `welcome_client` is `WelcomeKnown`, `WelcomeMalformed` or `WelcomeFirst`, followed by
`RecoverPrediction` and `RecoverPlan` when recovery had to wait. The flags `RECOVERING`
and `WITH_INFORMATION` are set and overwritten within one action and never seen. The DOE
is the number of explorations left (`get_next` gives one until it is empty). Plugins
(`PluginEnds`) leave any outcome in the storage; `Crash` loses the memory but neither
the storage nor the running plugins (`OrphanEnds`); `Restart` publishes the welcome that
clients answer (`Rewelcome`). Clients connect, leave (goodbye or last will) and observe.
Applications share nothing but the worker pool, so one handler is enough.

### WorkerPool

`Queue` with the threads asleep on its condition variable, `Worker::task`, `stop`, `wait`
and the destructor, the shutdown that a worker publishes before it stops (`wire` counts
what the broker holds), and the main thread from `start_workers` to the last join:
`wait_workers` in `main`, `wait_workers` again in `~ThreadPool` (the stages with a 2) and
`~Worker` of each. Spurious wake-ups are actions without fairness. The termination signal
of the queue is left out because it is raised only by the destructor of the remote
handler, when no worker exists any more; `stop_workers` is never called.

### OperatingPoint

Pure operators: fields with and without a deviation, segments, equality (means only), the
bounds a constraint looks at and the three evaluators. `MCMargotState` computes the values
of its instance with them.

### Asrtm, DataFeatures, DataAware

The application process. `Asrtm` has one operator per method of the class, a function
from the record of its members to a record: each method is one critical section of
`manager_mutex`. An Operating Point is a configuration and the moment it was allocated,
because the class compares pointers; the problem of a state is the set of clauses it was
given, and `FindBestConfiguration` may propose any known point: which one is the subject
of `MargotState`. `DataFeatures` is the admissibility and distance of clusters. Where the
code divides by a width of zero the result is not a number for floating point features, and
the end of the process for integral ones (`SelectionFails`), whose normalised coordinates
are 0 or 1: whether a block has integral features is part of the kind of its distance,
`"INTEGRAL"` beside `"EUCLIDEAN"` and `"NORMALIZED"`. `DataAware` composes
them: `managers` are the clusters (exactly one in a block without features), `pc` the next
call of the generated loop (`update`, the monitored block, `push_monitor`, `log`), and
between any two calls the support thread may apply an `explore` or a `prediction`. Between
two rounds the application may call everything else the class offers. `fault` records a
failed assertion or a null pointer that would be dereferenced. `observed` is the set of
configurations that the observations in the monitors come from; a monitor with any
observation counts as valid, which is more than the adaptors accept. Ghosts
(`raced`, `strayed`, `late`, `interrupted`) record the known causes, so that the
properties say what happens in every other case.

### Monitors, ObservationWindow

A monitor: the circular buffer, the statistics cached with the time of their computation,
the adaptor with its window of coefficients, and start and stop of the concrete
monitors that differ in what is left behind when a reading throws (`Failing`). A measure is
what the monitor makes of its readings: a difference (time, collector, energy, whose counter
wraps at `EnergyRange`), a reading (odroid power), the data over the time (throughput) or
the time at work over the time that passed (both processor monitors), with both terms kept
because either may be zero: without assertions the throughput monitor divides by zero, as
the process monitor always does, while the system monitor throws. `used` is the time the
processor worked; `lost` is the time that `readTime` of the system monitor adds to a pointer
instead of a counter. Statistics are fractions, and so are goals; a goal is checked on the
statistic that was served last, and its errors convert it to the whole number the
observations have as type. The clock may stand still between two calls. A page of memory has
`PageSize` kilobytes; the polling thread of the odroid monitor loads and stores without a
lock.
`ObservationWindow` is the abstract specification, the last `Size` observations since the
monitor was cleared; `ImplementsWindow` is the refinement, with the buffer read from its
oldest element as the mapping.

### LearningLoop

What `AgoraHandler` abstracts: one worker and one client, but the design as the deque of
`get_next`, the tables on disk, the workspaces of the launchers and the plugins as
processes that open (and truncate) a file in one step and close it in another. Server,
plugins and client may die or leave at any step (`Crash`, `Kill`, `Bye`, `Shutdown`), a
restarted server recovers from what is on disk while plugins of the former one still run.
Whether a model is good and which centroids come out is a choice. A plugin raises, and
`Launcher::wait` ends the server, for a `reason`: parameters or tables that are not there,
encoders or models half copied, too few observations (two for `model`, four for
`model_plus`, which tests with a quarter of them, as many as clusters for k-means), numbers
that Box-Cox does not take or no estimator that passes the test (`model_plus`), and no
clusters (DBSCAN, or an algorithm it does not know; without scaling the latter makes an
empty table instead). `Shutdown` erases storage and workspaces under the plugins of an
earlier server that still run. Those that have their input in memory go on and write their
table (`Outlives`); those that have still to read theirs are taken to fail at once. A handler
is taken to have launchers also when it is clueless; with none, the workspaces would stay.

### Remote

`PahoClient` in an application: the application thread (construction, observations,
the delta that follows them, `disconnect`, destruction), the support thread (subscriptions, welcome, inbox), the
callbacks of the library and the broker, which keeps the last will. No lock spans the
check of `is_connected` and the use of the library, so they are separate steps.

### Heel

Parsing (types and their aliases, ranges, comparison functions, ranks), validation
(default names, uniqueness among neighbours, references between sections, types of the
segments), the files of Operating Points, the generated calls and the description composed
for Agora, which Agora parses with the same parser. `Executed` runs the generated calls on
clusters chosen by `ClosestOf`; `Compiles` says which outputs a compiler accepts.
A range is generated in the type of the knob (`Nth`): 8-bit types are read as one
character, 16-bit types wrap, and a loop that never leaves the range (`Endless`, a step of
zero or a wrap) keeps heel in the stage `endless`. `RangesAssumption` excludes negative
numbers for wider unsigned types and ranges that end near the end of a wider type.
Names are numbers in the order of the strings. `Projects` may be any set of descriptions
and files of Operating Points, the sections as long as one likes; `ProjectsAssumption` says
what the XML and JSON readers guarantee (the shape of the elements, and that every Operating
Point has the features of the block, which `parse_op_field` enforces), `ValueAssumption`
that the text of a feature stands for an integer.

### Proof modules

`MargotStateProofs`, `AgoraHandlerProofs`, `WorkerPoolProofs`, `LearningLoopProofs`,
`RemoteProofs`, `HeelProofs`, `DataAwareProofs` (with `Asrtm` and `DataFeatures`) and
`MonitorsProofs` (with `ObservationWindow`) are about the module of their name. What a
loop of the code computes (`Distance`, `NormalizedDistance`, `ClosestOf`, `SumOf`,
`AverageError`, `Calls`, `StateCalls`, `Executed`) is a recursive function, so that the
proofs can unfold it.

The `MC` modules give constants their values. `MCMargotLibrary`, `MCAgoraTooling` (the
learning, the threads of the server, the channel and heel) and `MCAgoraServer` (a server with
one worker and one with two) also put specifications that share nothing side by side: a
behaviour is one of one of the parts (`part` never changes), so that their state spaces add
up instead of multiplying; the fairness conditions are those of the parts.

## Runs

| Run | Instance | Distinct states | Result |
|---|---|---|---|
| `optimiser` | 3 Operating Points, 3 priorities, 2 goals with a strict and a non-strict comparison, 2 fields, one of them monitored (coefficients 1/2 and 1), 2 ranks (min, max, with ties), batches of 1 and 3 | 224 768 | passes |
| `optimiser_any_order` | the same, constraints in any order | - | violates `ReturnsOptimum` |
| `optimiser_overwrite` | the same, priorities may be reused | - | violates `ReturnsOptimum` |
| `optimiser_memo` | as `optimiser` | - | violates `AsIfSolvedAfresh` |
| `agora` | 2 clients, one malformed, 1 worker, features on, 1 crash (324 945 states); beside it 1 client, 2 workers, inbox of 3, fairness (81 621) | 406 566 | passes |
| `agora_last_bye` | 2 clients, 2 workers | - | violates `LastByeResets` |
| `agora_answer` | 2 clients, 1 worker, fairness | - | violates `EveryClientIsAnswered` |
| `pool_exit` | 2 workers, inbox of 1, fairness | - | violates `ServerExits` |
| `library` | plain managers and managers with Euclidean, normalised and integral distance, with and without Agora, 2 configurations, 2 states, 1 clause, 2 messages or calls; each kind of monitor with a window of 2 and a clock of 4, 5 goals of which 2 are fractions | 278 469 | passes |
| `library_sibling` | as `library` | - | violates `ProblemsAgree` |
| `tooling` | 3 configurations (2 allowed), setups of the learning that differ in features, plugins, design and clustering, 1 fault; 3 threads and an inbox of 2, and a shutdown in it; a client with 3 topics and an inbox of 2; most initial states are inputs of the generator | 192 357 | passes |
| `tooling_names` | as `tooling` | - | violates `NamesAreDistinct` |

**optimiser.** `Consistent` is the representation: a point of the knowledge is blocked by
exactly the most important constraint it violates, or is in the rank exactly once.
`ReturnsOptimum` compares the answer with the problem stated directly on goals,
coefficients and knowledge. `RelaxesLeastImportantFirst` and `RelaxationIsLexicographic`
say what the answer is when nothing is feasible. Three priorities are needed for a
constraint in the middle of the stack, three Operating Points for one to be feasible, one
blocked above and one blocked below; values 2 and 4 meet the goals 1 and 2 (times the
coefficients 1 and 2) exactly, so that equality happens on both comparisons.

**agora.** `StatusSound` says that the status never promises something nobody is building,
nor a prediction that is not in memory; `BuildingEnds` that nothing is being built for ever.
`MembersAreConnected`, `LastByeResets` and `KnowledgeIsKept` are checked with one worker
because with two they do not hold: the kia of a client can be handled before its welcome,
and an observation that passed the status check is stored after the status has moved on.
`agora_last_bye` shows with two workers what the documentation contradicts: the handler
restarts without clients. `ConcurrentStatusSound` and `ConcurrentBuildingEnds` are
`StatusSound` and `BuildingEnds` with two workers; one client with three messages in the
inbox is enough for both workers to be inside `process_observation` while a kia or a welcome
waits; with a second client the liveness check exceeds a reasonable time.

**library.** `FaultsHaveACause`: no call of the loop meets a null Operating Point unless
the support thread came between find, get and applied, or the expected value is asked of
a cluster without knowledge; `remove_state` aborts only after `create_sibling` has left
another state active, and an integer is divided by zero only when two clusters agree in a
coordinate. `FedByTheRunningConfiguration`: the observations that correct the
knowledge come from the configuration it is corrected for. `ServedByTheClosest`: the
cluster that serves an input is admissible if any is and, with the Euclidean distance, the
nearest. `StatesAgree`: the clusters keep the same states, the one the application
activated among them. That they also agree on which one is active and on its constraints
is `ProblemsAgree`, which `library_sibling` refutes.
`ExploredIsRun` (liveness): a configuration Agora asks for reaches the knobs unless it is
superseded. Two messages or calls are enough for a prediction over an exploration, a
second message into the gap left by the first, or a cluster added and then used.
`ServedIsTrue`: a cached statistic is the one of the window, unless two changes share a
clock reading. `MeasureIsExact`: what is pushed has both terms of its ratio, or the
difference, of the interval the application opened; an exception spoils at most the next
measure. That the interval of the system
monitor is the whole period is `UsageIsOfThePeriod`, refuted by `LibraryUsage.cfg`.
`ErrorsAgreeWithCheck`: a goal that is achieved has an absolute error below one unit, none
if it is a whole number, and one missed by a unit or more has both errors; that a goal that
is achieved never has an error is `AchievedHasNoError`, refuted by `LibraryError.cfg`.
`CoefficientIsAverage`: the correction is the average of the window of coefficients as of
the last evaluation; that a reset takes it back at once is `ClearedIsUncorrected`, refuted
by `LibraryCleared.cfg`. `LibraryRace.cfg` shows the gap between find and get.

**tooling.** `KnowledgeIsComplete`, `PluginsFindTheirFiles`, `Balanced`,
`LearningIsBounded`, `ObservationsAreKept` and `LearningEnds` are about the learning:
what a client is given covers every allowed configuration, no plugin misses what another
process leaves for it, turns are fair, observations survive, and exploring ends, after one
iteration more than `max_number_iteration` if some metric has the plugin `model` (that it
is never more is `IterationsAreBounded`, refuted by `ToolingIterations.cfg`). Each exempts what
the code really does not protect: files read while they are written (`damaged`), encoders
another plugin is copying, data that a plugin cannot work with, an algorithm that never
makes a cluster, and random designs that come out empty, after which a recovery starts
over. One fault is enough for a crash at any step
with its recovery, and keeps the liveness check small. `EnoughAwake` is the absence of lost
wake-ups in `Queue`; `ChainUnbroken` says that exactly one shutdown is under way once one was
asked for; `ShutdownReachesAll` that all threads end. Three threads are needed for one asleep,
one between wake-up and lock and one handling a message; two messages are as many as two
threads can be awake for while the third sleeps, and a shutdown comes on top. `OnlyARaceAborts` and
`DepartureCompletes` are about leaving the broker. `ManagerIsAsDescribed` and
`AgoraFitsTheGeometry` compare what heel accepts, generates and
sends with what the user wrote, for descriptions that vary one section at a time; their
exemptions (two states of one name, distances that are not a number or divide by zero,
strings under Agora) are listed under `hazards`. That names are unique and ranges spanned,
as validation and user guide say, is refuted by `tooling_names` and `ToolingRanges.cfg`.

**Further configurations.** They are not among the runs, and each ends with a
counterexample to the one property it names, which is a statement of the documentation:

| Configuration | Module | Refutes | Finding |
|---|---|---|---|
| `AgoraLateModel.cfg` | `MCAgoraHandler` | `ModelsOnlyWhileExploring` | 4 |
| `LibraryRace.cfg` | `MCMargotLibrary` | `ProposalIsThere` | 8 |
| `LibraryError.cfg` | `MCMargotLibrary` | `AchievedHasNoError` | 9 |
| `LibraryUsage.cfg` | `MCMargotLibrary` | `UsageIsOfThePeriod` | 10 |
| `LibraryCleared.cfg` | `MCMargotLibrary` | `ClearedIsUncorrected` | 11 |
| `ToolingIterations.cfg` | `MCAgoraTooling` | `IterationsAreBounded` | 12 |
| `ToolingRanges.cfg` | `MCAgoraTooling` | `RangesAreSpanned` | 14 |

Their findings are listed with the passing run of the same instance, whose property states
what holds instead.

Bounds: `MaxInbox` and `MaxJobs` limit the messages that wait (clients do not send beyond it),
`MaxDoe` the explorations a DOE asks for, `MaxSent` where counting stops (the counter is
only compared with `PerIteration`, which is not above it), `MaxCrashes` the crashes,
`MaxOps` the messages and calls outside the loop of the application, `MaxNow` the clock
and the counters of the monitors, `MaxPolls` what the polling thread adds up, `MaxValue` what is
pushed by hand or sampled, `MaxFaults`
the deaths, departures and shutdowns of the learning loop, `Enough` the observations that
are told apart.

Fairness: worker threads and the main thread are scheduled, plugins end, the broker
delivers, a client that hears the server's welcome answers it, and a client that was given
a configuration keeps reporting. The application goes round its loop, plugins run, both
threads of a client run and the broker publishes the last will. Nothing makes a client connect or leave, an operator ask
for a shutdown, a crash or a spurious wake-up happen.

### Findings

1. `state.hpp:241`: the loop of `add_constraint` uses `lower_it` instead of `it`, so with
   two constraints below the new one its Operating Points are removed from the first only.
2. `state.hpp:220`: overwriting a constraint, which the documentation allows, loses the
   Operating Points it blocked. Heel's `cpp_state_emitter.cpp:57` never increments the
   priority it generates; a generated state with two constraints would get here, but its
   goals struct has two members of one name and does not compile.
3. `state.hpp:323`: with everything blocked, a change of rank (or a constraint that blocks
   nothing, or a goal that moves nothing) keeps the memoized relaxed answer.
4. `application_handler.cpp:160`: the status is not looked at again after the unlock. The
   last client may have left (`agora_last_bye`), or the DSE phase be over
   (`AgoraLateModel.cfg`).
5. `application_handler.cpp:106`: a client welcomed with an exhausted DOE gets nothing.
6. `worker.cpp:68`: `Worker::wait` sleeps without a predicate and may miss its wake-up.
7. `asrtm.hpp:855`: "check if it is the current state" compares a key with itself; a new
   cluster starts in the last state, whichever is active.
8. `asrtm.hpp:662`: between `find_best_configuration` and `get_best_configuration` the
   support thread may take the proposal away that the assertion asks for.
9. `goal.hpp:393` and `:333`: the errors truncate the statistic that `check` compares, so a
   goal that is achieved may have an error.
10. `system_cpu_usage_monitor.cc:36`: interrupts and waiting are added to a pointer, so the
    usage is not one of the observation period.
11. `field_adaptor.hpp:275`: `clear_observations` is not "as in the istant of creation": the
    old correction stays in force.
12. `plugins/model/main.py:126`: `>` where the property is a maximum of iterations.
13. `model_validate.cpp:188`: names are compared with their neighbours only.
14. `parser_utils.cpp:49`: 8-bit numbers of a range are read as characters.

## Theorems

All proofs are for arbitrary constants under the named assumptions of the modules
(priorities are finitely many integers with a least one; `Nobody` is not a worker or
client; and so on).

* `TypeCorrect`, `ConsistentAlways` (MargotStateProofs). The inductive invariant is
  `TypeOK /\ Consistent`. It is inductive because `Consistent` speaks of `check`, the goal
  of the last update, and not of the current goal: a goal that moves disturbs nothing
  until `UpdateWorse` or `UpdateBetter` hands the affected points over. The core of the
  proof is `UpdateWorse`/`UpdateBetter`: points outside the slice of the view keep their
  validity, and the others are caught by the first constraint below or by the rank. Safe
  priorities are what `AddConstraint` needs.
* `OptimumReturned` (MargotStateProofs). The strengthening `Memo` adds that the update
  loop leaves what it visited current, and that `best` is an optimum of the rank unless
  `changed`. `SetRank` keeps it because it drops the memo whenever the rank is not empty.
* `RelaxationIsOrdered`, `RelaxationIsOptimal` (MargotStateProofs). `RelaxMemo`: the
  candidates being narrowed, and the memo of a knowledge without a valid Operating Point,
  are among the closest of the least important constraint that blocks something. A step
  that leaves `changed` false leaves alone what is blocked and how close it is
  (`SameBlocked`), although constraints that block nothing may come, go and move; this is
  also why the memo may fall short of the lexicographic optimum (finding 3).
  `Narrowing` is the invariant of the loop of `get_best_from_stream`: no Operating Point
  beats a candidate on the constraints visited, and whoever ties with one of them on all
  of these is a candidate, too. It starts to hold because a point that ties with one
  blocked by the last blocking constraint is blocked there as well.
* `HandlerTypes`, `StatusAlwaysSound` (AgoraHandlerProofs). The strengthening `LockSound`
  ties `owner` to the worker that recovers; then each worker step either leaves the status
  alone or puts itself where the new status says somebody is.
* `LastByeResetsSerially`, `KnowledgeIsKeptSerially`,
  `MembersAreConnectedSerially` (AgoraHandlerProofs), from the assumption of a single
  worker. The strengthening `Expected` says which status belongs to each place of that
  worker. `MembersInv` follows the last word of each client, the last of its welcomes and
  goodbyes, from the inbox to the worker's hand to the members of the handler, and through
  a crash, after which the clients that are connected are asked again.
* `PoolTypeCorrect`, `NoWakeupIsLost`, `ShutdownIsNeverLost`, `ThreadsAreJoined`
  (WorkerPoolProofs). The inductive invariant is the conjunction of the four with
  `Unstarted`; the work is in how each step changes the number of messages, of threads
  awake and of shutdowns under way (cardinalities and the positions of a queue).
  `ThreadsAreJoined` is stated in the proof module only.
* `AbortsOnlyInARace`, `AgoraHearsOfTheEnd` (RemoteProofs). `RemInv` relates where the two
  threads are to the flag, the object and the link: who holds the client, what is released
  in which order, and which departures were announced.
* `ManagersAreWellFormed`, `ClustersAgree`, `FaultsAreCaused`,
  `ObservationsAreOfTheRunning`, `TheClosestServes` (DataAwareProofs). `ShapeInv` is the
  type invariant with the indices of the active cluster and state; `PointsInv` adds which
  Operating Points each status promises and what `pc` may rely on; `FedInv` where the
  observations in the monitors come from; `ServedInv` that the active cluster is the one
  the tournament ended with. That a tournament ends with a winner is an induction over
  its rounds. `ClustersAgree` is about the states only: which of them is active differs
  between clusters after `create_sibling` (finding 7), and then so do their constraints.
  `ObservationsAreOfTheRunning` showed that the property fails with the
  normalised distance, which is not transitive, when a key was added twice
  (`add_feature_cluster` appends a second manager for a key it has, where its comment says
  "if it's actually new"): the second one can be selected while the first one is made
  active. The property therefore asks for distinct keys there.
* `MeasuresAreExact`, `BufferImplementsWindow`, `StatisticsAreTrue`,
  `CoefficientsAreAveraged`, `ErrorsFollowTheCheck` (MonitorsProofs). `MeterInv` says what
  a started monitor remembers of its resource, `BufferInv` where the next observation goes
  and how many there are, `CacheInv` which of the cached statistics are those of the
  buffer, `AdaptorInv` the same for the window of coefficients. For the errors, a fraction
  and the whole number below it are less than one apart. The refinement maps the
  buffer, read from its oldest element, to the window: a push overwrites the oldest and
  appends the newest. The code adds up from the first cell, the property from the oldest
  observation, so the sums are shown to be equal by moving the wrap one cell at a time.

* `LearningTypes`, `DesignsAreBalanced`, `ClientsGetEverything`, `IterationsEnd`,
  `ObservationsStay`, `FailuresHaveAReason` (LearningLoopProofs). Each action is first
  brought into a form that says member by member what it does; the invariants are then
  shown for these forms, one upon the other.
  `LearnInv` has the types and that only the first design is made without the table of all
  configurations. `DesignInv`: a design is even, which means that the counters fall along
  the deque and by at most one, and what was given is what the counters miss.
  `WholeInv`: as long as nobody reads an open file, a table that is closed is whole and so
  is what a plugin has read of it. `IterInv` is needed because the bound on the iterations
  is enforced by the plugins and not by the handler: in the last iteration each model, the
  clusters and the predictions are there or a plugin of this server is making them, and
  plugins of an earlier server only add to them. `KeptInv`: where there are observations
  there is a design, so that a recovery does not start over. `CalmInv` holds until the
  first fault: which plugins run beside each other, that half-copied encoders and open
  models have somebody at work on them, and that the encoders of the doe plugin are gone
  only when every model has its own. `DesignsAreBalanced` found the ghost `given` stale
  when a handler loaded a design and went on to a prediction; it now restarts with every
  design that is loaded.
* `AgoraAlwaysFits`, `ManagerAlwaysAsDescribed` (HeelProofs). The tool
  goes from stage to stage, so the inductive invariant `HeelInv` only says where the results
  of a stage come from: the block is one that `validate` may make of one that `parse` may
  return, the calls and the description are generated from it, and the Operating Points have
  the features of the file. The work is in what the functions make of sections of any
  length. `ValidatedSections` collects it for everything that comes after the validation.
  For Agora: `parse` undoes `compose` on each element, no
  matter how equal names are ordered, and `type_sorter` ends with a type that holds the
  others. For the manager: with different names a state is emitted once, and code with two
  constraints in a state does not compile (`OneConstraint`); `val_to_knob` undoes
  `knob_to_val`; and the generated calls, one after the other, keep `Reached`, which ties
  the keys, the points and the active cluster to the calls so far. Its core is `LastWins`:
  a feature is strictly closer to itself than anything else, and admissible for itself, so
  `select_feature_cluster` after `add_feature_cluster` ends with the added cluster or one
  with the same key. With normalised distances this needs the other keys to differ in each
  coordinate, which is the exemption of the property: otherwise the fractions have a zero
  denominator. Integral coordinates are then 0 or 1, and the one that differs tells the
  clusters apart. The proof does not use that the Operating Points are sorted by the text of
  their features: the order decides how many clusters there are, not where a point ends.

Inductions over the length of a sequence are done with the least-number principle, from
the well-foundedness of the naturals for sets: the first length for which a claim fails
is not zero and has a predecessor for which it holds.

Only model-checked:

* the liveness properties `ConcurrentBuildingEnds`, `ShutdownReachesAll`, `ExploredIsRun`,
  `LearningEnds` and `DepartureCompletes`, which are out of the prover's reach.

Every invariant and every action property of the passing runs is the subject of a theorem
(`ConcurrentStatusSound` of `StatusAlwaysSound`, which is for any number of workers).

## Not modelled

* `DataAwareAsrtm::remove_feature_cluster`: it does not compile when instantiated and
  nothing calls it. `load_description`, `store_doe`, `unsubscribe`, `stop_workers` and
  `remove_application_handler` have no caller either.
* Truncation of the scaled goal with integral metrics (`view.hpp:266`).
* The PAPI monitor: its event set lives in the library, and the condition of its event
  insertion at `papi_monitor.cc:126` is inverted, so that the first monitor of an event
  writes through the end iterator (it is built only with `WITH_PAPI_MONITOR`). Also hash values, compile-time traits and the dumps.
* The statistics inside the plugins (regression, cross-validation, k-means, DBSCAN): their
  results are choices. An algorithm that the plugin `model` does not know makes a model that
  is never good, as any other may.
* Rows of the tables beyond the configuration and centroid they are about, JSON payloads
  beyond the knobs, and the value 9999 that Agora sends for unknown features and metrics,
  which an 8-bit segment cannot hold (`application_handler.cpp:449`).
* In heel: text and include lists, the verbose description, the parameters of monitors
  beyond their places, several blocks (they are independent), ranges at the end of 32- and
  64-bit types, where the signed ones overflow.
* Logging, option parsing, the test client of the server, the vendored csv parser and bit
  masks. The vendored parser alone is more than a fifth of the repository's lines.

## Plan

The components with logic of their own are modelled, and their safety properties are
proved. What is left:

1. The hazard at `view.hpp:266`: a view over an integral type, with the truncation of the
   scaled goal.
2. The proofs share the least-number principle and facts about sums and sequences; these
   could move into a module of lemmas.
