------------------------------ MODULE Monitors ------------------------------
(***************************************************************************)
(* A monitor of the application: the circular buffer of its observations,  *)
(* the statistics that are computed from it and cached, the adaptor that   *)
(* turns its average into a correction of the knowledge, and the start and *)
(* stop of the monitors that measure an interval, whose readings may throw.*)
(*                                                                         *)
(* A resource (time, energy, the jiffies of the processor) is a counter    *)
(* the environment moves; units and constant factors are left out.  The    *)
(* monitors of the processor and of the throughput push a ratio, here the  *)
(* pair of its terms: <<0, 0>> is the NaN of an empty interval.            *)
(***************************************************************************)
EXTENDS Integers, Sequences, FiniteSetsExt

CONSTANTS
  None,       \* no value
  Size,       \* the size of the window of the monitor
  Inertia,    \* the size of the window of error coefficients
  MaxNow,     \* bound on the clock and on the counter of the resource
  EnergyRange,\* max_energy_range_uj: the energy counter wraps there
  MaxValue,   \* bound on what is pushed by hand or sampled
  Values,     \* the values that are
  Goals,      \* the values a goal may have: heel generates Goal<float>
  Expected,   \* the means and deviations Operating Points expect: [mean, sd]
  PageSize,   \* the kilobytes of a page of memory
  MaxPolls    \* bound on the energy the polling thread adds up

ASSUME MonitorsAssumption ==
  /\ {PageSize, Size, Inertia, MaxNow, MaxPolls, EnergyRange} \subseteq Nat \ {0}
  /\ MaxValue \in Nat /\ Values \subseteq 0 .. MaxValue
  /\ Goals \subseteq Nat \X (Nat \ {0})
  /\ \A e \in Expected : e.mean \in Nat /\ e.sd \in Nat

Stats == {"average", "standard_deviation", "max", "min", "last"}

\* What start and stop of a monitor do when a reading throws or nothing elapsed.
Failing(startFails, flagFirst, stopFails, keptOnFailure, zeroFails, keptOnZero) ==
  [startFails    |-> startFails,     \* the reading in start may throw
   flagFirst     |-> flagFirst,      \* and started is set before it
   stopFails     |-> stopFails,      \* the reading in stop may throw
   keptOnFailure |-> keptOnFailure,  \* and started stays set
   zeroFails     |-> zeroFails,      \* stop throws when the counter did not move
   keptOnZero    |-> keptOnZero]     \* and started stays set

TimeMonitor        == Failing(FALSE, TRUE,  FALSE, FALSE, FALSE, FALSE)
ProcessCpuMonitor  == Failing(FALSE, TRUE,  FALSE, FALSE, FALSE, FALSE)
ThroughputMonitor  == Failing(FALSE, FALSE, FALSE, FALSE, TRUE,  TRUE)
EnergyMonitor      == Failing(TRUE,  FALSE, TRUE,  TRUE,  FALSE, FALSE)
CollectorMonitor   == Failing(TRUE,  FALSE, TRUE,  TRUE,  FALSE, FALSE)
SystemCpuMonitor   == Failing(TRUE,  TRUE,  TRUE,  TRUE,  TRUE,  FALSE)
OdroidPowerMonitor == Failing(FALSE, TRUE,  TRUE,  FALSE, FALSE, FALSE)

IntervalMonitors ==
  [time |-> TimeMonitor, process_cpu |-> ProcessCpuMonitor, throughput |-> ThroughputMonitor,
   energy |-> EnergyMonitor, collector |-> CollectorMonitor, system_cpu |-> SystemCpuMonitor,
   odroid_power |-> OdroidPowerMonitor]

\* A plain Monitor whose statistics are read ("custom") or which feeds an adaptor
\* ("adapted"), the monitors that sample a value, and those with start and stop.
MonitorKinds ==
  {"custom", "adapted", "frequency", "temperature", "memory", "odroid_energy"}
    \cup DOMAIN IntervalMonitors

\* The monitors of the processor.
Cpus == {"process_cpu", "system_cpu"}

VARIABLES
  monitor,     \* the kind of the monitor
  readers,     \* the statistics that the readers of a custom monitor ask for
  now,         \* the steady clock, and the counter of the resource
  used,        \* the time the processor spent on the process, or in user and system
  lost,        \* its time in neither of them nor idle: waiting for I/O, interrupts
  buffer, next_element, last_change,
  computed,    \* when the statistics were computed (average_computed_time...)
  previous,    \* the cached statistics (previous_average...)
  served,      \* ghost: the statistic a reader was given, until the buffer changes
  collided,    \* ghost: the buffer changed after a computation at the same time
  started,     \* the flag of the monitors with start and stop
  begin,       \* the reading taken by start
  begin_used,  \* and the one of the processor
  inside,      \* the application is between its calls of start and stop
  opened,      \* ghost: the counter when the application called start
  opened_cpu,  \* ghost: and what the processor had used and lost
  measured,    \* ghost: the last measure, what it should be, of how long, was it spoilt?
  spoilt,      \* ghost: started was left set, or set without a reading
  total, poll, \* the odroid thread: total_energy, and the value it loaded
  resetting,   \* its interface is between started = true and total_energy = 0
  polls,       \* ghost: the additions since the last reset
  errors, next_error, coefficient, \* the adaptor: error_window and its average
  evaluated,   \* ghost: the coefficients that are averaged, latest last
  cleared      \* ghost: clear_observations was called since the last of them

fixedVars  == <<monitor, readers>>
clockVars  == <<now, used, lost>>
bufferVars == <<buffer, next_element, last_change, served, collided>>
statVars   == <<computed, previous>>
flagVars   == <<started, begin, begin_used, inside, opened, opened_cpu, measured, spoilt>>
pollVars   == <<total, poll, resetting, polls>>
errorVars  == <<errors, next_error, coefficient, evaluated, cleared>>
monVars == <<fixedVars, clockVars, bufferVars, statVars, flagVars, pollVars, errorVars>>

----------------------------------------------------------------------------
(* Fractions, and statistics.hpp (no root is taken).                       *)

SameFraction(a, b) == a[1] * b[2] = b[1] * a[2]
LessFraction(a, b) == a[1] * b[2] < b[1] * a[2]
Plus(a, b) == <<a[1] * b[2] + b[1] * a[2], a[2] * b[2]>>

\* std::accumulate: the elements are added one by one.
SumOf(s) ==
  LET sum[i \in 0 .. Len(s)] == IF i = 0 THEN 0 ELSE sum[i - 1] + s[i] IN sum[Len(s)]

Average(s) == <<SumOf(s), Len(s)>>
StandardDeviation(s, avg) ==
  LET squares == [i \in DOMAIN s |-> (avg[2] * s[i] - avg[1]) * (avg[2] * s[i] - avg[1])]
  IN  <<SumOf(squares), avg[2] * avg[2] * Max({Len(s) - 1, 1})>>
MaximumOf(s) == <<Max({s[i] : i \in DOMAIN s}), 1>>
MinimumOf(s) == <<Min({s[i] : i \in DOMAIN s}), 1>>

----------------------------------------------------------------------------
(* CircularBuffer                                                          *)

\* Which statistics are read of one monitor: the caches of two of them have nothing
\* to do with each other, save that a deviation asks for the average.
Readings == {{s} : s \in Stats} \cup {{"average", "standard_deviation"}}

MonInit ==
  /\ monitor \in MonitorKinds /\ now = 1 /\ used = 0 /\ lost = 0
  /\ readers \in IF monitor = "custom" THEN Readings ELSE {{}}
  /\ buffer = <<>> /\ next_element = 0 /\ last_change = 1
  /\ computed = [s \in Stats |-> 0] /\ previous = [s \in Stats |-> <<0, 1>>]
  /\ served = None /\ collided = FALSE
  /\ started = FALSE /\ begin = 0 /\ begin_used = 0
  /\ inside = FALSE /\ opened = 0 /\ opened_cpu = <<0, 0>>
  /\ measured = None /\ spoilt = FALSE
  /\ total = 0 /\ poll = None /\ resetting = FALSE /\ polls = 0
  /\ errors = [i \in 1 .. Inertia |-> <<1, 1>>] /\ next_error = 0
  /\ coefficient = <<1, 1>> /\ evaluated = <<>> /\ cleared = FALSE

\* Every change takes the time of the clock: equal readings cannot be told apart.
Changed ==
  /\ last_change' = now /\ served' = None
  /\ collided' = (now = last_change /\ \E s \in Stats : computed[s] = now)

\* Mutant: the position moves on before the element is written.
PushAhead(v) ==
  /\ IF Len(buffer) < Size
     THEN buffer' = Append(buffer, v) /\ UNCHANGED next_element
     ELSE /\ next_element' = (next_element + 1) % Size
          /\ buffer' = [buffer EXCEPT ![next_element' + 1] = v]
  /\ Changed

Push(v) ==
  /\ IF Len(buffer) < Size
     THEN buffer' = Append(buffer, v) /\ UNCHANGED next_element
     ELSE /\ buffer' = [buffer EXCEPT ![next_element + 1] = v]
          /\ next_element' = (next_element + 1) % Size
  /\ Changed

ClearBuffer ==
  /\ monitor \in {"custom", "adapted"}
  /\ buffer' = <<>> /\ next_element' = 0 /\ Changed
  /\ UNCHANGED <<fixedVars, clockVars, statVars, flagVars, pollVars, errorVars>>

LastPushed == IF next_element = 0 THEN buffer[Len(buffer)] ELSE buffer[next_element]

\* The clock moves on, and the processor was idle, at work or neither.
Tick ==
  /\ now < MaxNow /\ now' = now + 1
  /\ \/ UNCHANGED <<used, lost>>
     \/ monitor \in Cpus /\ used' = used + 1 /\ UNCHANGED lost
     \/ monitor = "system_cpu" /\ lost' = lost + 1 /\ UNCHANGED used
  /\ UNCHANGED <<fixedVars, bufferVars, statVars, flagVars, pollVars, errorVars>>

----------------------------------------------------------------------------
(* StatisticalProvider: compute_average, compute_standard_deviation...     *)

\* Mutant: what was computed once is never computed again.
NeverComputed(statistic) == statistic = "last" \/ computed[statistic] = 0

Outdated(statistic) == statistic = "last" \/ computed[statistic] < last_change

AverageServed == IF Outdated("average") THEN Average(buffer) ELSE previous["average"]

Compute(statistic) ==
  CASE statistic = "average"            -> Average(buffer)
    [] statistic = "standard_deviation" -> StandardDeviation(buffer, AverageServed)
    [] statistic = "max"                -> MaximumOf(buffer)
    [] statistic = "min"                -> MinimumOf(buffer)
    [] statistic = "last"               -> <<LastPushed, 1>>

\* The statistics that a query computes: a new deviation asks for the average.
Recomputed(statistic) ==
  LET asked == IF statistic = "standard_deviation" THEN {statistic, "average"} ELSE {statistic}
  IN  IF Outdated(statistic) THEN {s \in asked : Outdated(s)} ELSE {}

Cache(statistic) ==
  /\ previous' = [s \in Stats |-> IF s \in Recomputed(statistic) THEN Compute(s) ELSE previous[s]]
  /\ computed' = [s \in Stats |-> IF s \in Recomputed(statistic) THEN last_change ELSE computed[s]]

\* last asserts that the buffer has an element; the others answer 0 without one.
Query(statistic) ==
  /\ monitor = "custom" /\ statistic \in readers /\ buffer # <<>>
  /\ Cache(statistic)
  /\ served' = [statistic |-> statistic, value |-> previous'[statistic]]
  /\ UNCHANGED <<fixedVars, clockVars, buffer, next_element, last_change, collided,
                 flagVars, pollVars, errorVars>>

----------------------------------------------------------------------------
(* The monitors that push what they are given or read.                     *)

\* FrequencyMonitor divides the frequency of each core before it adds them up.
FrequencyMeasure(readings) ==
  SumOf([i \in DOMAIN readings |-> readings[i] \div Len(readings)])
TemperatureMeasure(readings) == SumOf(readings) \div Len(readings)

\* MemoryMonitor: the pages in use, in kilobytes.
MemoryMeasure(pages) == pages * PageSize

\* A reading that throws pushes nothing.
Sample(v, w) ==
  /\ \/ monitor \in {"custom", "adapted"} /\ Push(v)
     \/ monitor = "memory" /\ Push(MemoryMeasure(v))
     \/ monitor = "frequency" /\ Push(FrequencyMeasure(<<v, w>>))
     \/ monitor = "temperature" /\ Push(TemperatureMeasure(<<v, w>>))
  /\ UNCHANGED <<fixedVars, clockVars, statVars, flagVars, pollVars, errorVars>>

----------------------------------------------------------------------------
(* The monitors with start and stop.                                       *)

\* readTime adds the interrupts and the I/O to a pointer: they are in no sum.
Reading ==
  CASE monitor = "energy"     -> now % EnergyRange
    [] monitor = "system_cpu" -> now - lost
    [] OTHER                  -> now

\* EnergyMonitor::stop takes one wrap of the counter into account; the odroid
\* power monitor has no interval and pushes the power at the time of stop.
Measure(data) ==
  CASE monitor = "energy" /\ Reading < begin -> EnergyRange - begin + Reading
    [] monitor = "odroid_power"              -> Reading
    [] monitor = "throughput"                -> <<data, Reading - begin>>
    [] monitor \in Cpus                      -> <<used - begin_used, Reading - begin>>
    [] OTHER                                 -> Reading - begin

\* What it should be since the application called start.
Truth(data) ==
  CASE monitor = "odroid_power" -> now
    [] monitor = "throughput"   -> <<data, now - opened>>
    [] monitor = "process_cpu"  -> <<used - opened_cpu[1], now - opened>>
    [] monitor = "system_cpu"   ->
         <<used - opened_cpu[1], now - opened - (lost - opened_cpu[2])>>
    [] OTHER                    -> now - opened

Start ==
  /\ monitor \in DOMAIN IntervalMonitors /\ ~inside
  /\ inside' = TRUE /\ opened' = now /\ opened_cpu' = <<used, lost>>
  /\ \/ started /\ UNCHANGED <<started, begin, begin_used, spoilt>>
     \/ /\ ~started /\ started' = TRUE /\ spoilt' = FALSE
        /\ begin' = Reading /\ begin_used' = used
     \/ /\ ~started /\ IntervalMonitors[monitor].startFails
        /\ started' = IntervalMonitors[monitor].flagFirst /\ spoilt' = started'
        /\ UNCHANGED <<begin, begin_used>>
  /\ UNCHANGED <<fixedVars, clockVars, bufferVars, statVars, measured, pollVars, errorVars>>

Zero == IntervalMonitors[monitor].zeroFails /\ Reading = begin

\* Without assertions (NDEBUG) the throughput monitor divides by zero instead.
Measured(data) ==
  /\ started /\ (~Zero \/ monitor = "throughput") /\ Push(Measure(data))
  /\ measured' = [value |-> Measure(data), truth |-> Truth(data), period |-> now - opened,
                  spoilt |-> spoilt]

\* Mutant: stop takes the measure and leaves the monitor started.
StopRunning(data) == Measured(data) /\ UNCHANGED <<started, spoilt>>

StopMeasures(data) == Measured(data) /\ started' = FALSE /\ spoilt' = FALSE

\* The cpu monitor reads before it looks at started.
StopThrows ==
  /\ \/ /\ IntervalMonitors[monitor].stopFails /\ (started \/ monitor = "system_cpu")
        /\ started' = (started /\ IntervalMonitors[monitor].keptOnFailure)
     \/ started /\ Zero /\ started' = IntervalMonitors[monitor].keptOnZero
  /\ spoilt' = started'
  /\ UNCHANGED <<bufferVars, measured>>

Stop(data) ==
  /\ monitor \in DOMAIN IntervalMonitors /\ inside /\ inside' = FALSE
  /\ \/ StopMeasures(data) \/ StopThrows
     \/ ~started /\ UNCHANGED <<bufferVars, started, measured, spoilt>>
  /\ UNCHANGED <<fixedVars, clockVars, statVars, begin, begin_used, opened, opened_cpu, pollVars,
                 errorVars>>

----------------------------------------------------------------------------
(* OdroidEnergyMonitor: a thread adds the power up, without a lock.        *)

OdroidStart ==
  /\ monitor = "odroid_energy" /\ ~inside
  /\ inside' = TRUE /\ started' = TRUE /\ resetting' = TRUE
  /\ UNCHANGED <<fixedVars, clockVars, bufferVars, statVars, begin, begin_used, opened, opened_cpu,
                 measured, spoilt, total, poll, polls, errorVars>>

OdroidReset ==
  /\ resetting /\ resetting' = FALSE
  /\ total' = 0 /\ polls' = 0 /\ spoilt' = (poll # None)
  /\ UNCHANGED <<fixedVars, clockVars, bufferVars, statVars, started, begin, begin_used, inside,
                 opened, opened_cpu, measured, poll, errorVars>>

PollLoad ==
  /\ monitor = "odroid_energy" /\ started /\ poll = None /\ total < MaxPolls
  /\ poll' = total
  /\ UNCHANGED <<fixedVars, clockVars, bufferVars, statVars, flagVars, total, resetting, polls,
                 errorVars>>

PollStore ==
  /\ poll # None /\ total' = poll + 1 /\ poll' = None /\ polls' = polls + 1
  /\ UNCHANGED <<fixedVars, clockVars, bufferVars, statVars, flagVars, resetting, errorVars>>

OdroidStop ==
  /\ monitor = "odroid_energy" /\ inside /\ ~resetting
  /\ inside' = FALSE /\ started' = FALSE /\ Push(total)
  /\ measured' = [value |-> total, truth |-> polls, period |-> 0, spoilt |-> spoilt]
  /\ UNCHANGED <<fixedVars, clockVars, statVars, begin, begin_used, opened, opened_cpu, spoilt,
                 pollVars, errorVars>>

----------------------------------------------------------------------------
(* OneSigmaAdaptor                                                         *)

\* The coefficient for an Operating Point that expects e: one unless the average
\* that was observed is more than a deviation away.
ErrorCoefficient(e, observed_value) ==
  LET padding == IF observed_value[1] = 0 THEN 1 ELSE 0
  IN  IF \/ LessFraction(<<e.mean + e.sd, 1>>, observed_value)
         \/ LessFraction(observed_value, <<e.mean - e.sd, 1>>)
      THEN <<(e.mean + padding) * observed_value[2],
             observed_value[1] + padding * observed_value[2]>>
      ELSE <<1, 1>>

AverageError(window) ==
  LET sum[i \in 0 .. Len(window)] == IF i = 0 THEN <<0, 1>> ELSE Plus(sum[i - 1], window[i])
  IN  <<sum[Len(window)][1], sum[Len(window)][2] * Len(window)>>

\* Only a full window of observations is valid.
IsValid == Len(buffer) = Size

\* The coefficients in the window, and one more.
Since == IF cleared THEN <<>> ELSE evaluated
Later(coefficients, new) ==
  IF Len(coefficients) < Inertia THEN Append(coefficients, new) ELSE Append(Tail(coefficients), new)

EvaluateError(e) ==
  /\ monitor = "adapted" /\ buffer # <<>>
  /\ Cache("average")
  /\ IF IsValid
     THEN LET new == ErrorCoefficient(e, previous'["average"])
          IN  /\ errors' = [errors EXCEPT ![next_error + 1] = new]
              /\ next_error' = (next_error + 1) % Inertia
              /\ coefficient' = AverageError(errors')
              /\ evaluated' = Later(Since, new) /\ cleared' = FALSE
     ELSE UNCHANGED errorVars
  /\ UNCHANGED <<fixedVars, clockVars, bufferVars, flagVars, pollVars>>

\* Mutant: the observations are cleared by forgetting where the next one goes.
RewindObservations ==
  /\ monitor = "adapted" /\ next_error' = 0 /\ cleared' = TRUE
  /\ UNCHANGED <<fixedVars, clockVars, bufferVars, statVars, flagVars, pollVars,
                 errors, coefficient, evaluated>>

\* The window is filled with ones; its average and the position are kept.
ClearObservations ==
  /\ monitor = "adapted"
  /\ errors' = [i \in 1 .. Inertia |-> <<1, 1>>] /\ cleared' = TRUE
  /\ UNCHANGED <<fixedVars, clockVars, bufferVars, statVars, flagVars, pollVars,
                 next_error, coefficient, evaluated>>

MonNext ==
  \/ Tick \/ ClearBuffer \/ Start \/ ClearObservations
  \/ OdroidStart \/ OdroidReset \/ OdroidStop \/ PollLoad \/ PollStore
  \/ \E s \in Stats : Query(s)
  \/ \E data \in Values : Stop(data)
  \/ \E v, w \in Values : Sample(v, w)
  \/ \E e \in Expected : EvaluateError(e)

MonSpec == MonInit /\ [][MonNext]_monVars

----------------------------------------------------------------------------
(* A goal about a statistic that Query served.                             *)

GoalKinds == {"LESS", "LESS_OR_EQUAL", "GREATER", "GREATER_OR_EQUAL"}

Achieves(cf, value, goal) ==
  \/ cf = "LESS" /\ LessFraction(value, goal)
  \/ cf = "LESS_OR_EQUAL" /\ ~LessFraction(goal, value)
  \/ cf = "GREATER" /\ LessFraction(goal, value)
  \/ cf = "GREATER_OR_EQUAL" /\ ~LessFraction(value, goal)

\* check: a statistic that is not valid achieves nothing.
Check(cf, goal) == IsValid /\ Achieves(cf, served.value, goal)

AbsoluteError(cf, value, goal) ==
  LET scaled == value * goal[2]
  IN  IF Achieves(cf, <<value, 1>>, goal) THEN <<0, goal[2]>>
      ELSE <<Max({scaled, goal[1]}) - Min({scaled, goal[1]}), goal[2]>>

\* Mutant: the stride is added to the denominator only.
UnevenStride(cf, value, goal) ==
  LET denumerator == IF goal[1] # 0 THEN goal ELSE <<goal[2], goal[2]>>
  IN  <<AbsoluteError(cf, value, denumerator)[1], denumerator[1]>>

\* |numerator / denumerator - 1|, with a stride of one where the goal is zero.
RelativeError(cf, value, goal) ==
  LET stride == IF goal[1] # 0 THEN 0 ELSE goal[2]
  IN  <<AbsoluteError(cf, value, goal)[1], goal[1] + stride>>

\* Of a monitor: the statistic becomes a value of the type of the observations, here
\* an integer, and nobody asks whether it is valid.
Truncated == served.value[1] \div served.value[2]
MonitorAbsoluteError(cf, goal) == AbsoluteError(cf, Truncated, goal)
MonitorRelativeError(cf, goal) == RelativeError(cf, Truncated, goal)

----------------------------------------------------------------------------
\* The buffer read from the oldest element on.
InOrder ==
  IF Len(buffer) < Size THEN buffer
  ELSE SubSeq(buffer, next_element + 1, Size) \o SubSeq(buffer, 1, next_element)

\* The circular buffer implements the window of the last Size observations: no
\* sequence of push and clear loses, repeats or reorders one.
Window == INSTANCE ObservationWindow WITH window <- InOrder
ImplementsWindow == Window!Spec

\* The statistic a reader is given is the one of the observations in the window,
\* whatever was computed and cached before, unless the buffer changed again at the
\* time the clock showed when it was computed.
ServedIsTrue ==
  (served # None /\ ~collided) =>
     SameFraction(served.value,
       CASE served.statistic = "average" -> Average(InOrder)
         [] served.statistic = "standard_deviation" ->
              StandardDeviation(InOrder, Average(InOrder))
         [] served.statistic = "max"  -> MaximumOf(InOrder)
         [] served.statistic = "min"  -> MinimumOf(InOrder)
         [] served.statistic = "last" -> <<InOrder[Len(InOrder)], 1>>)

\* check compares the statistic itself, absolute_error and relative_error the whole
\* number it is truncated to, and a goal may be any fraction: still, a goal that is
\* achieved has an absolute error of less than one unit, and so none where the goal is
\* a whole number; one that is missed by a unit or more has both errors.
ErrorsAgreeWithCheck ==
  (served # None /\ served.statistic \in {"average", "max", "min"}) =>
     \A cf \in GoalKinds, goal \in Goals :
        LET relative == MonitorRelativeError(cf, goal)
            absolute == MonitorAbsoluteError(cf, goal)
            v        == served.value
        IN  /\ Check(cf, goal) => LessFraction(absolute, <<1, 1>>)
            /\ ( /\ IsValid /\ ~Check(cf, goal)
                 /\ \/ ~LessFraction(goal, Plus(v, <<1, 1>>))
                    \/ ~LessFraction(v, Plus(goal, <<1, 1>>)) )
                 => relative[1] > 0 /\ absolute[1] > 0

\* goal.hpp of absolute_error of a monitor: "If the goal is achieved, the error is zero."
AchievedHasNoError ==
  (served # None /\ served.statistic \in {"average", "max", "min"}) =>
     \A cf \in GoalKinds, goal \in Goals :
        Check(cf, goal) => MonitorAbsoluteError(cf, goal)[1] = 0

\* What stop pushes is what the resource did since the application called start, for
\* the ratios both terms of it, so that no interval is mixed with another: an
\* exception spoils at most the next measure, the odroid monitor is wrong only when
\* its thread was in the middle of an addition, and the energy counter only when it
\* wrapped more than once.
MeasureIsExact ==
  (measured # None /\ ~measured.spoilt /\ ~(monitor = "energy" /\ measured.truth >= EnergyRange))
  => measured.value = measured.truth

\* SystemCpuMonitor: the "percentage of time that the whole system has spent in user or
\* system time over the observation period".
UsageIsOfThePeriod ==
  (measured # None /\ ~measured.spoilt /\ monitor = "system_cpu") =>
     SameFraction(measured.value, <<measured.truth[1], measured.period>>)

\* The correction of the knowledge is the average of the coefficients of the last
\* Inertia evaluations, of those since the observations were cleared before the last
\* one, with ones where there are fewer.
Padded(ev) == [i \in 1 .. Inertia |-> IF i <= Len(ev) THEN ev[i] ELSE <<1, 1>>]
CoefficientIsAverage == SameFraction(coefficient, AverageError(Padded(evaluated)))

\* field_adaptor.hpp: clear_observations resets "as in the istant of creation", when
\* the knowledge is not corrected.
ClearedIsUncorrected == cleared => SameFraction(coefficient, <<1, 1>>)

=============================================================================
