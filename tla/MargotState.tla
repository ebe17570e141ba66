---------------------------- MODULE MargotState ----------------------------
(***************************************************************************)
(* The optimiser of mARGOt: class State with the Constraint, View, Rank,   *)
(* Goal and Knowledge objects it drives.  A State keeps every Operating    *)
(* Point of the application knowledge either in the blocked_ops of the     *)
(* most important constraint it violates or, when it violates none, in the *)
(* rank; get_best_operating_point brings this structure up to date with    *)
(* the goals and the error coefficients, then solves the problem unless a  *)
(* memo says that nothing changed.                                         *)
(*                                                                         *)
(* Every method runs under Asrtm::manager_mutex, so the only interleaving  *)
(* is between calls.  The two loops over the constraints inside            *)
(* get_best_operating_point are modelled one iteration per step (pc, todo);*)
(* the other loops are written as what they compute.                       *)
(*                                                                         *)
(* Quantities that take part in a comparison are integers on a fixed grid  *)
(* of 1/Unit: an error coefficient c stands for c/Unit.                    *)
(***************************************************************************)
EXTENDS Integers, FiniteSets

CONSTANTS
  OPs,          \* Operating Points, one for each software-knob configuration
  NoOP,         \* the empty OperatingPointPtr
  Priorities,   \* the priorities that constraints may have (1 before 2)
  Goals,        \* Goal objects of the application
  Fields,       \* OPFields: a knob or metric, with its bound and sigma
  Monitored,    \* fields a monitor of the application observes
  Templates,    \* [goal, field] instantiations of class Constraint in use
  Ranks,        \* objective functions the application may set
  DefaultRank,  \* the dummy rank of the constructor
  Cmp,          \* Cmp[g]: the comparison function of goal g
  GoalValues,   \* values a goal can take
  Value,        \* Value[f][op]: what field f of op evaluates to, on the grid
  RankValue,    \* RankValue[r][op]: the objective function r at op
  Objective,    \* Objective[r] is "min" or "max"
  Coefs,        \* error coefficients a field adaptor can report
  Unit,         \* the coefficient 1.0
  Batches       \* sets of Operating Points passed to one call

Comparisons == {">", ">=", "<", "<="}

\* priorities are machine integers: finitely many, with a least one
ASSUME PrioritiesAssumption ==
  /\ Priorities \subseteq Int /\ IsFiniteSet(Priorities)
  /\ \E lo \in Priorities : \A p \in Priorities : lo <= p
ASSUME OPsAssumption == NoOP \notin OPs /\ Batches \subseteq SUBSET OPs
ASSUME TemplatesAssumption == Templates \subseteq [goal : Goals, field : Fields]
ASSUME MonitoredAssumption == Monitored \subseteq Fields
ASSUME GoalsAssumption == Cmp \in [Goals -> Comparisons] /\ GoalValues \subseteq Int
ASSUME ValuesAssumption == Value \in [Fields -> [OPs -> Int]]
ASSUME CoefsAssumption == Coefs \subseteq Int /\ Unit \in Coefs
ASSUME RanksAssumption ==
  /\ DefaultRank \in Ranks
  /\ RankValue \in [Ranks -> [OPs -> Int]]
  /\ Objective \in [Ranks -> {"min", "max"}]

VARIABLES
  knowledge,    \* the Operating Points of the application knowledge
  goalValue,    \* goalValue[g]: the value behind Goal::goal_value
  provider,     \* fields with a runtime information provider (FieldAdaptor)
  coef,         \* coef[f]: the error coefficient its adaptor reports
  constraints,  \* ConstraintStack: priority |-> goal, field, check, adaptor
  view,         \* view[p]: knowledge_view of the constraint at p
  blocked,      \* blocked[p]: blocked_ops of the constraint at p
  rankFn,       \* the objective function of the rank
  rankOps,      \* the multimap of the rank: copies of each Operating Point
  changed,      \* problem_is_changed
  best,         \* best_operating_point_found
  pc,           \* where get_best_operating_point is: "idle", "update", "narrow"
  todo,         \* the constraints the running loop has still to visit
  candidates    \* input_ops of get_best_from_stream

problem == <<knowledge, goalValue, provider, coef, constraints, view, rankFn>>
vars == <<problem, blocked, rankOps, changed, best, pc, todo, candidates>>

Stack == DOMAIN constraints
Above(p) == {q \in Stack : q < p}
Below(p) == {q \in Stack : q > p}
Empty == [op \in OPs |-> 0]

-----------------------------------------------------------------------------
(* Goals, views and the rank *)

\* helper::goal<cf>::compare
Compare(cf, value, goal) ==
  \/ cf = ">"  /\ value > goal
  \/ cf = ">=" /\ value >= goal
  \/ cf = "<"  /\ value < goal
  \/ cf = "<=" /\ value <= goal

GoalCheck(p, value, goal) == Compare(Cmp[constraints[p].goal], value, goal)

\* View::evaluate_op of the constraint at p
Eval(p, op) == Value[constraints[p].field][op]

\* op meets the constraint at p, as it was when p was last updated
Valid(p, op) == GoalCheck(p, Eval(p, op), constraints[p].check)

\* View::range(a, b): both ends are included
ViewRange(p, a, b) ==
  {op \in view[p] : \/ a <= Eval(p, op) /\ Eval(p, op) <= b
                    \/ b <= Eval(p, op) /\ Eval(p, op) <= a}

\* rank_compare::best
RankBetter(r, a, b) ==
  IF Objective[r] = "min" THEN RankValue[r][a] < RankValue[r][b]
                          ELSE RankValue[r][a] > RankValue[r][b]

\* Rank::best over a set of Operating Points; which of several equal ones is
\* returned depends on insertion order and is left open
RankBest(S) == {op \in S : \A o \in S : ~RankBetter(rankFn, o, op)}

InRank == {op \in OPs : rankOps[op] > 0}
RankAdd(S) == [op \in OPs |-> IF op \in S THEN rankOps[op] + 1 ELSE rankOps[op]]

\* Faulty variant: erases without looking whether the entry is there.
RankRemove_Unchecked(copies) == [op \in OPs |-> rankOps[op] - copies[op]]

\* Rank::remove of a stream with copies[op] entries for op
RankRemove(copies) ==
  [op \in OPs |-> IF copies[op] < rankOps[op] THEN rankOps[op] - copies[op] ELSE 0]

Once(S) == [op \in OPs |-> IF op \in S THEN 1 ELSE 0]

\* Constraint::update: the goal scaled by the error coefficient of its field
GoalAtUnit(v) == v * Unit
Adjusted(p) ==
  IF constraints[p].adaptor
  THEN goalValue[constraints[p].goal] * coef[constraints[p].field]
  ELSE GoalAtUnit(goalValue[constraints[p].goal])

-----------------------------------------------------------------------------
(* Streams of Operating Points through the constraints *)

\* Constraint::filter_add along the constraints Q, most important first: q
\* blocks op when op reaches q and is not valid for it
Catches(q, op, Q) ==
  /\ q \in Q
  /\ ~Valid(q, op)
  /\ \A r \in Q : r < q => Valid(r, op)

FilterAdd(blk, S, Q) ==
  [q \in Priorities |-> blk[q] \cup {op \in S : Catches(q, op, Q)}]

\* what filter_add along Q lets through, down to the rank
Passes(S, Q) == {op \in S : \A q \in Q : Valid(q, op)}

\* Constraint::filter_remove along Q: the first constraint of Q that blocks op
\* releases it and takes it off the stream
Releases(q, op, Q) ==
  /\ q \in Q
  /\ op \in blocked[q]
  /\ \A r \in Q : r < q => op \notin blocked[r]

\* Faulty variant: what more important constraints block is not pruned.
NotBlockedBy_Unpruned(S, Q) == S

\* Constraint::remove_blocked_ops_from along Q
NotBlockedBy(S, Q) == {op \in S : \A q \in Q : op \notin blocked[q]}

\* a is closer than b to satisfying the constraint at p
Closer(p, a, b) ==
  Eval(p, a) # Eval(p, b) /\ GoalCheck(p, Eval(p, a), Eval(p, b))

Closest(p, S) == {op \in S : \A o \in S : ~Closer(p, o, op)}

\* Constraint::get_closest
GetClosest(p) == Closest(p, blocked[p])

\* Faulty variant: with a valid candidate the others are not dropped.
Narrow_KeepsInvalid(p, S) ==
  LET valid == {op \in S : Valid(p, op)}
  IN  IF valid # {} THEN S ELSE Closest(p, S)

\* Constraint::narrow
Narrow(p, S) ==
  LET valid == {op \in S : Valid(p, op)}
  IN  IF valid # {} THEN valid ELSE Closest(p, S)

-----------------------------------------------------------------------------
Init ==
  /\ knowledge = {}
  /\ goalValue \in [Goals -> GoalValues]
  /\ provider = {}
  /\ coef = [f \in Fields |-> Unit]
  /\ constraints = [p \in {} |-> {}]
  /\ view = [p \in Priorities |-> {}]
  /\ blocked = [p \in Priorities |-> {}]
  /\ rankFn = DefaultRank
  /\ rankOps = Empty
  /\ changed = TRUE
  /\ best = NoOP
  /\ pc = "idle"
  /\ todo = {}
  /\ candidates = {}

solver == <<best, pc, todo, candidates>>

\* Goal::set.  Every constraint on the goal shares the value.
SetGoal(g, v) ==
  /\ pc = "idle"
  /\ goalValue' = [goalValue EXCEPT ![g] = v]
  /\ UNCHANGED <<knowledge, provider, coef, constraints, view, blocked, rankFn,
                 rankOps, changed, solver>>

\* KnowledgeAdaptor::evaluate_error: the monitors move the coefficient of a
\* field that has a provider
EvaluateError(f, c) ==
  /\ pc = "idle"
  /\ f \in provider
  /\ coef' = [coef EXCEPT ![f] = c]
  /\ UNCHANGED <<knowledge, goalValue, provider, constraints, view, blocked,
                 rankFn, rankOps, changed, solver>>

\* Constraint::set_field_adaptor of every constraint: a shared pointer to the
\* adaptor of its field, if there is one
SetFieldAdaptor(fields) ==
  [p \in Stack |-> [constraints[p] EXCEPT !.adaptor = constraints[p].field \in fields]]

\* Constraint::add, remove and set of every constraint
ConstraintAdd(S) ==
  [p \in Priorities |-> IF p \in Stack THEN view[p] \cup S ELSE view[p]]
ConstraintRemove(points, S) ==
  [p \in Priorities |-> IF p \in Stack THEN points[p] \ S ELSE points[p]]
ConstraintSet(S) ==
  [p \in Priorities |-> IF p \in Stack THEN S ELSE view[p]]

\* Constraint::clear of every constraint
ConstraintClear ==
  [p \in Priorities |-> IF p \in Stack THEN {} ELSE blocked[p]]

\* Asrtm::add_runtime_knowledge and State::set_knowledge_adaptor
AddRuntimeKnowledge(f) ==
  /\ pc = "idle"
  /\ provider' = provider \cup {f}
  /\ coef' = [coef EXCEPT ![f] = Unit]
  /\ constraints' = SetFieldAdaptor(provider')
  /\ changed' = TRUE
  /\ UNCHANGED <<knowledge, goalValue, view, blocked, rankFn, rankOps, solver>>

\* Asrtm::add_operating_points and State::add_operating_points
AddOperatingPoints(S) ==
  LET new == S \ knowledge
  IN  /\ pc = "idle"
      /\ knowledge' = knowledge \cup new
      /\ view' = ConstraintAdd(new)
      /\ blocked' = FilterAdd(blocked, new, Stack)
      /\ rankOps' = RankAdd(Passes(new, Stack))
      /\ changed' = TRUE
      /\ UNCHANGED <<goalValue, provider, coef, constraints, rankFn, solver>>

\* Asrtm::remove_operating_points and State::remove_operating_points
RemoveOperatingPoints(S) ==
  LET removed == S \cap knowledge
  IN  /\ pc = "idle"
      /\ knowledge' = knowledge \ removed
      /\ view' = ConstraintRemove(view, removed)
      /\ blocked' = ConstraintRemove(blocked, removed)
      /\ rankOps' = RankRemove(Once(removed))
      /\ changed' = TRUE
      /\ UNCHANGED <<goalValue, provider, coef, constraints, rankFn, solver>>

\* State::set_knowledge_base, once the caller has replaced the knowledge
SetKnowledgeBase(S) ==
  /\ pc = "idle"
  /\ knowledge' = S
  /\ view' = ConstraintSet(S)
  /\ blocked' = FilterAdd(ConstraintClear, S, Stack)
  /\ rankOps' = Once(Passes(S, Stack))
  /\ changed' = TRUE
  /\ UNCHANGED <<goalValue, provider, coef, constraints, rankFn, solver>>

\* Faulty variant: the memo survives a new objective function.
SetRank_KeepsMemo(r) ==
  /\ pc = "idle"
  /\ rankFn' = r
  /\ UNCHANGED <<knowledge, goalValue, provider, coef, constraints, view,
                 blocked, rankOps, changed, solver>>

\* State::set_rank: the memo is dropped only when some Operating Point is valid
SetRank(r) ==
  /\ pc = "idle"
  /\ rankFn' = r
  /\ changed' = (changed \/ InRank # {})
  /\ UNCHANGED <<knowledge, goalValue, provider, coef, constraints, view,
                 blocked, rankOps, solver>>

\* State::add_constraint.  The loop that takes the newly blocked Operating
\* Points out of the less important constraints calls filter_remove on the
\* first of them at every iteration (lower_it, not it).
NewConstraint(t) ==
  [goal |-> t.goal, field |-> t.field, check |-> GoalAtUnit(goalValue[t.goal]),
   adaptor |-> t.field \in provider]

\* available_ops: entries of op in the rank and from priority p on
Available(p, op) ==
  rankOps[op] + Cardinality({q \in Stack : q >= p /\ op \in blocked[q]})

\* filtered_ops of filter_initialize
Filtered(p, t) ==
  [op \in OPs |-> IF Compare(Cmp[t.goal], Value[t.field][op], NewConstraint(t).check)
                  THEN 0 ELSE Available(p, op)]

FirstBelow(p) == {q \in Below(p) : \A r \in Below(p) : q <= r}

AddConstraint(p, t) ==
  LET filtered == Filtered(p, t)
      stopped  == {op \in OPs : filtered[op] > 0}
      released == {op \in stopped : \E q \in FirstBelow(p) : op \in blocked[q]}
  IN  /\ pc = "idle"
      /\ constraints' = [q \in Stack \cup {p} |->
                           IF q = p THEN NewConstraint(t) ELSE constraints[q]]
      /\ view' = [view EXCEPT ![p] = knowledge]
      /\ blocked' = [q \in Priorities |->
                       IF q = p THEN stopped
                       ELSE IF q \in FirstBelow(p) THEN blocked[q] \ stopped
                       ELSE blocked[q]]
      /\ rankOps' = RankRemove([op \in OPs |-> IF op \in released THEN filtered[op] - 1
                                                                ELSE filtered[op]])
      /\ changed' = (changed \/ stopped # {})
      /\ UNCHANGED <<knowledge, goalValue, provider, coef, rankFn, solver>>

\* State::remove_constraint
RemoveConstraint(p) ==
  /\ pc = "idle"
  /\ p \in Stack
  /\ constraints' = [q \in Stack \ {p} |-> constraints[q]]
  /\ view' = [view EXCEPT ![p] = {}]
  /\ blocked' = [FilterAdd(blocked, blocked[p], Below(p)) EXCEPT ![p] = {}]
  /\ rankOps' = RankAdd(Passes(blocked[p], Below(p)))
  /\ changed' = (changed \/ blocked[p] # {})
  /\ UNCHANGED <<knowledge, goalValue, provider, coef, rankFn, solver>>

-----------------------------------------------------------------------------
(* get_best_operating_point *)

\* State::get_best_operating_point enters State::update
GetBest ==
  /\ pc = "idle"
  /\ pc' = "update"
  /\ todo' = Stack
  /\ UNCHANGED <<problem, blocked, rankOps, changed, best, candidates>>

\* the next iteration of the update loop visits the constraint at p
Visits(p) ==
  /\ pc = "update"
  /\ p \in todo
  /\ \A q \in todo : p <= q
  /\ todo' = todo \ {p}
  /\ UNCHANGED <<knowledge, goalValue, provider, coef, view, rankFn, best, pc,
                 candidates>>

\* the goal of p, scaled, is what it was
UpdateSame(p) ==
  /\ Visits(p)
  /\ Adjusted(p) = constraints[p].check
  /\ UNCHANGED <<constraints, blocked, rankOps, changed>>

\* the goal of p became harder: block what it invalidates, unless a more
\* important constraint does, and take it out of what comes after p
UpdateWorse(p) ==
  LET last == constraints[p].check
      final == Adjusted(p)
      invalidated == {op \in ViewRange(p, last, final) : ~GoalCheck(p, Eval(p, op), final)}
      removed == NotBlockedBy(invalidated, Above(p))
  IN  /\ Visits(p)
      /\ final # last
      /\ GoalCheck(p, final, last)
      /\ constraints' = [constraints EXCEPT ![p].check = final]
      /\ blocked' = [q \in Priorities |->
                       IF q = p THEN blocked[q] \cup removed
                       ELSE {op \in blocked[q] : ~(op \in removed /\ Releases(q, op, Below(p)))}]
      /\ rankOps' = RankRemove(Once(NotBlockedBy(removed, Below(p))))
      /\ changed' = (changed \/ removed # {})

\* the goal of p became easier: release what is now valid to what comes after p
UpdateBetter(p) ==
  LET last == constraints[p].check
      final == Adjusted(p)
      validated == {op \in ViewRange(p, last, final) \cap blocked[p] :
                      GoalCheck(p, Eval(p, op), final)}
  IN  /\ Visits(p)
      /\ final # last
      /\ ~GoalCheck(p, final, last)
      /\ constraints' = [constraints EXCEPT ![p].check = final]
      /\ blocked' = FilterAdd([blocked EXCEPT ![p] = @ \ validated], validated, Below(p))
      /\ rankOps' = RankAdd(Passes(validated, Below(p)))
      /\ changed' = (changed \/ validated # {})

Return(result) ==
  /\ pc' = "idle"
  /\ best' = result
  /\ todo' = {}
  /\ candidates' = {}
  /\ UNCHANGED <<problem, blocked, rankOps>>

Updated == pc = "update" /\ todo = {}

\* nothing changed since the last solution
SolveMemo == Updated /\ ~changed /\ Return(best) /\ UNCHANGED changed

\* some Operating Point is valid for every constraint
SolveRank ==
  /\ Updated /\ changed
  /\ changed' = FALSE
  /\ \E op \in RankBest(InRank) : Return(op)

\* the constraints that block something; the relaxation starts from the last
Blocking == {p \in Stack : blocked[p] # {}}

\* no Operating Point at all
SolveNothing ==
  /\ Updated /\ changed
  /\ InRank = {} /\ Blocking = {}
  /\ changed' = FALSE
  /\ Return(NoOP)

\* Faulty variant: the relaxation starts from the most important constraint.
SolveRelax_FromTop(p) ==
  /\ Updated /\ changed
  /\ InRank = {}
  /\ p \in Blocking /\ \A q \in Blocking : p <= q
  /\ changed' = FALSE
  /\ pc' = "narrow"
  /\ candidates' = GetClosest(p)
  /\ todo' = Below(p)
  /\ UNCHANGED <<problem, blocked, rankOps, best>>

\* every Operating Point is blocked: take the closest ones of the least
\* important constraint that blocks some
SolveRelax(p) ==
  /\ Updated /\ changed
  /\ InRank = {}
  /\ p \in Blocking /\ \A q \in Blocking : q <= p
  /\ changed' = FALSE
  /\ pc' = "narrow"
  /\ candidates' = GetClosest(p)
  /\ todo' = Below(p)
  /\ UNCHANGED <<problem, blocked, rankOps, best>>

Single(S) == \A a, b \in S : a = b

\* get_best_from_stream: one less important constraint narrows the candidates
NarrowStep(q) ==
  /\ pc = "narrow"
  /\ ~Single(candidates)
  /\ q \in todo /\ \A r \in todo : q <= r
  /\ candidates' = Narrow(q, candidates)
  /\ todo' = todo \ {q}
  /\ UNCHANGED <<problem, blocked, rankOps, changed, best, pc>>

\* get_best_from_stream: one candidate left, or the rank chooses
NarrowDone ==
  /\ pc = "narrow"
  /\ Single(candidates) \/ todo = {}
  /\ UNCHANGED changed
  /\ \E op \in RankBest(candidates) : Return(op)

-----------------------------------------------------------------------------
Solver ==
  \/ \E p \in Priorities : UpdateSame(p)
  \/ \E p \in Priorities : UpdateWorse(p)
  \/ \E p \in Priorities : UpdateBetter(p)
  \/ SolveMemo
  \/ SolveRank
  \/ SolveNothing
  \/ \E p \in Priorities : SolveRelax(p)
  \/ \E p \in Priorities : NarrowStep(p)
  \/ NarrowDone

Calls ==
  \/ \E g \in Goals, v \in GoalValues : SetGoal(g, v)
  \/ \E f \in Fields, c \in Coefs : EvaluateError(f, c)
  \/ \E f \in Monitored : AddRuntimeKnowledge(f)
  \/ \E S \in Batches : AddOperatingPoints(S)
  \/ \E S \in Batches : RemoveOperatingPoints(S)
  \/ \E S \in Batches : SetKnowledgeBase(S)
  \/ \E r \in Ranks : SetRank(r)
  \/ \E p \in Priorities : RemoveConstraint(p)
  \/ GetBest

\* A priority at which add_constraint keeps the structure consistent: no
\* constraint has it yet, and at most one constraint is less important.  Adding
\* constraints from the most to the least important one is a special case.
SafePriority(p) == p \notin Stack /\ Single(Below(p))

Next ==
  \/ Calls
  \/ Solver
  \/ \E p \in Priorities, t \in Templates : SafePriority(p) /\ AddConstraint(p, t)

Spec == Init /\ [][Next]_vars

\* add_constraint with any priority that is not in use
NextAnyOrder ==
  \/ Calls
  \/ Solver
  \/ \E p \in Priorities, t \in Templates : p \notin Stack /\ AddConstraint(p, t)

SpecAnyOrder == Init /\ [][NextAnyOrder]_vars

\* add_constraint that may also overwrite the least important constraint
NextOverwrite ==
  \/ Calls
  \/ Solver
  \/ \E p \in Priorities, t \in Templates : Below(p) = {} /\ AddConstraint(p, t)

SpecOverwrite == Init /\ [][NextOverwrite]_vars

-----------------------------------------------------------------------------
(* Properties *)

Constraint == [goal : Goals, field : Fields, check : Int, adaptor : BOOLEAN]

\* Type invariant: the variables keep the shape of the members of State,
\* Constraint and Rank; in particular the rank never holds a negative number of
\* copies (View::remove stops when there is nothing to erase).
TypeOK ==
  /\ knowledge \in SUBSET OPs
  /\ goalValue \in [Goals -> GoalValues]
  /\ provider \in SUBSET Fields
  /\ coef \in [Fields -> Coefs]
  /\ Stack \in SUBSET Priorities
  /\ constraints \in [Stack -> Constraint]
  /\ view \in [Priorities -> SUBSET OPs]
  /\ blocked \in [Priorities -> SUBSET OPs]
  /\ rankFn \in Ranks
  /\ rankOps \in [OPs -> Nat]
  /\ changed \in BOOLEAN
  /\ best \in OPs \cup {NoOP}
  /\ pc \in {"idle", "update", "narrow"}
  /\ todo \in SUBSET Stack
  /\ pc = "idle" => todo = {}
  /\ candidates \in SUBSET OPs

\* The representation State maintains (class comment of state.hpp): between any
\* two calls, and between any two iterations of the update loop, each Operating
\* Point of the knowledge is blocked by exactly the most important constraint it
\* violates, or is in the rank exactly once when it violates none; nothing else
\* is blocked or ranked, and the view of every constraint holds the knowledge.
Consistent ==
  /\ \A p \in Priorities \ Stack : blocked[p] = {}
  /\ \A p \in Stack : view[p] = knowledge
  /\ \A p \in Stack : blocked[p] = {op \in knowledge : Catches(p, op, Stack)}
  /\ rankOps = Once(Passes(knowledge, Stack))

(* What the problem is, independently of the filtering structure *)

\* op meets the constraint at p for the current goal and error coefficient
Meets(p, op) == GoalCheck(p, Eval(p, op), Adjusted(p))
Feasible == {op \in knowledge : \A p \in Stack : Meets(p, op)}
Optimal == {op \in Feasible : \A o \in Feasible : ~RankBetter(rankFn, o, op)}

\* p is the most important constraint that op violates
FirstViolated(p, op) == p \in Stack /\ ~Meets(p, op) /\ \A q \in Above(p) : Meets(q, op)

Returns == pc # "idle" /\ pc' = "idle"

\* get_best_operating_point takes every change of goals, coefficients, knowledge,
\* rank and constraints into account, memo or not: when some Operating Point
\* satisfies all the constraints, the one returned satisfies them all and no
\* other such Operating Point ranks better.
ReturnsOptimum == [][Returns /\ Feasible # {} => best' \in Optimal]_vars

\* When no Operating Point satisfies all the constraints, the least important
\* ones are given up first: every other Operating Point violates a constraint at
\* least as important as the first one that the returned Operating Point
\* violates, and if it is that same constraint it is not closer to the goal.
RelaxesLeastImportantFirst ==
  [][Returns /\ Feasible = {} /\ knowledge # {} =>
       /\ best' \in knowledge
       /\ \A p \in Stack : FirstViolated(p, best') =>
            \A o \in knowledge :
              \E q \in Above(p) \cup {p} :
                 FirstViolated(q, o) /\ (q = p => ~Closer(p, o, best'))]_vars

\* a is preferred to b by the constraint at p
Prefers(p, a, b) ==
  ~Meets(p, b) /\ (Meets(p, a) \/ Closer(p, a, b))
Equal(p, a, b) == ~Prefers(p, a, b) /\ ~Prefers(p, b, a)

\* a is better than b: by the most important constraint that tells them apart,
\* by the rank when there is none
BetterPoint(a, b) ==
  \/ \E p \in Stack : Prefers(p, a, b) /\ \A q \in Above(p) : Equal(q, a, b)
  \/ RankBetter(rankFn, a, b) /\ \A p \in Stack : Equal(p, a, b)

BestPoints == {a \in knowledge : \A b \in knowledge : ~BetterPoint(b, a)}

\* Relaxing, get_best_from_stream included, finds the lexicographic optimum: the
\* Operating Point returned is one that no other beats on the most important
\* constraint telling them apart, nor on the rank if no constraint does.
RelaxationIsLexicographic ==
  [][pc = "narrow" /\ Returns => best' \in BestPoints]_vars

\* find_best_configuration (asrtm.hpp): "any change on the value of the goal of
\* the constraints is taken into account before solving the optimization
\* problem".  The Operating Point returned is always one that solving the
\* problem from scratch could return.
AsIfSolvedAfresh ==
  [][Returns /\ knowledge # {} => best' \in BestPoints]_vars
=============================================================================
