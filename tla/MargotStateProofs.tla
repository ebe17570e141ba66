------------------------- MODULE MargotStateProofs -------------------------
(***************************************************************************)
(* Theorems about MargotState, for every knowledge, set of constraints,    *)
(* goals, coefficients and objective functions.                            *)
(***************************************************************************)
EXTENDS MargotState, FiniteSetTheorems, WellFoundedInduction, TLAPS

(* Facts about the definitions *)

\* Available counts entries: it is a natural number.
LEMMA AvailableType ==
  ASSUME TypeOK, NEW p \in Priorities, NEW op \in OPs
  PROVE  Available(p, op) \in Nat
<1> DEFINE Q == {q \in Stack : q >= p /\ op \in blocked[q]}
<1>1. Q \subseteq Priorities
  BY DEF TypeOK
<1>2. IsFiniteSet(Q)
  BY <1>1, PrioritiesAssumption, FS_Subset
<1>3. Cardinality(Q) \in Nat
  BY <1>2, FS_CardinalityType
<1>4. rankOps[op] \in Nat
  BY DEF TypeOK
<1> HIDE DEF Q
<1>5. rankOps[op] + Cardinality(Q) \in Nat
  BY <1>3, <1>4
<1> QED
  BY <1>5 DEF Available, Q

\* The scaled goal of a constraint is a number of the grid.
LEMMA AdjustedType ==
  ASSUME TypeOK, NEW p \in Stack
  PROVE  Adjusted(p) \in Int
<1>1. constraints[p] \in Constraint
  BY DEF TypeOK
<1>2. /\ goalValue[constraints[p].goal] \in Int
      /\ coef[constraints[p].field] \in Int
      /\ Unit \in Int
  BY <1>1, GoalsAssumption, CoefsAssumption DEF TypeOK, Constraint
<1> QED
  BY <1>2 DEF Adjusted, GoalAtUnit

\* Rank::remove leaves a natural number of copies.
LEMMA RankRemoveType ==
  ASSUME rankOps \in [OPs -> Nat], NEW copies \in [OPs -> Int],
         \A op \in OPs : copies[op] >= 0
  PROVE  RankRemove(copies) \in [OPs -> Nat]
BY DEF RankRemove

-----------------------------------------------------------------------------
(* Type correctness *)

\* The constructor of State leaves every member with its type.
LEMMA InitType == Init => TypeOK
BY GoalsAssumption, CoefsAssumption, RanksAssumption
   DEF Init, TypeOK, Stack, Empty, Constraint

\* Each method keeps the types of the members.
LEMMA NextType == TypeOK /\ [Next]_vars => TypeOK'
<1> SUFFICES ASSUME TypeOK, [Next]_vars PROVE TypeOK'
  OBVIOUS
<1> USE OPsAssumption
<1>1. ASSUME NEW g \in Goals, NEW v \in GoalValues, SetGoal(g, v) PROVE TypeOK'
  BY <1>1 DEF TypeOK, SetGoal, solver, Stack
<1>2. ASSUME NEW f \in Fields, NEW c \in Coefs, EvaluateError(f, c) PROVE TypeOK'
  BY <1>2 DEF TypeOK, EvaluateError, solver, Stack
<1>3. ASSUME NEW f \in Monitored, AddRuntimeKnowledge(f) PROVE TypeOK'
  <2>1. ASSUME NEW p \in Stack
        PROVE  [constraints[p] EXCEPT !.adaptor = constraints[p].field \in provider']
                 \in Constraint
    <3>1. constraints[p] \in Constraint
      BY DEF TypeOK
    <3>2. (constraints[p].field \in provider') \in BOOLEAN
      OBVIOUS
    <3> QED
      BY <3>1, <3>2 DEF Constraint
  <2>2. constraints' \in [Stack -> Constraint] /\ DOMAIN constraints' = Stack
    BY <1>3, <2>1 DEF AddRuntimeKnowledge, SetFieldAdaptor
  <2> QED
    BY <1>3, <2>2, CoefsAssumption, MonitoredAssumption
       DEF TypeOK, AddRuntimeKnowledge, SetFieldAdaptor, solver, Stack
<1>4. ASSUME NEW S \in Batches, AddOperatingPoints(S) PROVE TypeOK'
  BY <1>4 DEF TypeOK, AddOperatingPoints, ConstraintAdd, solver, Stack, FilterAdd, RankAdd, Passes
<1>5. ASSUME NEW S \in Batches, RemoveOperatingPoints(S) PROVE TypeOK'
  <2>1. RankRemove(Once(S \cap knowledge)) \in [OPs -> Nat]
    BY RankRemoveType DEF Once, TypeOK
  <2> QED
    BY <1>5, <2>1 DEF TypeOK, RemoveOperatingPoints, ConstraintRemove, solver, Stack
<1>6. ASSUME NEW S \in Batches, SetKnowledgeBase(S) PROVE TypeOK'
  BY <1>6 DEF TypeOK, SetKnowledgeBase, ConstraintSet, ConstraintClear, solver, Stack, FilterAdd, Once
<1>7. ASSUME NEW r \in Ranks, SetRank(r) PROVE TypeOK'
  BY <1>7 DEF TypeOK, SetRank, solver, Stack
<1>8. ASSUME NEW p \in Priorities, RemoveConstraint(p) PROVE TypeOK'
  BY <1>8 DEF TypeOK, RemoveConstraint, solver, Stack, FilterAdd, RankAdd
<1>9. CASE GetBest
  BY <1>9 DEF TypeOK, GetBest, problem, Stack
<1>10. ASSUME NEW p \in Priorities, UpdateSame(p) PROVE TypeOK'
  BY <1>10 DEF TypeOK, UpdateSame, Visits, Stack
<1>11. ASSUME NEW p \in Priorities, UpdateWorse(p) PROVE TypeOK'
  <2>1. \A S : RankRemove(Once(S)) \in [OPs -> Nat]
    BY RankRemoveType DEF Once, TypeOK
  <2>2. Adjusted(p) \in Int
    BY <1>11, AdjustedType DEF UpdateWorse, Visits, TypeOK
  <2> QED
    BY <1>11, <2>1, <2>2
       DEF TypeOK, UpdateWorse, Visits, Stack, Constraint, NotBlockedBy, ViewRange
<1>12. ASSUME NEW p \in Priorities, UpdateBetter(p) PROVE TypeOK'
  <2>2. Adjusted(p) \in Int
    BY <1>12, AdjustedType DEF UpdateBetter, Visits, TypeOK
  <2> QED
    BY <1>12, <2>2
       DEF TypeOK, UpdateBetter, Visits, Stack, Constraint, FilterAdd, RankAdd
<1>13. ASSUME NEW p \in Priorities, NEW t \in Templates, AddConstraint(p, t)
       PROVE  TypeOK'
  <2> DEFINE fil == Filtered(p, t)
             stopped == {op \in OPs : fil[op] > 0}
             rel == {op \in stopped : \E q \in FirstBelow(p) : op \in blocked[q]}
             copies == [op \in OPs |-> IF op \in rel THEN fil[op] - 1 ELSE fil[op]]
  <2>1. fil \in [OPs -> Nat]
    BY AvailableType DEF Filtered
  <2>2. copies \in [OPs -> Int] /\ \A op \in OPs : copies[op] >= 0
    BY <2>1
  <2>3. RankRemove(copies) \in [OPs -> Nat]
    <3> HIDE DEF copies
    <3> QED
      BY <2>2, RankRemoveType DEF TypeOK
  <2>4. NewConstraint(t) \in Constraint
    <3>4. goalValue[t.goal] \in Int /\ Unit \in Int
      BY TemplatesAssumption, GoalsAssumption, CoefsAssumption DEF TypeOK
    <3>1. GoalAtUnit(goalValue[t.goal]) \in Int
      BY <3>4 DEF GoalAtUnit
    <3>2. (t.field \in provider) \in BOOLEAN
      OBVIOUS
    <3>3. t.goal \in Goals /\ t.field \in Fields
      BY TemplatesAssumption
    <3> QED
      BY <3>1, <3>2, <3>3 DEF NewConstraint, Constraint
  <2>5. /\ constraints' \in [Stack \cup {p} -> Constraint]
        /\ DOMAIN constraints' = Stack \cup {p}
        /\ Stack \cup {p} \in SUBSET Priorities
    BY <1>13, <2>4 DEF AddConstraint, TypeOK
  <2>6. /\ rankOps' = RankRemove(copies)
        /\ blocked' \in [Priorities -> SUBSET OPs]
        /\ view' \in [Priorities -> SUBSET OPs]
        /\ changed' \in BOOLEAN
    BY <1>13 DEF AddConstraint, TypeOK
  <2>7. UNCHANGED <<knowledge, goalValue, provider, coef, rankFn, solver>>
    BY <1>13 DEF AddConstraint
  <2> HIDE DEF copies
  <2> QED
    BY <2>3, <2>5, <2>6, <2>7 DEF TypeOK, solver, Stack
<1>14. ASSUME NEW result \in OPs \cup {NoOP}, Return(result), changed' \in BOOLEAN
       PROVE  TypeOK'
  BY <1>14 DEF TypeOK, Return, problem, Stack
<1>15. CASE SolveMemo
  BY <1>15, <1>14 DEF SolveMemo, TypeOK
<1>16. CASE SolveRank
  BY <1>16, <1>14 DEF SolveRank, RankBest, InRank
<1>17. CASE SolveNothing
  BY <1>17, <1>14 DEF SolveNothing
<1>18. ASSUME NEW p \in Priorities, SolveRelax(p) PROVE TypeOK'
  BY <1>18 DEF TypeOK, SolveRelax, problem, Stack, GetClosest, Closest, Below
<1>19. ASSUME NEW p \in Priorities, NarrowStep(p) PROVE TypeOK'
  BY <1>19 DEF TypeOK, NarrowStep, problem, Stack, Narrow, Closest
<1>20. CASE NarrowDone
  BY <1>20, <1>14 DEF NarrowDone, RankBest, TypeOK
<1>21. CASE UNCHANGED vars
  BY <1>21 DEF TypeOK, vars, problem, Stack
<1> QED
  BY <1>1, <1>2, <1>3, <1>4, <1>5, <1>6, <1>7, <1>8, <1>9, <1>10, <1>11, <1>12,
     <1>13, <1>15, <1>16, <1>17, <1>18, <1>19, <1>20, <1>21
     DEF Next, Calls, Solver

\* Type correctness of the optimiser, for every instance.
THEOREM TypeCorrect == Spec => []TypeOK
<1> QED
  BY InitType, NextType, PTL DEF Spec

-----------------------------------------------------------------------------
(* The filtering structure stays consistent *)

IInv == TypeOK /\ Consistent

\* Nothing is known at first, so nothing is blocked nor ranked.
LEMMA InitConsistent == Init => Consistent
<1> SUFFICES ASSUME Init PROVE Consistent
  OBVIOUS
<1>1. Stack = {} /\ knowledge = {}
  BY DEF Init, Stack
<1>2. rankOps = Once(Passes(knowledge, Stack))
  BY <1>1 DEF Init, Empty, Once, Passes
<1> QED
  BY <1>1, <1>2 DEF Init, Consistent

\* What Consistent says of one Operating Point.
LEMMA BlockedIffCaught ==
  ASSUME IInv, NEW p \in Stack, NEW op \in OPs
  PROVE  op \in blocked[p] <=> op \in knowledge /\ Catches(p, op, Stack)
<1>1. blocked[p] = {o \in knowledge : Catches(p, o, Stack)}
  BY DEF IInv, Consistent
<1> QED
  BY <1>1

\* A step that keeps the structure and what the constraints compare with keeps it
\* consistent, whatever it does to goals, coefficients, memo and cursor.
LEMMA SameStructure ==
  ASSUME IInv, UNCHANGED <<knowledge, view, blocked, rankOps>>,
         DOMAIN constraints' = Stack,
         \A p \in Stack : /\ constraints'[p].goal = constraints[p].goal
                          /\ constraints'[p].field = constraints[p].field
                          /\ constraints'[p].check = constraints[p].check
  PROVE  Consistent'
<1>1. Stack' = Stack
  BY DEF Stack
<1>2. \A p \in Stack : \A op : Valid(p, op)' <=> Valid(p, op)
  BY <1>1 DEF Valid, GoalCheck, Compare, Eval
<1>3. \A p \in Stack : \A op : Catches(p, op, Stack)' <=> Catches(p, op, Stack)
  BY <1>1, <1>2 DEF Catches
<1>4. Passes(knowledge, Stack)' = Passes(knowledge, Stack)
  BY <1>1, <1>2 DEF Passes
<1>5. Once(Passes(knowledge, Stack))' = Once(Passes(knowledge, Stack))
  BY <1>4 DEF Once
<1> QED
  BY <1>1, <1>3, <1>5 DEF IInv, Consistent

\* The calls and steps to which SameStructure applies.
LEMMA QuietSteps ==
  ASSUME IInv,
         \/ \E g \in Goals, v \in GoalValues : SetGoal(g, v)
         \/ \E f \in Fields, c \in Coefs : EvaluateError(f, c)
         \/ \E f \in Monitored : AddRuntimeKnowledge(f)
         \/ \E r \in Ranks : SetRank(r)
         \/ GetBest
         \/ \E p \in Priorities : UpdateSame(p)
         \/ SolveMemo \/ SolveRank \/ SolveNothing \/ NarrowDone
         \/ \E p \in Priorities : SolveRelax(p) \/ NarrowStep(p)
         \/ UNCHANGED vars
  PROVE  Consistent'
<1>1. ASSUME UNCHANGED <<knowledge, view, blocked, rankOps, constraints>>
      PROVE  Consistent'
  BY <1>1, SameStructure DEF Stack
<1>2. ASSUME NEW f \in Monitored, AddRuntimeKnowledge(f) PROVE Consistent'
  <2>1. \A p \in Stack : constraints[p] \in Constraint
    BY DEF IInv, TypeOK
  <2> QED
    BY <1>2, <2>1, SameStructure DEF AddRuntimeKnowledge, SetFieldAdaptor, Stack, Constraint
<1>3. ASSUME NEW result, Return(result) PROVE Consistent'
  BY <1>3, <1>1 DEF Return, problem
<1> QED
  BY <1>1, <1>2, <1>3
     DEF SetGoal, EvaluateError, SetRank, GetBest, UpdateSame, Visits, SolveMemo,
         SolveRank, SolveNothing, NarrowDone, SolveRelax, NarrowStep, problem, vars

\* Changes of the knowledge.
LEMMA KnowledgeSteps ==
  ASSUME IInv, NEW S \in SUBSET OPs,
         AddOperatingPoints(S) \/ RemoveOperatingPoints(S) \/ SetKnowledgeBase(S)
  PROVE  Consistent'
<1>1. constraints' = constraints /\ Stack' = Stack
  BY DEF AddOperatingPoints, ConstraintAdd, RemoveOperatingPoints, ConstraintRemove,
         SetKnowledgeBase, ConstraintSet, ConstraintClear, Stack
<1>2. \A p, op : Catches(p, op, Stack)' <=> Catches(p, op, Stack)
  BY <1>1 DEF Catches, Valid, GoalCheck, Compare, Eval
<1>3. \A T : Passes(T, Stack)' = Passes(T, Stack)
  BY <1>1 DEF Passes, Valid, GoalCheck, Compare, Eval
<1>4. Stack \subseteq Priorities /\ blocked \in [Priorities -> SUBSET OPs]
      /\ rankOps \in [OPs -> Nat] /\ knowledge \subseteq OPs
  BY DEF IInv, TypeOK
<1>5. SUFFICES /\ \A p \in Priorities \ Stack : blocked'[p] = {}
               /\ \A p \in Stack : view'[p] = knowledge'
               /\ \A p \in Stack :
                    blocked'[p] = {op \in knowledge' : Catches(p, op, Stack)}
               /\ rankOps' = Once(Passes(knowledge', Stack))
  BY <1>1, <1>2, <1>3 DEF Consistent, Once
<1>6. CASE AddOperatingPoints(S)
  <2>1. rankOps' = Once(Passes(knowledge', Stack))
    BY <1>4, <1>6 DEF AddOperatingPoints, ConstraintAdd, RankAdd, Once, Passes, IInv, Consistent
  <2>2. \A p \in Priorities : ~(\E op : Catches(p, op, Stack)) \/ p \in Stack
    BY DEF Catches
  <2> QED
    BY <1>4, <1>6, <2>1, <2>2 DEF AddOperatingPoints, ConstraintAdd, FilterAdd, IInv, Consistent
<1>7. CASE RemoveOperatingPoints(S)
  <2>1. rankOps' = Once(Passes(knowledge', Stack))
    BY <1>4, <1>7 DEF RemoveOperatingPoints, ConstraintRemove, RankRemove, Once, Passes, IInv, Consistent
  <2> QED
    BY <1>4, <1>7, <2>1 DEF RemoveOperatingPoints, ConstraintRemove, IInv, Consistent
<1>8. CASE SetKnowledgeBase(S)
  <2>1. \A p \in Priorities : ~(\E op : Catches(p, op, Stack)) \/ p \in Stack
    BY DEF Catches
  <2> QED
    BY <1>4, <1>8, <2>1 DEF SetKnowledgeBase, ConstraintSet, ConstraintClear, FilterAdd, IInv, Consistent
<1> QED
  BY <1>6, <1>7, <1>8

\* A constraint is removed: what it blocked goes to the first less important
\* constraint that catches it, or to the rank.
LEMMA RemoveConstraintStep ==
  ASSUME IInv, NEW p \in Priorities, RemoveConstraint(p)
  PROVE  Consistent'
<1>1. /\ p \in Stack /\ Stack \subseteq Priorities /\ Priorities \subseteq Int
      /\ knowledge \subseteq OPs /\ knowledge' = knowledge
      /\ blocked \in [Priorities -> SUBSET OPs] /\ view \in [Priorities -> SUBSET OPs]
  BY PrioritiesAssumption DEF IInv, TypeOK, RemoveConstraint
<1>2. Stack' = Stack \ {p} /\ \A q \in Stack' : constraints'[q] = constraints[q]
  BY DEF RemoveConstraint, Stack
<1>3. \A q \in Stack' : \A op : Valid(q, op)' <=> Valid(q, op)
  BY <1>2 DEF Valid, GoalCheck, Compare, Eval
<1>4. \A q \in Stack, op \in OPs :
        op \in blocked[q] <=> op \in knowledge /\ Catches(q, op, Stack)
  BY BlockedIffCaught
<1>5. \A q \in Stack', op \in OPs :
        op \in blocked'[q] <=> op \in knowledge /\ Catches(q, op, Stack)'
  <2> SUFFICES ASSUME NEW q \in Stack', NEW op \in OPs
               PROVE  op \in blocked'[q] <=> op \in knowledge /\ Catches(q, op, Stack)'
    OBVIOUS
  <2>1. op \in blocked'[q] <=>
          (op \in blocked[q]) \/ (op \in blocked[p] /\ Catches(q, op, Below(p)))
    BY <1>1, <1>2 DEF RemoveConstraint, FilterAdd
  <2> QED
    BY <2>1, <1>1, <1>2, <1>3, <1>4 DEF Catches, Below
<1>6. \A op \in OPs : rankOps'[op] = Once(Passes(knowledge, Stack))'[op]
  <2> SUFFICES ASSUME NEW op \in OPs
               PROVE  rankOps'[op] = Once(Passes(knowledge, Stack))'[op]
    OBVIOUS
  <2>1. rankOps[op] = IF op \in knowledge /\ \A q \in Stack : Valid(q, op) THEN 1 ELSE 0
    BY DEF IInv, Consistent, Once, Passes
  <2>2. rankOps'[op] = IF op \in blocked[p] /\ \A q \in Below(p) : Valid(q, op)
                       THEN rankOps[op] + 1 ELSE rankOps[op]
    BY DEF RemoveConstraint, RankAdd, Passes
  <2>3. Once(Passes(knowledge, Stack))'[op] =
          IF op \in knowledge /\ \A q \in Stack' : Valid(q, op) THEN 1 ELSE 0
    BY <1>1, <1>3 DEF Once, Passes
  <2> QED
    BY <2>1, <2>2, <2>3, <1>1, <1>2, <1>4 DEF Catches, Below
<1> QED
  <2>1. rankOps' = Once(Passes(knowledge, Stack))'
    BY <1>6 DEF RemoveConstraint, RankAdd, Once
  <2>2. \A q \in Stack' : blocked'[q] = {op \in knowledge' : Catches(q, op, Stack)'}
    BY <1>1, <1>2, <1>5 DEF RemoveConstraint, FilterAdd, TypeOK
  <2>3. \A q \in Priorities \ Stack' : blocked'[q] = {}
    BY <1>1, <1>2 DEF RemoveConstraint, FilterAdd, Catches, Below, IInv, Consistent
  <2>4. \A q \in Stack' : view'[q] = knowledge'
    BY <1>1, <1>2 DEF RemoveConstraint, IInv, Consistent
  <2> QED
    BY <2>1, <2>2, <2>3, <2>4 DEF Consistent

\* The copies of op in the rank.
LEMMA RankedOnce ==
  ASSUME IInv, NEW op \in OPs
  PROVE  rankOps[op] = IF op \in knowledge /\ \A q \in Stack : Valid(q, op) THEN 1 ELSE 0
BY DEF IInv, Consistent, Once, Passes

\* At a safe priority p, available_ops holds once each Operating Point that the
\* constraints above p let through, and nothing else.
LEMMA AvailableOnce ==
  ASSUME IInv, NEW p \in Priorities, SafePriority(p), NEW op \in OPs
  PROVE  Available(p, op) =
           IF op \in knowledge /\ \A r \in Above(p) : Valid(r, op) THEN 1 ELSE 0
<1> DEFINE Q == {q \in Stack : q >= p /\ op \in blocked[q]}
<1>1. p \in Int /\ (\A q \in Stack : q \in Int /\ q # p)
  BY PrioritiesAssumption DEF IInv, TypeOK, SafePriority
<1>2. \A q \in Stack : q \in Above(p) \/ q \in Below(p)
  BY <1>1 DEF Above, Below
<1>3. \A q, r \in Below(p) : q = r
  BY DEF SafePriority, Single
<1>4. \A q \in Stack : op \in blocked[q] <=> op \in knowledge /\ Catches(q, op, Stack)
  BY BlockedIffCaught
<1>5. rankOps[op] = IF op \in knowledge /\ \A q \in Stack : Valid(q, op) THEN 1 ELSE 0
  BY RankedOnce
<1>6. CASE \E q \in Q : TRUE
  <2>1. PICK q \in Q : TRUE
    BY <1>6
  <2>2. q \in Below(p) /\ q \in Stack /\ op \in blocked[q]
    BY <2>1, <1>1 DEF Below
  <2>3. Q = {q}
    BY <2>1, <2>2, <1>3, <1>1 DEF Below
  <2>4. Cardinality(Q) = 1
    BY <2>3, FS_Singleton
  <2>5. op \in knowledge /\ ~Valid(q, op) /\ \A r \in Stack : r < q => Valid(r, op)
    BY <2>2, <1>4 DEF Catches
  <2>6. \A r \in Above(p) : Valid(r, op)
    BY <2>2, <2>5, <1>1 DEF Above, Below
  <2>7. rankOps[op] = 0
    BY <2>2, <2>5, <1>5
  <2> HIDE DEF Q
  <2>8. rankOps[op] + Cardinality(Q) = 1
    BY <2>4, <2>7
  <2> QED
    BY <2>8, <2>5, <2>6 DEF Available, Q
<1>7. CASE Q = {}
  <2>1. Cardinality(Q) = 0
    BY <1>7, FS_EmptySet
  <2>2. ASSUME op \in knowledge, \A r \in Above(p) : Valid(r, op), NEW q \in Stack
        PROVE  Valid(q, op)
    <3> SUFFICES ASSUME ~Valid(q, op) PROVE FALSE
      OBVIOUS
    <3>1. q \in Below(p)
      BY <2>2, <1>2
    <3>2. \A r \in Stack : r < q => Valid(r, op)
      BY <3>1, <1>1, <1>2, <1>3, <2>2
    <3>3. op \in blocked[q]
      BY <3>2, <2>2, <1>4 DEF Catches
    <3> QED
      BY <3>1, <3>3, <1>7, <1>1 DEF Below
  <2>3. rankOps[op] = IF op \in knowledge /\ \A r \in Above(p) : Valid(r, op) THEN 1 ELSE 0
    BY <2>2, <1>5 DEF Above
  <2> HIDE DEF Q
  <2>4. rankOps[op] + Cardinality(Q) = rankOps[op]
    BY <2>1, <2>3
  <2> QED
    BY <2>3, <2>4 DEF Available, Q
<1> QED
  BY <1>6, <1>7

\* A constraint is added: of what reaches it, it blocks what it does not accept,
\* taken out of the constraint below it or out of the rank.
LEMMA AddConstraintStep ==
  ASSUME IInv, NEW p \in Priorities, NEW t \in Templates, SafePriority(p),
         AddConstraint(p, t)
  PROVE  Consistent'
<1> DEFINE accepts(op) == Compare(Cmp[t.goal], Value[t.field][op], NewConstraint(t).check)
           reaches(op) == op \in knowledge /\ \A r \in Above(p) : Valid(r, op)
           fil == Filtered(p, t)
           stopped == {op \in OPs : fil[op] > 0}
           rel == {op \in stopped : \E q \in FirstBelow(p) : op \in blocked[q]}
           copies == [op \in OPs |-> IF op \in rel THEN fil[op] - 1 ELSE fil[op]]
<1>1. /\ p \in Int /\ (\A q \in Stack : q \in Int /\ q # p)
      /\ Stack \subseteq Priorities /\ knowledge \subseteq OPs
      /\ view \in [Priorities -> SUBSET OPs] /\ knowledge' = knowledge
  BY PrioritiesAssumption DEF IInv, TypeOK, SafePriority, AddConstraint
<1>2. /\ Stack' = Stack \cup {p}
      /\ \A q \in Stack : constraints'[q] = constraints[q]
      /\ constraints'[p] = NewConstraint(t)
  BY <1>1 DEF AddConstraint, Stack
<1>3. \A q \in Stack : \A op : Valid(q, op)' <=> Valid(q, op)
  BY <1>2 DEF Valid, GoalCheck, Compare, Eval
<1>4. \A op : Valid(p, op)' <=> accepts(op)
  BY <1>2 DEF Valid, GoalCheck, Compare, Eval, NewConstraint
<1>5. \A q \in Stack, op \in OPs :
        op \in blocked[q] <=> op \in knowledge /\ Catches(q, op, Stack)
  BY BlockedIffCaught
<1>6. FirstBelow(p) = Below(p)
  <2>1. \A q, r \in Below(p) : q = r
    BY DEF SafePriority, Single
  <2>2. \A q, r \in Below(p) : q <= r
    BY <2>1, <1>1 DEF Below
  <2> QED
    BY <2>2 DEF FirstBelow
<1>7. \A op \in OPs : fil[op] = IF reaches(op) /\ ~accepts(op) THEN 1 ELSE 0
  BY AvailableOnce DEF Filtered
<1>8. \A op \in OPs : op \in stopped <=> reaches(op) /\ ~accepts(op)
  <2> HIDE DEF fil, accepts, reaches
  <2> QED
    BY <1>7
<1>9. /\ blocked' = [q \in Priorities |->
                      IF q = p THEN stopped
                      ELSE IF q \in FirstBelow(p) THEN blocked[q] \ stopped
                      ELSE blocked[q]]
      /\ rankOps' = RankRemove(copies)
      /\ view' = [view EXCEPT ![p] = knowledge]
  BY DEF AddConstraint
<1> HIDE DEF fil, stopped, accepts
<1>10. \A q \in Stack', op \in OPs :
         op \in blocked'[q] <=> op \in knowledge /\ Catches(q, op, Stack)'
  <2> SUFFICES ASSUME NEW q \in Stack', NEW op \in OPs
               PROVE  op \in blocked'[q] <=> op \in knowledge /\ Catches(q, op, Stack)'
    OBVIOUS
  <2>1. CASE q = p
    BY <2>1, <1>1, <1>2, <1>3, <1>4, <1>8, <1>9 DEF Catches, Above
  <2>2. CASE q \in Above(p)
    <3>1. q \in Stack /\ q < p /\ q \notin Below(p) /\ q # p
      BY <2>2, <1>1 DEF Above, Below
    <3>2. Catches(q, op, Stack)' <=> Catches(q, op, Stack)
      BY <3>1, <1>1, <1>2, <1>3 DEF Catches
    <3>3. blocked'[q] = blocked[q]
      BY <3>1, <1>1, <1>6, <1>9
    <3> QED
      BY <3>1, <3>2, <3>3, <1>5
  <2>3. CASE q \in Below(p)
    <3>1. q \in Stack /\ (op \in blocked'[q] <=> op \in blocked[q] /\ op \notin stopped)
      BY <2>3, <1>1, <1>6, <1>9 DEF Below
    <3>2. op \in blocked[q] => reaches(op)
      <4>1. \A r \in Above(p) : r \in Stack /\ r < q
        BY <2>3, <1>1 DEF Above, Below
      <4> QED
        BY <3>1, <4>1, <1>5 DEF Catches
    <3>3. Catches(q, op, Stack)' <=> Catches(q, op, Stack) /\ accepts(op)
      BY <2>3, <1>1, <1>2, <1>3, <1>4 DEF Catches, Below
    <3> QED
      BY <3>1, <3>2, <3>3, <1>5, <1>8
  <2> QED
    BY <2>1, <2>2, <2>3, <1>1, <1>2 DEF Above, Below
<1>11. \A op \in OPs : rankOps'[op] = Once(Passes(knowledge, Stack))'[op]
  <2> SUFFICES ASSUME NEW op \in OPs
               PROVE  rankOps'[op] = Once(Passes(knowledge, Stack))'[op]
    OBVIOUS
  <2>1. rankOps[op] = IF op \in knowledge /\ \A q \in Stack : Valid(q, op) THEN 1 ELSE 0
    BY RankedOnce
  <2>2. Once(Passes(knowledge, Stack))'[op] =
          IF op \in knowledge /\ accepts(op) /\ \A q \in Stack : Valid(q, op) THEN 1 ELSE 0
    BY <1>1, <1>2, <1>3, <1>4 DEF Once, Passes
  <2>3. rankOps'[op] = IF copies[op] < rankOps[op] THEN rankOps[op] - copies[op] ELSE 0
    BY <1>9 DEF RankRemove
  <2>4. CASE ~reaches(op) \/ accepts(op)
    <3>1. copies[op] = 0
      BY <2>4, <1>7, <1>8
    <3> QED
      BY <3>1, <2>1, <2>2, <2>3, <2>4 DEF Above
  <2>5. CASE reaches(op) /\ ~accepts(op) /\ \E q \in Below(p) : op \in blocked[q]
    <3>1. rankOps[op] = 0
      BY <2>1, <2>5, <1>5 DEF Catches, Below
    <3>2. copies[op] = 0
      BY <2>5, <1>6, <1>7, <1>8
    <3> QED
      BY <3>1, <3>2, <2>2, <2>3, <2>5
  <2>6. CASE reaches(op) /\ ~accepts(op) /\ ~\E q \in Below(p) : op \in blocked[q]
    <3>1. copies[op] = 1
      BY <2>6, <1>6, <1>7, <1>8
    <3> QED
      BY <3>1, <2>1, <2>2, <2>3, <2>6
  <2> QED
    BY <2>4, <2>5, <2>6
<1> QED
  <2>1. rankOps' = Once(Passes(knowledge, Stack))'
    BY <1>9, <1>11 DEF RankRemove, Once
  <2>2. \A q \in Stack' : blocked'[q] = {op \in knowledge' : Catches(q, op, Stack)'}
    <3>1. \A q \in Stack' : blocked'[q] \subseteq OPs
      BY <1>1, <1>2, <1>9 DEF IInv, TypeOK, stopped
    <3> QED
      BY <3>1, <1>1, <1>10
  <2>3. \A q \in Priorities \ Stack' : blocked'[q] = {}
    BY <1>1, <1>2, <1>6, <1>9 DEF Below, IInv, Consistent
  <2>4. \A q \in Stack' : view'[q] = knowledge'
    BY <1>1, <1>2, <1>9 DEF IInv, Consistent
  <2> QED
    BY <2>1, <2>2, <2>3, <2>4 DEF Consistent

\* What a visit of the update loop leaves alone, and what it compares with.
LEMMA VisitFacts ==
  ASSUME IInv, NEW p \in Priorities, Visits(p), NEW v,
         constraints' = [constraints EXCEPT ![p].check = v]
  PROVE  /\ p \in Stack /\ Stack' = Stack /\ knowledge' = knowledge /\ view' = view
         /\ p \in Int /\ (\A q \in Stack : q \in Int)
         /\ \A q \in Stack : \A op : q # p => (Valid(q, op)' <=> Valid(q, op))
         /\ \A op : Valid(p, op)' <=> GoalCheck(p, Eval(p, op), v)
<1>1. p \in Stack /\ knowledge' = knowledge /\ view' = view
  BY DEF Visits, IInv, TypeOK
<1>2. p \in Int /\ (\A q \in Stack : q \in Int)
  BY PrioritiesAssumption DEF IInv, TypeOK
<1>3. constraints \in [Stack -> Constraint]
  BY DEF IInv, TypeOK
<1>4. Stack' = Stack /\ \A q \in Stack : q # p => constraints'[q] = constraints[q]
  BY <1>1, <1>3 DEF Stack
<1>5. /\ constraints'[p].goal = constraints[p].goal
      /\ constraints'[p].field = constraints[p].field
      /\ constraints'[p].check = v
  BY <1>1, <1>3 DEF Constraint
<1>6. \A q \in Stack : \A op : q # p => (Valid(q, op)' <=> Valid(q, op))
  BY <1>4 DEF Valid, GoalCheck, Compare, Eval
<1>7. \A op : Valid(p, op)' <=> GoalCheck(p, Eval(p, op), v)
  BY <1>5 DEF Valid, GoalCheck, Compare, Eval
<1> QED
  BY <1>1, <1>2, <1>4, <1>6, <1>7

\* Goal::check is monotone: a value that meets a goal meets any easier goal, and
\* one whose verdict differs between two goals lies between them.
LEMMA GoalMonotone ==
  ASSUME NEW cf \in Comparisons, NEW last \in Int, NEW final \in Int, NEW x \in Int,
         last # final
  PROVE  /\ Compare(cf, final, last) /\ Compare(cf, x, final) => Compare(cf, x, last)
         /\ ~Compare(cf, final, last) /\ Compare(cf, x, last) => Compare(cf, x, final)
         /\ Compare(cf, x, last) # Compare(cf, x, final) =>
              (last <= x /\ x <= final) \/ (final <= x /\ x <= last)
BY DEF Comparisons, Compare

\* A set of priorities has a most important member.
LEMMA MostImportant ==
  ASSUME NEW T \in SUBSET Priorities, T # {}
  PROVE  \E x \in T : \A y \in T : x <= y
<1>1. PICK lo \in Priorities : \A p \in Priorities : lo <= p
  BY PrioritiesAssumption
<1>2. lo \in Int /\ \A x \in T : x \in Int /\ lo <= x
  BY <1>1, PrioritiesAssumption
<1> DEFINE U == {x - lo : x \in T}
<1>3. U \subseteq Nat
  BY <1>2
<1>4. U # {}
  <2>1. PICK x \in T : TRUE
    OBVIOUS
  <2>2. x - lo \in U
    BY <2>1
  <2> QED
    BY <2>2
<1>5. PICK u \in U : \A w \in U : u <= w
  <2> HIDE DEF U
  <2>1. \E u \in U : \A w \in U : <<w, u>> \notin OpToRel(<, Nat)
    BY <1>3, <1>4, NatLessThanWellFounded, WFMin, Zenon
  <2>2. \E u \in U : \A w \in U : w \in Nat /\ u \in Nat => ~(w < u)
    BY <2>1, Zenon DEF OpToRel
  <2> QED
    BY <1>3, <2>2
<1>6. PICK x \in T : u = x - lo
  BY <1>5
<1>7. \A y \in T : x - lo <= y - lo
  BY <1>5, <1>6
<1> QED
  BY <1>2, <1>6, <1>7

\* An Operating Point that violates a constraint is blocked by it or by a more
\* important one.
LEMMA BlockedBySome ==
  ASSUME IInv, NEW op \in knowledge, NEW q \in Stack, ~Valid(q, op)
  PROVE  \E r \in Stack : r <= q /\ op \in blocked[r]
<1> DEFINE T == {r \in Stack : ~Valid(r, op)}
<1>1. Stack \subseteq Priorities /\ op \in OPs /\ \A r \in Stack : r \in Int
  BY PrioritiesAssumption DEF IInv, TypeOK
<1>2. PICK r \in T : \A y \in T : r <= y
  <2>1. T \in SUBSET Priorities /\ T # {}
    BY <1>1
  <2> HIDE DEF T
  <2> QED
    BY <2>1, MostImportant
<1>3. r <= q /\ Catches(r, op, Stack)
  BY <1>1, <1>2 DEF Catches
<1> QED
  BY <1>1, <1>2, <1>3, BlockedIffCaught

\* Consistent in the next state, from what it says of each Operating Point when
\* the stack and the knowledge stay as they are.
LEMMA ConsistentNext ==
  ASSUME IInv, TypeOK', Stack' = Stack, knowledge' = knowledge, view' = view,
         \A q \in Priorities \ Stack : blocked'[q] = {},
         \A q \in Stack, op \in OPs :
           op \in blocked'[q] <=> op \in knowledge /\ Catches(q, op, Stack)',
         \A op \in OPs : rankOps'[op] =
           IF op \in knowledge /\ \A q \in Stack : Valid(q, op)' THEN 1 ELSE 0
  PROVE  Consistent'
<1>1. \A q \in Stack' : blocked'[q] = {op \in knowledge' : Catches(q, op, Stack)'}
  <2>1. \A q \in Stack' : blocked'[q] \subseteq OPs /\ knowledge' \subseteq OPs
    BY DEF TypeOK
  <2> QED
    BY <2>1
<1>2. rankOps' = Once(Passes(knowledge, Stack))'
  <2>1. rankOps' \in [OPs -> Nat]
    BY DEF TypeOK
  <2>2. \A op \in OPs : Once(Passes(knowledge, Stack))'[op] = rankOps'[op]
    BY DEF Once, Passes
  <2> QED
    BY <2>1, <2>2 DEF Once
<1>3. \A q \in Stack' : view'[q] = knowledge'
  BY DEF IInv, Consistent
<1>4. \A q \in Priorities \ Stack' : blocked'[q] = {}
  OBVIOUS
<1> QED
  BY <1>1, <1>2, <1>3, <1>4 DEF Consistent

\* The goal of p became harder: what p now refuses moves up to p.
LEMMA UpdateWorseStep ==
  ASSUME IInv, TypeOK', NEW p \in Priorities, UpdateWorse(p)
  PROVE  Consistent'
<1> DEFINE last == constraints[p].check
           final == Adjusted(p)
           accepts(op) == GoalCheck(p, Eval(p, op), final)
           reaches(op) == op \in knowledge /\ \A r \in Above(p) : Valid(r, op)
           inv == {op \in ViewRange(p, last, final) : ~accepts(op)}
           removed == NotBlockedBy(inv, Above(p))
<1>1. /\ constraints' = [constraints EXCEPT ![p].check = final]
      /\ blocked' = [q \in Priorities |->
                       IF q = p THEN blocked[q] \cup removed
                       ELSE {op \in blocked[q] : ~(op \in removed /\ Releases(q, op, Below(p)))}]
      /\ rankOps' = RankRemove(Once(NotBlockedBy(removed, Below(p))))
      /\ final # last /\ GoalCheck(p, final, last) /\ Visits(p)
  BY DEF UpdateWorse
<1>2. /\ p \in Stack /\ Stack' = Stack /\ knowledge' = knowledge /\ view' = view
      /\ p \in Int /\ (\A q \in Stack : q \in Int)
      /\ \A q \in Stack : \A op : q # p => (Valid(q, op)' <=> Valid(q, op))
      /\ \A op : Valid(p, op)' <=> accepts(op)
  BY <1>1, VisitFacts
<1>0. p \in Int /\ \A q \in Stack : q \in Int
  BY PrioritiesAssumption DEF IInv, TypeOK
<1>3. /\ final \in Int /\ last \in Int /\ knowledge \subseteq OPs
      /\ Stack \subseteq Priorities /\ blocked \in [Priorities -> SUBSET OPs]
      /\ Cmp[constraints[p].goal] \in Comparisons
      /\ \A op \in OPs : Eval(p, op) \in Int
  BY <1>2, AdjustedType, GoalsAssumption, ValuesAssumption
     DEF IInv, TypeOK, Constraint, Eval
<1>4. \A op \in OPs : accepts(op) => Valid(p, op)
  BY <1>1, <1>3, GoalMonotone DEF Valid, GoalCheck
<1>5. \A op \in OPs : Valid(p, op) /\ ~accepts(op) /\ op \in knowledge => op \in inv
  BY <1>1, <1>2, <1>3, GoalMonotone DEF Valid, GoalCheck, ViewRange, IInv, Consistent
<1>6. inv \subseteq knowledge
  BY <1>2 DEF ViewRange, IInv, Consistent
<1>7. \A q \in Stack, op \in OPs :
        op \in blocked[q] <=> op \in knowledge /\ Catches(q, op, Stack)
  BY BlockedIffCaught
<1> HIDE DEF inv, last, final, accepts
<1>8. \A op \in removed : reaches(op) /\ op \in inv
  <2> SUFFICES ASSUME NEW op \in removed PROVE reaches(op) /\ op \in inv
    OBVIOUS
  <2>1. op \in inv /\ op \in knowledge /\ \A q \in Above(p) : op \notin blocked[q]
    BY <1>6 DEF NotBlockedBy
  <2>2. ASSUME NEW q \in Above(p), ~Valid(q, op) PROVE FALSE
    <3>1. q \in Stack /\ q < p
      BY <2>2 DEF Above
    <3>2. PICK r \in Stack : r <= q /\ op \in blocked[r]
      BY <3>1, <2>1, <2>2, BlockedBySome
    <3>3. r \in Above(p)
      BY <3>1, <3>2, <1>0 DEF Above
    <3> QED
      BY <3>2, <3>3, <2>1
  <2> QED
    BY <2>1, <2>2
<1>9. \A op \in OPs : reaches(op) /\ Valid(p, op) /\ ~accepts(op) => op \in removed
  BY <1>5, <1>7 DEF NotBlockedBy, Catches, Above
<1>10. \A op \in inv : ~accepts(op)
  BY DEF inv
<1> HIDE DEF removed
<1>11. \A q \in Priorities \ Stack : blocked'[q] = {}
  BY <1>1, <1>2 DEF IInv, Consistent
<1>12. ASSUME NEW q \in Stack, NEW op \in OPs
       PROVE  op \in blocked'[q] <=> op \in knowledge /\ Catches(q, op, Stack)'
  <2>1. CASE q = p
    <3>1. op \in blocked'[q] <=> op \in blocked[p] \/ op \in removed
      BY <2>1, <1>1
    <3>2. Catches(p, op, Stack) <=> ~Valid(p, op) /\ \A r \in Above(p) : Valid(r, op)
      BY <1>2 DEF Catches, Above
    <3>3. Catches(p, op, Stack)' <=> ~accepts(op) /\ \A r \in Above(p) : Valid(r, op)
      BY <1>2 DEF Catches, Above
    <3> QED
      BY <2>1, <3>1, <3>2, <3>3, <1>2, <1>4, <1>7, <1>8, <1>9, <1>10
  <2>2. CASE q \in Above(p)
    <3>1. q \in Stack /\ q < p /\ q # p /\ q \notin Below(p)
      BY <2>2, <1>2 DEF Above, Below
    <3>2. blocked'[q] = blocked[q]
      BY <3>1, <1>1, <1>3 DEF Releases
    <3>3. Catches(q, op, Stack)' <=> Catches(q, op, Stack)
      BY <3>1, <1>2 DEF Catches
    <3> QED
      BY <3>1, <3>2, <3>3, <1>7
  <2>3. CASE q \in Below(p)
    <3>1. q \in Stack /\ p < q /\ q # p /\ \A r \in Above(p) : r \in Stack /\ r < q
      BY <2>3, <1>2 DEF Above, Below
    <3>2. op \in blocked[q] => reaches(op) /\ Valid(p, op) /\ Releases(q, op, Below(p))
      <4> SUFFICES ASSUME op \in blocked[q]
                   PROVE  reaches(op) /\ Valid(p, op) /\ Releases(q, op, Below(p))
        OBVIOUS
      <4>1. op \in knowledge /\ ~Valid(q, op) /\ \A r \in Stack : r < q => Valid(r, op)
        BY <1>7 DEF Catches
      <4>2. reaches(op) /\ Valid(p, op)
        BY <4>1, <3>1, <1>2
      <4>3. \A r \in Below(p) : r < q => op \notin blocked[r]
        BY <4>1, <1>7 DEF Catches, Below
      <4> QED
        BY <4>2, <4>3, <2>3 DEF Releases
    <3>3. op \in blocked'[q] <=> op \in blocked[q] /\ op \notin removed
      BY <3>1, <3>2, <1>1, <1>3
    <3>4. Catches(q, op, Stack)' <=> Catches(q, op, Stack) /\ accepts(op)
      BY <3>1, <1>2, <1>4 DEF Catches
    <3> QED
      BY <3>2, <3>3, <3>4, <1>7, <1>8, <1>9, <1>10
  <2>4. q = p \/ q \in Above(p) \/ q \in Below(p)
    BY <1>0 DEF Above, Below
  <2> QED
    BY <2>1, <2>2, <2>3, <2>4
<1>13. ASSUME NEW op \in OPs
       PROVE  rankOps'[op] = IF op \in knowledge /\ \A q \in Stack : Valid(q, op)'
                             THEN 1 ELSE 0
  <2>1. rankOps[op] = IF op \in knowledge /\ \A q \in Stack : Valid(q, op) THEN 1 ELSE 0
    BY RankedOnce
  <2>2. rankOps'[op] = IF rankOps[op] = 1 /\ ~(op \in removed
                           /\ \A q \in Below(p) : op \notin blocked[q]) THEN 1 ELSE 0
    BY <2>1, <1>1 DEF RankRemove, Once, NotBlockedBy
  <2>3. (\A q \in Stack : Valid(q, op)') <=> accepts(op) /\ \A q \in Stack : Valid(q, op)
    BY <1>2, <1>4
  <2>4. ASSUME op \in knowledge, \A q \in Stack : Valid(q, op)
        PROVE  /\ op \in removed <=> ~accepts(op)
               /\ \A q \in Below(p) : op \notin blocked[q]
    BY <2>4, <1>2, <1>7, <1>8, <1>9, <1>10 DEF Catches, Above, Below
  <2> QED
    BY <2>1, <2>2, <2>3, <2>4
<1> QED
  BY <1>2, <1>11, <1>12, <1>13, ConsistentNext

\* The goal of p became easier: what p now accepts moves down the stack.
LEMMA UpdateBetterStep ==
  ASSUME IInv, TypeOK', NEW p \in Priorities, UpdateBetter(p)
  PROVE  Consistent'
<1> DEFINE last == constraints[p].check
           final == Adjusted(p)
           accepts(op) == GoalCheck(p, Eval(p, op), final)
           reaches(op) == op \in knowledge /\ \A r \in Above(p) : Valid(r, op)
           val == {op \in ViewRange(p, last, final) \cap blocked[p] : accepts(op)}
<1>1. /\ constraints' = [constraints EXCEPT ![p].check = final]
      /\ blocked' = FilterAdd([blocked EXCEPT ![p] = @ \ val], val, Below(p))
      /\ rankOps' = RankAdd(Passes(val, Below(p)))
      /\ final # last /\ ~GoalCheck(p, final, last) /\ Visits(p)
  BY DEF UpdateBetter
<1>2. /\ p \in Stack /\ Stack' = Stack /\ knowledge' = knowledge /\ view' = view
      /\ \A q \in Stack : \A op : q # p => (Valid(q, op)' <=> Valid(q, op))
      /\ \A op : Valid(p, op)' <=> accepts(op)
  BY <1>1, VisitFacts
<1>3. p \in Int /\ \A q \in Stack : q \in Int
  BY PrioritiesAssumption DEF IInv, TypeOK
<1>4. /\ final \in Int /\ last \in Int /\ knowledge \subseteq OPs
      /\ Stack \subseteq Priorities /\ blocked \in [Priorities -> SUBSET OPs]
      /\ Cmp[constraints[p].goal] \in Comparisons
      /\ \A op \in OPs : Eval(p, op) \in Int
  BY <1>2, AdjustedType, GoalsAssumption, ValuesAssumption
     DEF IInv, TypeOK, Constraint, Eval
<1>5. \A op \in OPs : Valid(p, op) => accepts(op)
  BY <1>1, <1>4, GoalMonotone DEF Valid, GoalCheck
<1>6. \A q \in Stack, op \in OPs :
        op \in blocked[q] <=> op \in knowledge /\ Catches(q, op, Stack)
  BY BlockedIffCaught
<1>7. \A op \in OPs : op \in val <=> op \in blocked[p] /\ accepts(op)
  <2> SUFFICES ASSUME NEW op \in OPs, op \in blocked[p], accepts(op) PROVE op \in val
    OBVIOUS
  <2>1. op \in view[p] /\ ~Valid(p, op)
    BY <1>2, <1>6 DEF Catches, IInv, Consistent
  <2> QED
    BY <2>1, <1>1, <1>4, GoalMonotone DEF Valid, GoalCheck, ViewRange
<1>8. \A op \in OPs : op \in blocked[p] <=> reaches(op) /\ ~Valid(p, op)
  BY <1>2, <1>6 DEF Catches, Above
<1>9. val \subseteq OPs
  BY <1>2, <1>4
<1> HIDE DEF val, last, final, accepts
<1>10. \A q \in Priorities, op \in OPs :
         op \in blocked'[q] <=> (op \in blocked[q] /\ (q = p => op \notin val))
                                \/ (op \in val /\ Catches(q, op, Below(p)))
  BY <1>1, <1>4 DEF FilterAdd
<1>11. \A q \in Priorities \ Stack : blocked'[q] = {}
  <2>1. \A q \in Priorities \ Stack : q # p /\ blocked[q] = {} /\ q \notin Below(p)
    BY <1>2 DEF IInv, Consistent, Below
  <2> QED
    BY <2>1, <1>1, <1>4 DEF FilterAdd, Catches
<1>12. ASSUME NEW q \in Stack, NEW op \in OPs
       PROVE  op \in blocked'[q] <=> op \in knowledge /\ Catches(q, op, Stack)'
  <2>0. q \in Priorities
    BY <1>4
  <2>1. CASE q = p
    <3>1. op \in blocked'[p] <=> op \in blocked[p] /\ op \notin val
      BY <2>0, <2>1, <1>3, <1>10 DEF Catches, Below
    <3>2. Catches(p, op, Stack)' <=> ~accepts(op) /\ \A r \in Above(p) : Valid(r, op)
      BY <1>2, <1>3 DEF Catches, Above
    <3> QED
      BY <2>1, <3>1, <3>2, <1>5, <1>7, <1>8
  <2>2. CASE q \in Above(p)
    <3>1. q < p /\ q # p /\ q \notin Below(p)
      BY <2>2, <1>3 DEF Above, Below
    <3>2. op \in blocked'[q] <=> op \in blocked[q]
      BY <2>0, <3>1, <1>10 DEF Catches
    <3>3. Catches(q, op, Stack)' <=> Catches(q, op, Stack)
      BY <3>1, <1>2, <1>3 DEF Catches
    <3> QED
      BY <3>2, <3>3, <1>6
  <2>3. CASE q \in Below(p)
    <3>1. p < q /\ q # p /\ \A r \in Above(p) : r \in Stack /\ r < q /\ r # p
      BY <2>3, <1>3 DEF Above, Below
    <3>2. op \in blocked'[q] <=> (op \in blocked[q]) \/ (op \in val /\ Catches(q, op, Below(p)))
      BY <2>0, <3>1, <1>10
    <3> DEFINE rest == ~Valid(q, op) /\ \A r \in Below(p) : r < q => Valid(r, op)
    <3>3. Catches(q, op, Below(p)) <=> rest
      BY <2>3 DEF Catches
    <3>4. op \in knowledge /\ Catches(q, op, Stack) <=> reaches(op) /\ Valid(p, op) /\ rest
      BY <3>1, <1>2, <1>3 DEF Catches, Above, Below
    <3>5. op \in knowledge /\ Catches(q, op, Stack)' <=> reaches(op) /\ accepts(op) /\ rest
      BY <3>1, <1>2, <1>3 DEF Catches, Above, Below
    <3> QED
      BY <3>2, <3>3, <3>4, <3>5, <1>5, <1>6, <1>7, <1>8
  <2>4. q = p \/ q \in Above(p) \/ q \in Below(p)
    BY <1>3 DEF Above, Below
  <2> QED
    BY <2>1, <2>2, <2>3, <2>4
<1>13. ASSUME NEW op \in OPs
       PROVE  rankOps'[op] = IF op \in knowledge /\ \A q \in Stack : Valid(q, op)'
                             THEN 1 ELSE 0
  <2> DEFINE rest == \A q \in Below(p) : Valid(q, op)
  <2>1. rankOps[op] = IF op \in knowledge /\ \A q \in Stack : Valid(q, op) THEN 1 ELSE 0
    BY RankedOnce
  <2>2. rankOps'[op] = IF op \in val /\ rest THEN rankOps[op] + 1 ELSE rankOps[op]
    BY <1>1 DEF RankAdd, Passes
  <2>3. op \in knowledge /\ (\A q \in Stack : Valid(q, op)) <=>
          reaches(op) /\ Valid(p, op) /\ rest
    BY <1>2, <1>3 DEF Above, Below
  <2>4. op \in knowledge /\ (\A q \in Stack : Valid(q, op)') <=>
          reaches(op) /\ accepts(op) /\ rest
    BY <1>2, <1>3 DEF Above, Below
  <2> QED
    BY <2>1, <2>2, <2>3, <2>4, <1>5, <1>7, <1>8
<1> QED
  BY <1>2, <1>11, <1>12, <1>13, ConsistentNext

\* Every call and every iteration of the update loop keeps the structure consistent.
LEMMA NextConsistent == IInv /\ [Next]_vars => IInv'
<1> SUFFICES ASSUME IInv, [Next]_vars PROVE IInv'
  OBVIOUS
<1>1. TypeOK'
  BY NextType DEF IInv
<1>2. Consistent'
  BY <1>1, OPsAssumption, QuietSteps, KnowledgeSteps, RemoveConstraintStep,
     AddConstraintStep, UpdateWorseStep, UpdateBetterStep DEF Next, Calls, Solver
<1> QED
  BY <1>1, <1>2 DEF IInv

\* The filtering structure of State is consistent at all times, for every
\* knowledge, set of constraints, goals, coefficients and objective functions,
\* provided that constraints are added at safe priorities.
THEOREM ConsistentAlways == Spec => []Consistent
<1>1. Init => IInv
  BY InitType, InitConsistent DEF IInv
<1>2. IInv => Consistent
  BY DEF IInv
<1> QED
  BY <1>1, <1>2, NextConsistent, PTL DEF Spec

----------------------------------------------------------------------------
(***************************************************************************)
(* What get_best_operating_point returns.  An optimum whenever some        *)
(* Operating Point is valid: the filtering structure is consistent         *)
(* (ConsistentAlways), the update loop has made  it current, and the memo, *)
(* when it is used, still holds the best element of the rank.  Otherwise   *)
(* an Operating Point that gives up the least important constraints first, *)
(* found now or remembered, and, when it is found by get_best_from_stream, *)
(* the lexicographic optimum over the constraints and the rank.            *)
(***************************************************************************)


\* the constraint at p compares with its goal as it is now
Current(p) == constraints[p].check = Adjusted(p)

\* The inductive invariant: the loops have made what they visited current, and
\* the memo is an optimum of the rank unless problem_is_changed says otherwise.
Memo ==
  /\ pc = "update" => \A p \in Stack \ todo : Current(p)
  /\ pc = "narrow" => InRank = {} /\ \A p \in Stack : Current(p)
  /\ ~changed /\ pc # "narrow" /\ InRank # {} => best \in RankBest(InRank)

OptInv == IInv /\ Memo

\* There is no memo at first: problem_is_changed is set by the constructor.
LEMMA InitMemo == Init => Memo
BY DEF Init, Memo

\* A step that leaves problem_is_changed false leaves the rank and the objective
\* function alone, so an optimum of the rank remains one.
LEMMA MemoKept ==
  ASSUME OptInv, rankOps' = rankOps, rankFn' = rankFn \/ InRank = {}, best' = best,
         ~changed, pc # "narrow"
  PROVE  InRank' # {} => best' \in RankBest(InRank)'
<1>1. InRank' = InRank
  BY DEF InRank
<1> QED
  BY <1>1 DEF OptInv, Memo, RankBest, RankBetter

\* Calls other than get_best_operating_point are made between two of its runs.
LEMMA CallsKeepMemo ==
  ASSUME OptInv, pc = "idle", pc' = pc, best' = best,
         changed' \/ (~changed /\ rankOps' = rankOps /\ (rankFn' = rankFn \/ InRank = {}))
  PROVE  Memo'
<1>1. ~changed' => (InRank' # {} => best' \in RankBest(InRank)')
  BY MemoKept DEF OptInv, IInv, TypeOK
<1> QED
  BY <1>1 DEF Memo

\* Removing or adding nothing leaves the rank as it is.
LEMMA RankSame ==
  ASSUME TypeOK
  PROVE  /\ RankAdd({}) = rankOps
         /\ RankRemove([op \in OPs |-> 0]) = rankOps
<1>1. rankOps \in [OPs -> Nat]
  BY DEF TypeOK
<1>2. \A op \in OPs : (IF 0 < rankOps[op] THEN rankOps[op] - 0 ELSE 0) = rankOps[op]
  BY <1>1
<1> QED
  BY <1>1, <1>2 DEF RankAdd, RankRemove

\* A call between two solutions keeps the memo right or drops it.
LEMMA CallsMemo ==
  ASSUME OptInv, Calls
  PROVE  Memo'
<1>1. ASSUME NEW g \in Goals, NEW v \in GoalValues, SetGoal(g, v) PROVE Memo'
  BY <1>1, CallsKeepMemo DEF SetGoal, solver, OptInv, IInv, TypeOK
<1>2. ASSUME NEW f \in Fields, NEW c \in Coefs, EvaluateError(f, c) PROVE Memo'
  BY <1>2, CallsKeepMemo DEF EvaluateError, solver, OptInv, IInv, TypeOK
<1>3. ASSUME NEW f \in Monitored, AddRuntimeKnowledge(f) PROVE Memo'
  BY <1>3, CallsKeepMemo DEF AddRuntimeKnowledge, solver
<1>4. ASSUME NEW S \in Batches,
             AddOperatingPoints(S) \/ RemoveOperatingPoints(S) \/ SetKnowledgeBase(S)
      PROVE  Memo'
  BY <1>4, CallsKeepMemo
     DEF AddOperatingPoints, RemoveOperatingPoints, SetKnowledgeBase, solver
<1>5. ASSUME NEW r \in Ranks, SetRank(r) PROVE Memo'
  BY <1>5, CallsKeepMemo DEF SetRank, solver, OptInv, IInv, TypeOK
<1>6. ASSUME NEW p \in Priorities, RemoveConstraint(p) PROVE Memo'
  <2>1. blocked[p] = {} => Passes(blocked[p], Below(p)) = {}
    BY DEF Passes
  <2>2. blocked[p] = {} => rankOps' = rankOps
    BY <1>6, <2>1, RankSame DEF RemoveConstraint, OptInv, IInv
  <2> QED
    BY <1>6, <2>2, CallsKeepMemo DEF RemoveConstraint, solver, OptInv, IInv, TypeOK
<1>7. CASE GetBest
  <2>1. UNCHANGED <<rankOps, rankFn, changed, best>> /\ pc = "idle" /\ pc' = "update"
        /\ todo' = Stack /\ Stack' = Stack
    BY <1>7 DEF GetBest, problem, Stack
  <2>2. ~changed' => (InRank' # {} => best' \in RankBest(InRank)')
    BY <2>1, MemoKept DEF OptInv, IInv, TypeOK
  <2> QED
    BY <2>1, <2>2 DEF Memo
<1> QED
  BY <1>1, <1>2, <1>3, <1>4, <1>5, <1>6, <1>7 DEF Calls

\* add_constraint at a safe priority keeps the memo right or drops it.
LEMMA AddConstraintMemo ==
  ASSUME OptInv, NEW p \in Priorities, NEW t \in Templates, AddConstraint(p, t)
  PROVE  Memo'
<1> DEFINE fil == Filtered(p, t)
           stopped == {op \in OPs : fil[op] > 0}
           rel == {op \in stopped : \E q \in FirstBelow(p) : op \in blocked[q]}
           copies == [op \in OPs |-> IF op \in rel THEN fil[op] - 1 ELSE fil[op]]
<1>1. \A op \in OPs : fil[op] \in Nat
  BY AvailableType DEF Filtered, OptInv, IInv
<1>2. /\ changed' = (changed \/ stopped # {}) /\ rankOps' = RankRemove(copies)
      /\ UNCHANGED <<rankFn, best, pc>> /\ pc = "idle"
  BY DEF AddConstraint, solver
<1>3. stopped = {} => rankOps' = rankOps
  <2> HIDE DEF fil
  <2>1. stopped = {} => copies = [op \in OPs |-> 0]
    BY <1>1
  <2> QED
    BY <1>2, <2>1, RankSame DEF OptInv, IInv
<1> HIDE DEF stopped
<1> QED
  BY <1>2, <1>3, CallsKeepMemo DEF OptInv, IInv, TypeOK

\* An iteration of the update loop makes the constraint it visits current and
\* leaves the others as they are.
LEMMA VisitMemo ==
  ASSUME OptInv, NEW p \in Priorities, Visits(p),
         constraints' = [constraints EXCEPT ![p].check = Adjusted(p)]
           \/ (constraints' = constraints /\ Current(p)),
         changed' \/ (~changed /\ rankOps' = rankOps)
  PROVE  Memo'
<1>1. /\ pc = "update" /\ pc' = "update" /\ best' = best /\ rankFn' = rankFn
      /\ todo' = todo \ {p} /\ p \in Stack
      /\ goalValue' = goalValue /\ coef' = coef
  BY DEF Visits, OptInv, IInv, TypeOK
<1>2. constraints \in [Stack -> Constraint]
  BY DEF OptInv, IInv, TypeOK
<1>3. Stack' = Stack
  BY <1>1, <1>2 DEF Stack
<1>4. \A q \in Stack : /\ constraints'[q].goal = constraints[q].goal
                       /\ constraints'[q].field = constraints[q].field
                       /\ constraints'[q].adaptor = constraints[q].adaptor
                       /\ q # p => constraints'[q].check = constraints[q].check
  BY <1>1, <1>2 DEF Constraint
<1>5. constraints'[p].check = Adjusted(p)
  BY <1>1, <1>2 DEF Constraint, Current
<1>6. \A q \in Stack : Adjusted(q)' = Adjusted(q)
  BY <1>1, <1>4 DEF Adjusted, GoalAtUnit
<1>7. \A q \in Stack' \ todo' : Current(q)'
  BY <1>1, <1>3, <1>4, <1>5, <1>6 DEF Current, OptInv, Memo
<1>8. ~changed' => (InRank' # {} => best' \in RankBest(InRank)')
  BY <1>1, MemoKept DEF OptInv, IInv, TypeOK
<1> QED
  BY <1>1, <1>7, <1>8 DEF Memo

\* An iteration of the update loop that moves Operating Points drops the memo.
LEMMA UpdateMemo ==
  ASSUME OptInv, NEW p \in Priorities, UpdateSame(p) \/ UpdateWorse(p) \/ UpdateBetter(p)
  PROVE  Memo'
<1>0. TypeOK
  BY DEF OptInv, IInv
<1>1. CASE UpdateSame(p)
  BY <1>0, <1>1, VisitMemo DEF UpdateSame, Current, TypeOK
<1>2. CASE UpdateWorse(p)
  <2> DEFINE inv == {op \in ViewRange(p, constraints[p].check, Adjusted(p)) :
                       ~GoalCheck(p, Eval(p, op), Adjusted(p))}
             removed == NotBlockedBy(inv, Above(p))
  <2>1. /\ changed' = (changed \/ removed # {}) /\ Visits(p)
        /\ rankOps' = RankRemove(Once(NotBlockedBy(removed, Below(p))))
        /\ constraints' = [constraints EXCEPT ![p].check = Adjusted(p)]
    BY <1>2 DEF UpdateWorse
  <2> HIDE DEF removed
  <2>2. removed = {} => Once(NotBlockedBy(removed, Below(p))) = [op \in OPs |-> 0]
    BY DEF Once, NotBlockedBy
  <2>3. removed = {} => rankOps' = rankOps
    BY <1>0, <2>1, <2>2, RankSame
  <2> QED
    BY <1>0, <2>1, <2>3, VisitMemo DEF TypeOK
<1>3. CASE UpdateBetter(p)
  <2> DEFINE val == {op \in ViewRange(p, constraints[p].check, Adjusted(p)) \cap blocked[p] :
                       GoalCheck(p, Eval(p, op), Adjusted(p))}
  <2>1. /\ changed' = (changed \/ val # {}) /\ Visits(p)
        /\ rankOps' = RankAdd(Passes(val, Below(p)))
        /\ constraints' = [constraints EXCEPT ![p].check = Adjusted(p)]
    BY <1>3 DEF UpdateBetter
  <2> HIDE DEF val
  <2>2. val = {} => Passes(val, Below(p)) = {}
    BY DEF Passes
  <2>3. val = {} => rankOps' = rankOps
    BY <1>0, <2>1, <2>2, RankSame
  <2> QED
    BY <1>0, <2>1, <2>3, VisitMemo DEF TypeOK
<1> QED
  BY <1>1, <1>2, <1>3

\* Once the update loop is over, the rank holds exactly the feasible points.
LEMMA RankIsFeasible ==
  ASSUME IInv, \A p \in Stack : Current(p)
  PROVE  InRank = Feasible /\ RankBest(InRank) = Optimal
<1>1. \A p \in Stack : \A op : Meets(p, op) <=> Valid(p, op)
  BY DEF Current, Meets, Valid, GoalCheck
<1>2. knowledge \subseteq OPs
  BY DEF IInv, TypeOK
<1>3. \A op \in OPs : op \in InRank <=> op \in knowledge /\ \A q \in Stack : Valid(q, op)
  BY RankedOnce DEF InRank
<1>4. InRank = Feasible
  BY <1>1, <1>2, <1>3 DEF Feasible, InRank
<1> QED
  BY <1>4 DEF RankBest, Optimal

\* The steps that end a run of get_best_operating_point, or start to relax.
LEMMA SolveMemoStep ==
  ASSUME OptInv,
         SolveMemo \/ SolveRank \/ SolveNothing \/ NarrowDone
           \/ \E p \in Priorities : SolveRelax(p) \/ NarrowStep(p)
  PROVE  Memo' /\ (Returns /\ Feasible # {} => best' \in Optimal)
<1>1. Updated => \A p \in Stack : Current(p)
  BY DEF Updated, OptInv, Memo
<1>2. pc = "narrow" => InRank = {} /\ \A p \in Stack : Current(p)
  BY DEF OptInv, Memo
<1>3. (\A p \in Stack : Current(p)) => InRank = Feasible /\ RankBest(InRank) = Optimal
  BY RankIsFeasible DEF OptInv
<1>4. ASSUME UNCHANGED <<problem, rankOps>>
      PROVE  /\ InRank' = InRank /\ Stack' = Stack
             /\ RankBest(InRank)' = RankBest(InRank)
             /\ \A p \in Stack : Current(p)' <=> Current(p)
  <2>1. UNCHANGED <<goalValue, coef, constraints, rankFn, rankOps>>
    BY <1>4 DEF problem
  <2> QED
    BY <2>1 DEF InRank, Stack, RankBest, RankBetter, Current, Adjusted, GoalAtUnit
<1>5. ASSUME NEW result, Return(result),
             ~changed' /\ InRank # {} => result \in RankBest(InRank),
             Feasible # {} => result \in Optimal
      PROVE  Memo' /\ (Returns /\ Feasible # {} => best' \in Optimal)
  BY <1>5, <1>4 DEF Return, Memo
<1>6. CASE SolveMemo
  <2>1. Updated /\ ~changed /\ Return(best) /\ pc = "update"
    BY <1>6 DEF SolveMemo, Updated
  <2>2. InRank # {} => best \in RankBest(InRank)
    BY <2>1 DEF OptInv, Memo
  <2> QED
    BY <2>1, <2>2, <1>1, <1>3, <1>5
<1>7. CASE SolveRank
  BY <1>7, <1>1, <1>3, <1>5 DEF SolveRank
<1>8. CASE SolveNothing
  BY <1>8, <1>1, <1>3, <1>5 DEF SolveNothing
<1>9. CASE NarrowDone
  BY <1>9, <1>2, <1>3, <1>5 DEF NarrowDone
<1>10. ASSUME NEW p \in Priorities, SolveRelax(p)
       PROVE  Memo' /\ ~Returns
  BY <1>10, <1>1, <1>4 DEF SolveRelax, Memo, Returns
<1>11. ASSUME NEW p \in Priorities, NarrowStep(p)
       PROVE  Memo' /\ ~Returns
  BY <1>11, <1>2, <1>4 DEF NarrowStep, Memo, Returns
<1> QED
  BY <1>6, <1>7, <1>8, <1>9, <1>10, <1>11

\* Every step keeps the memo right.
LEMMA NextMemo ==
  OptInv /\ [Next]_vars => OptInv' /\ (Returns /\ Feasible # {} => best' \in Optimal)
<1> SUFFICES ASSUME OptInv, [Next]_vars
             PROVE  OptInv' /\ (Returns /\ Feasible # {} => best' \in Optimal)
  OBVIOUS
<1>1. IInv'
  BY NextConsistent DEF OptInv
<1>2. CASE Calls
  <2>1. ~Returns
    BY <1>2 DEF Calls, Returns, SetGoal, EvaluateError, AddRuntimeKnowledge,
       AddOperatingPoints, RemoveOperatingPoints, SetKnowledgeBase, SetRank,
       RemoveConstraint, GetBest
  <2> QED
    BY <1>1, <1>2, <2>1, CallsMemo DEF OptInv
<1>3. CASE \E p \in Priorities, t \in Templates : SafePriority(p) /\ AddConstraint(p, t)
  <2>1. ~Returns
    BY <1>3 DEF AddConstraint, Returns
  <2> QED
    BY <1>1, <1>3, <2>1, AddConstraintMemo DEF OptInv
<1>4. CASE \E p \in Priorities : UpdateSame(p) \/ UpdateWorse(p) \/ UpdateBetter(p)
  <2>1. ~Returns
    BY <1>4 DEF UpdateSame, UpdateWorse, UpdateBetter, Visits, Returns
  <2> QED
    BY <1>1, <1>4, <2>1, UpdateMemo DEF OptInv
<1>5. CASE SolveMemo \/ SolveRank \/ SolveNothing \/ NarrowDone
             \/ \E p \in Priorities : SolveRelax(p) \/ NarrowStep(p)
  BY <1>1, <1>5, SolveMemoStep DEF OptInv
<1>6. CASE UNCHANGED vars
  <2>1. ~Returns
    BY <1>6 DEF vars, Returns
  <2>2. Memo'
    BY <1>6 DEF OptInv, Memo, vars, problem, InRank, Stack, RankBest, RankBetter,
       Current, Adjusted, GoalAtUnit
  <2> QED
    BY <1>1, <2>1, <2>2 DEF OptInv
<1> QED
  BY <1>2, <1>3, <1>4, <1>5, <1>6 DEF Next, Solver

\* Whenever some Operating Point satisfies all the constraints, the one that
\* get_best_operating_point returns does, and no such point ranks better: for
\* every instance, memo or not, after any history of calls.
THEOREM OptimumReturned == Spec => ReturnsOptimum
<1>1. Init => OptInv
  BY InitType, InitConsistent, InitMemo DEF OptInv, IInv
<1>2. OptInv /\ [Next]_vars => OptInv'
  BY NextMemo
<1>3. OptInv /\ [Next]_vars => [Returns /\ Feasible # {} => best' \in Optimal]_vars
  BY NextMemo
<1> QED
  BY <1>1, <1>2, <1>3, PTL DEF Spec, ReturnsOptimum

-----------------------------------------------------------------------------
(* Relaxation *)

\* m is the least important constraint that blocks something
LeastBlocking(m) == m \in Blocking /\ \A q \in Blocking : q <= m

\* op is one of the closest to the goal of that constraint
Relaxed(op) == \E m \in Priorities : LeastBlocking(m) /\ op \in GetClosest(m)

\* The inductive invariant of the relaxation: what is narrowed was relaxed, and so
\* was the memo of a knowledge without a valid Operating Point.
RelaxMemo ==
  /\ pc = "narrow" => \A op \in candidates : Relaxed(op)
  /\ ~changed /\ pc # "narrow" /\ InRank = {} /\ knowledge # {} => Relaxed(best)

\* What blocks what, and how close, is as it was.
SameBlocked ==
  /\ blocked' = blocked /\ rankOps' = rankOps /\ knowledge' = knowledge /\ Blocking' = Blocking
  /\ \A p \in Blocking : /\ constraints'[p].goal = constraints[p].goal
                         /\ constraints'[p].field = constraints[p].field

\* The relaxed Operating Points then are the same.
LEMMA RelaxedKept ==
  ASSUME SameBlocked, NEW op, Relaxed(op)
  PROVE  Relaxed(op)'
<1>1. PICK m \in Priorities : LeastBlocking(m) /\ op \in GetClosest(m) BY DEF Relaxed
<1>2. LeastBlocking(m)' BY <1>1 DEF SameBlocked, LeastBlocking
<1>3. m \in Blocking BY <1>1 DEF LeastBlocking
<1>4. \A x, y : Closer(m, x, y)' <=> Closer(m, x, y)
  BY <1>3 DEF SameBlocked, Closer, Eval, GoalCheck
<1>5. op \in GetClosest(m)' BY <1>1, <1>4 DEF SameBlocked, GetClosest, Closest
<1> QED BY <1>2, <1>5 DEF Relaxed

\* A step outside of get_best_from_stream that drops the memo or disturbs nothing.
LEMMA MemoStaysRelaxed ==
  ASSUME RelaxMemo, TypeOK, pc # "narrow", pc' # "narrow", best' = best,
         changed' = TRUE \/ (changed = FALSE /\ SameBlocked)
  PROVE  RelaxMemo'
<1>1. CASE changed' = TRUE BY <1>1 DEF RelaxMemo
<1>2. CASE changed = FALSE /\ SameBlocked
  <2> DEFINE b == best
  <2>1. InRank' = InRank /\ knowledge' = knowledge BY <1>2 DEF SameBlocked, InRank
  <2>2. InRank = {} /\ knowledge # {} => Relaxed(b) BY <1>2 DEF RelaxMemo
  <2>3. ASSUME NEW op, op = b, InRank = {}, knowledge # {} PROVE Relaxed(best)'
    <3>1. Relaxed(op) BY <2>2, <2>3
    <3>2. Relaxed(op)' BY <1>2, <3>1, RelaxedKept
    <3> QED BY <2>3, <3>2 DEF Relaxed
  <2> QED BY <2>1, <2>3 DEF RelaxMemo
<1> QED BY <1>1, <1>2

\* The constraints and what they block are left alone.
LEMMA SameIfUnchanged ==
  ASSUME UNCHANGED <<blocked, rankOps, knowledge, constraints>>
  PROVE  SameBlocked
BY DEF SameBlocked, Blocking, Stack

\* The calls between two solutions.
LEMMA CallsRelax ==
  ASSUME OptInv, RelaxMemo, Calls
  PROVE  RelaxMemo'
<1>0. TypeOK /\ Consistent BY DEF OptInv, IInv
<1>1. pc # "narrow" /\ pc' # "narrow" /\ best' = best
  BY DEF Calls, SetGoal, EvaluateError, AddRuntimeKnowledge, AddOperatingPoints,
         RemoveOperatingPoints, SetKnowledgeBase, SetRank, RemoveConstraint, GetBest, solver
<1>2. ASSUME changed' = TRUE \/ (changed = FALSE /\ SameBlocked)
      PROVE  RelaxMemo'
  BY <1>0, <1>1, <1>2, MemoStaysRelaxed
<1>3. changed = TRUE \/ changed = FALSE BY <1>0 DEF TypeOK
<1>4. CASE \/ \E g \in Goals, v \in GoalValues : SetGoal(g, v)
           \/ \E f \in Fields, c \in Coefs : EvaluateError(f, c)
           \/ GetBest
  <2>1. changed' = changed /\ UNCHANGED <<blocked, rankOps, knowledge, constraints>>
    BY <1>4 DEF SetGoal, EvaluateError, GetBest, problem
  <2> QED BY <1>2, <1>3, <2>1, SameIfUnchanged
<1>5. CASE \/ \E f \in Monitored : AddRuntimeKnowledge(f)
           \/ \E S \in Batches : AddOperatingPoints(S)
           \/ \E S \in Batches : RemoveOperatingPoints(S)
           \/ \E S \in Batches : SetKnowledgeBase(S)
  <2>1. changed' = TRUE
    BY <1>5 DEF AddRuntimeKnowledge, AddOperatingPoints, RemoveOperatingPoints, SetKnowledgeBase
  <2> QED BY <1>2, <2>1
<1>6. CASE \E r \in Ranks : SetRank(r)
  <2>1. /\ changed' = (changed \/ InRank # {})
        /\ UNCHANGED <<blocked, rankOps, knowledge, constraints>>
    BY <1>6 DEF SetRank
  <2>2. changed = TRUE => changed' = TRUE BY <2>1
  <2> QED BY <1>2, <1>3, <2>1, <2>2, SameIfUnchanged
<1>7. ASSUME NEW p \in Priorities, RemoveConstraint(p) PROVE RelaxMemo'
  <2>1. /\ changed' = (changed \/ blocked[p] # {}) /\ knowledge' = knowledge /\ p \in Stack
        /\ constraints' = [q \in Stack \ {p} |-> constraints[q]]
        /\ blocked' = [FilterAdd(blocked, blocked[p], Below(p)) EXCEPT ![p] = {}]
        /\ rankOps' = RankAdd(Passes(blocked[p], Below(p)))
    BY <1>7 DEF RemoveConstraint
  <2>2. CASE blocked[p] # {} \/ changed = TRUE
    <3>1. changed' = TRUE BY <2>1, <2>2
    <3> QED BY <1>2, <3>1
  <2>3. CASE blocked[p] = {} /\ changed = FALSE
    <3>1. changed' = FALSE BY <2>1, <2>3
    <3>2. Passes(blocked[p], Below(p)) = {} BY <2>3 DEF Passes
    <3>3. rankOps' = rankOps BY <1>0, <2>1, <3>2, RankSame
    <3>4. blocked' = blocked
      <4>1. blocked \in [Priorities -> SUBSET OPs] BY <1>0 DEF TypeOK
      <4>2. FilterAdd(blocked, blocked[p], Below(p)) = blocked BY <2>3, <4>1 DEF FilterAdd
      <4> QED BY <2>1, <2>3, <4>1, <4>2
    <3>5. Stack' = Stack \ {p} /\ \A q \in Stack \ {p} : constraints'[q] = constraints[q]
      BY <2>1 DEF Stack
    <3>6. Blocking' = Blocking BY <2>3, <3>4, <3>5 DEF Blocking
    <3>7. \A q \in Blocking : q \in Stack \ {p} BY <2>3 DEF Blocking
    <3>8. SameBlocked BY <2>1, <3>3, <3>4, <3>5, <3>6, <3>7 DEF SameBlocked
    <3> QED BY <1>2, <2>3, <3>1, <3>8
  <2> QED BY <1>3, <2>2, <2>3
<1> QED BY <1>4, <1>5, <1>6, <1>7 DEF Calls

\* add_constraint where it blocks nothing.
LEMMA AddConstraintRelax ==
  ASSUME OptInv, RelaxMemo, NEW p \in Priorities, NEW t \in Templates, SafePriority(p),
         AddConstraint(p, t)
  PROVE  RelaxMemo'
<1>0. TypeOK /\ Consistent BY DEF OptInv, IInv
<1> DEFINE fil == Filtered(p, t)
           stopped == {op \in OPs : fil[op] > 0}
           rel == {op \in stopped : \E q \in FirstBelow(p) : op \in blocked[q]}
           copies == [op \in OPs |-> IF op \in rel THEN fil[op] - 1 ELSE fil[op]]
<1>1. \A op \in OPs : fil[op] \in Nat BY AvailableType DEF Filtered, OptInv, IInv
<1>2. /\ changed' = (changed \/ stopped # {}) /\ rankOps' = RankRemove(copies)
      /\ UNCHANGED <<best, pc, knowledge>> /\ pc = "idle"
      /\ constraints' = [q \in Stack \cup {p} |->
                           IF q = p THEN NewConstraint(t) ELSE constraints[q]]
      /\ blocked' = [q \in Priorities |->
                       IF q = p THEN stopped
                       ELSE IF q \in FirstBelow(p) THEN blocked[q] \ stopped
                       ELSE blocked[q]]
  BY DEF AddConstraint, solver
<1>3. stopped = {} => copies = [op \in OPs |-> 0]
  <2> HIDE DEF fil
  <2> QED BY <1>1
<1> HIDE DEF stopped, copies
<1>4. changed = TRUE \/ changed = FALSE BY <1>0 DEF TypeOK
<1>5. CASE stopped # {} \/ changed = TRUE
  <2>1. changed' = TRUE BY <1>2, <1>5
  <2> QED BY <1>0, <1>2, <2>1, MemoStaysRelaxed
<1>6. CASE stopped = {} /\ changed = FALSE
  <2>1. rankOps' = rankOps BY <1>0, <1>2, <1>3, <1>6, RankSame
  <2>2. p \notin Stack /\ blocked[p] = {} BY <1>0 DEF SafePriority, Consistent
  <2>3. blocked' = blocked
    <3>1. blocked \in [Priorities -> SUBSET OPs] BY <1>0 DEF TypeOK
    <3> QED BY <1>2, <1>6, <2>2, <3>1
  <2>4. Stack' = Stack \cup {p} /\ \A q \in Stack : constraints'[q] = constraints[q]
    BY <1>2, <2>2 DEF Stack
  <2>5. Blocking' = Blocking BY <2>2, <2>3, <2>4 DEF Blocking
  <2>6. SameBlocked BY <1>2, <2>1, <2>3, <2>4, <2>5 DEF SameBlocked, Blocking
  <2> QED BY <1>0, <1>2, <1>6, <2>6, MemoStaysRelaxed
<1> QED BY <1>4, <1>5, <1>6

\* An iteration of the update loop.
LEMMA UpdateRelax ==
  ASSUME OptInv, RelaxMemo, NEW p \in Priorities,
         UpdateSame(p) \/ UpdateWorse(p) \/ UpdateBetter(p)
  PROVE  RelaxMemo'
<1>0. TypeOK BY DEF OptInv, IInv
<1>1. /\ pc = "update" /\ pc' = pc /\ best' = best /\ knowledge' = knowledge /\ p \in Stack
      /\ blocked \in [Priorities -> SUBSET OPs] /\ constraints \in [Stack -> Constraint]
  BY <1>0 DEF UpdateSame, UpdateWorse, UpdateBetter, Visits, TypeOK
<1>2. changed = TRUE \/ changed = FALSE BY <1>0 DEF TypeOK
<1>3. ASSUME changed' = TRUE \/ (changed = FALSE /\ SameBlocked)
      PROVE  RelaxMemo'
  BY <1>0, <1>1, <1>3, MemoStaysRelaxed
<1>4. ASSUME constraints' = [constraints EXCEPT ![p].check = Adjusted(p)],
             blocked' = blocked, rankOps' = rankOps
      PROVE  SameBlocked
  <2>1. Stack' = Stack BY <1>1, <1>4 DEF Stack
  <2>2. Blocking' = Blocking BY <1>4, <2>1 DEF Blocking
  <2>3. \A q \in Stack : /\ constraints'[q].goal = constraints[q].goal
                         /\ constraints'[q].field = constraints[q].field
    BY <1>1, <1>4 DEF Constraint
  <2> QED BY <1>1, <1>4, <2>2, <2>3 DEF SameBlocked, Blocking
<1>5. CASE UpdateSame(p)
  <2>1. changed' = changed /\ UNCHANGED <<blocked, rankOps, knowledge, constraints>>
    BY <1>1, <1>5 DEF UpdateSame
  <2> QED BY <1>2, <1>3, <2>1, SameIfUnchanged
<1>6. CASE UpdateWorse(p)
  <2> DEFINE inv == {op \in ViewRange(p, constraints[p].check, Adjusted(p)) :
                       ~GoalCheck(p, Eval(p, op), Adjusted(p))}
             removed == NotBlockedBy(inv, Above(p))
  <2>1. /\ changed' = (changed \/ removed # {})
        /\ rankOps' = RankRemove(Once(NotBlockedBy(removed, Below(p))))
        /\ constraints' = [constraints EXCEPT ![p].check = Adjusted(p)]
        /\ blocked' = [q \in Priorities |->
                         IF q = p THEN blocked[q] \cup removed
                         ELSE {op \in blocked[q] : ~(op \in removed /\ Releases(q, op, Below(p)))}]
    BY <1>6 DEF UpdateWorse
  <2> HIDE DEF removed
  <2>2. CASE removed # {} \/ changed = TRUE
    <3>1. changed' = TRUE BY <2>1, <2>2
    <3> QED BY <1>3, <3>1
  <2>3. CASE removed = {} /\ changed = FALSE
    <3>1. Once(NotBlockedBy(removed, Below(p))) = [op \in OPs |-> 0] BY <2>3 DEF Once, NotBlockedBy
    <3>2. rankOps' = rankOps BY <1>0, <2>1, <3>1, RankSame
    <3>3. blocked' = blocked BY <1>1, <2>1, <2>3
    <3>4. changed' = FALSE BY <2>1, <2>3
    <3> QED BY <1>3, <1>4, <2>1, <2>3, <3>2, <3>3, <3>4
  <2> QED BY <1>2, <2>2, <2>3
<1>7. CASE UpdateBetter(p)
  <2> DEFINE val == {op \in ViewRange(p, constraints[p].check, Adjusted(p)) \cap blocked[p] :
                       GoalCheck(p, Eval(p, op), Adjusted(p))}
  <2>1. /\ changed' = (changed \/ val # {})
        /\ rankOps' = RankAdd(Passes(val, Below(p)))
        /\ constraints' = [constraints EXCEPT ![p].check = Adjusted(p)]
        /\ blocked' = FilterAdd([blocked EXCEPT ![p] = @ \ val], val, Below(p))
    BY <1>7 DEF UpdateBetter
  <2> HIDE DEF val
  <2>2. CASE val # {} \/ changed = TRUE
    <3>1. changed' = TRUE BY <2>1, <2>2
    <3> QED BY <1>3, <3>1
  <2>3. CASE val = {} /\ changed = FALSE
    <3>1. Passes(val, Below(p)) = {} BY <2>3 DEF Passes
    <3>2. rankOps' = rankOps BY <1>0, <2>1, <3>1, RankSame
    <3>3. blocked' = blocked
      <4>1. [blocked EXCEPT ![p] = @ \ val] = blocked BY <1>1, <2>3
      <4> QED BY <1>1, <2>1, <2>3, <4>1 DEF FilterAdd
    <3>4. changed' = FALSE BY <2>1, <2>3
    <3> QED BY <1>3, <1>4, <2>1, <2>3, <3>2, <3>3, <3>4
  <2> QED BY <1>2, <2>2, <2>3
<1> QED BY <1>5, <1>6, <1>7

\* Narrowing only drops candidates.
LEMMA NarrowSubset == \A q, S : Narrow(q, S) \subseteq S
BY DEF Narrow, Closest

\* Without valid Operating Points somebody blocks each of them.
LEMMA AllBlocked ==
  ASSUME IInv, InRank = {}, NEW op \in knowledge
  PROVE  \E r \in Stack : op \in blocked[r]
<1>1. op \in OPs BY DEF IInv, TypeOK
<1>2. rankOps[op] = IF op \in knowledge /\ \A q \in Stack : Valid(q, op) THEN 1 ELSE 0
  BY <1>1, RankedOnce
<1>3. ~(rankOps[op] > 0) BY <1>1 DEF InRank
<1>4. PICK q \in Stack : ~Valid(q, op) BY <1>2, <1>3
<1> QED BY <1>4, BlockedBySome

\* The steps that solve the problem.
LEMMA SolveRelaxStep ==
  ASSUME OptInv, RelaxMemo,
         SolveMemo \/ SolveRank \/ SolveNothing \/ NarrowDone
           \/ \E p \in Priorities : SolveRelax(p) \/ NarrowStep(p)
  PROVE  RelaxMemo'
<1>0. IInv /\ TypeOK BY DEF OptInv, IInv
<1>1. UNCHANGED <<blocked, rankOps, knowledge, constraints>>
  BY DEF SolveMemo, SolveRank, SolveNothing, NarrowDone, SolveRelax, NarrowStep, Return, problem
<1>2. SameBlocked BY <1>1, SameIfUnchanged
<1>3. InRank' = InRank /\ knowledge' = knowledge BY <1>1 DEF InRank
<1>4. ASSUME NEW op, Return(op), InRank = {} /\ knowledge # {} => Relaxed(op)
      PROVE  RelaxMemo'
  <2>1. pc' = "idle" /\ best' = op BY <1>4 DEF Return
  <2>2. InRank = {} /\ knowledge # {} => Relaxed(op)' BY <1>2, <1>4, RelaxedKept
  <2>3. Relaxed(op)' => Relaxed(best)' BY <2>1 DEF Relaxed
  <2> QED BY <1>3, <2>1, <2>2, <2>3 DEF RelaxMemo
<1>5. CASE SolveMemo
  <2>1. ~changed /\ pc = "update" /\ Return(best) BY <1>5 DEF SolveMemo, Updated
  <2> QED BY <1>4, <2>1 DEF RelaxMemo
<1>6. CASE SolveRank
  <2>1. PICK op \in RankBest(InRank) : Return(op) BY <1>6 DEF SolveRank
  <2>2. InRank # {} BY <2>1 DEF RankBest
  <2> QED BY <1>4, <2>1, <2>2
<1>7. CASE SolveNothing
  <2>1. InRank = {} /\ Blocking = {} /\ Return(NoOP) BY <1>7 DEF SolveNothing
  <2>2. knowledge = {}
    <3>1. ASSUME NEW op \in knowledge PROVE FALSE
      <4>1. PICK r \in Stack : op \in blocked[r] BY <1>0, <2>1, AllBlocked
      <4> QED BY <2>1, <4>1 DEF Blocking
    <3> QED BY <3>1
  <2> QED BY <1>4, <2>1, <2>2
<1>8. CASE NarrowDone
  <2>1. pc = "narrow" /\ \E op \in RankBest(candidates) : Return(op) BY <1>8 DEF NarrowDone
  <2>2. PICK op \in candidates : Return(op) BY <2>1 DEF RankBest
  <2>3. Relaxed(op) BY <2>1, <2>2 DEF RelaxMemo
  <2> QED BY <1>4, <2>2, <2>3
<1>9. ASSUME NEW p \in Priorities, SolveRelax(p) PROVE RelaxMemo'
  <2>1. /\ pc' = "narrow" /\ candidates' = GetClosest(p) /\ p \in Blocking
        /\ \A q \in Blocking : q <= p
    BY <1>9 DEF SolveRelax
  <2>2. ASSUME NEW op \in candidates' PROVE Relaxed(op)'
    <3>1. Relaxed(op) BY <2>1, <2>2 DEF Relaxed, LeastBlocking
    <3> QED BY <1>2, <3>1, RelaxedKept
  <2> QED BY <2>1, <2>2 DEF RelaxMemo
<1>10. ASSUME NEW p \in Priorities, NarrowStep(p) PROVE RelaxMemo'
  <2>1. pc = "narrow" /\ pc' = "narrow" /\ candidates' = Narrow(p, candidates)
    BY <1>10 DEF NarrowStep
  <2>2. ASSUME NEW op \in candidates' PROVE Relaxed(op)'
    <3>1. op \in candidates BY <2>1, <2>2, NarrowSubset
    <3>2. Relaxed(op) BY <2>1, <3>1 DEF RelaxMemo
    <3> QED BY <1>2, <3>2, RelaxedKept
  <2> QED BY <2>1, <2>2 DEF RelaxMemo
<1> QED BY <1>5, <1>6, <1>7, <1>8, <1>9, <1>10

\* Every step keeps what is narrowed, or remembered, relaxed.
LEMMA NextRelax == OptInv /\ RelaxMemo /\ [Next]_vars => RelaxMemo'
<1> SUFFICES ASSUME OptInv, RelaxMemo, [Next]_vars PROVE RelaxMemo' OBVIOUS
<1>1. CASE UNCHANGED vars
  <2>1. UNCHANGED <<blocked, rankOps, knowledge, constraints, pc, changed, best, candidates>>
    BY <1>1 DEF vars, problem
  <2>2. SameBlocked /\ InRank' = InRank BY <2>1, SameIfUnchanged DEF InRank
  <2>3. \A op : Relaxed(op) => Relaxed(op)' BY <2>2, RelaxedKept
  <2>4. Relaxed(best)' <=> Relaxed(best) BY <2>1, <2>2, <2>3
    DEF Relaxed, LeastBlocking, SameBlocked, GetClosest, Closest, Closer, Eval, GoalCheck
  <2> QED BY <2>1, <2>2, <2>3, <2>4 DEF RelaxMemo
<1> QED BY <1>1, CallsRelax, AddConstraintRelax, UpdateRelax, SolveRelaxStep DEF Next, Solver

\* What a relaxed Operating Point is to the caller, once the loop has made every
\* constraint current.
LEMMA RelaxedAnswer ==
  ASSUME IInv, \A p \in Stack : Current(p), Feasible = {}, NEW b, Relaxed(b)
  PROVE  /\ b \in knowledge
         /\ \A p \in Stack : FirstViolated(p, b) =>
              \A o \in knowledge :
                \E q \in Above(p) \cup {p} :
                   FirstViolated(q, o) /\ (q = p => ~Closer(p, o, b))
<1>1. \A p \in Stack : \A op : Meets(p, op) <=> Valid(p, op)
  BY DEF Current, Meets, Valid, GoalCheck
<1>2. PICK m \in Priorities : LeastBlocking(m) /\ b \in GetClosest(m) BY DEF Relaxed
<1>3. m \in Stack /\ b \in blocked[m] /\ \A o \in blocked[m] : ~Closer(m, o, b)
  BY <1>2 DEF LeastBlocking, Blocking, GetClosest, Closest
<1>4. /\ knowledge \subseteq OPs /\ (\A p \in Stack : blocked[p] \subseteq OPs)
      /\ \A p \in Stack : p \in Int
  BY PrioritiesAssumption DEF IInv, TypeOK
<1>5. \A q \in Stack, op \in OPs : op \in blocked[q] <=> op \in knowledge /\ Catches(q, op, Stack)
  BY BlockedIffCaught
<1>6. b \in knowledge /\ Catches(m, b, Stack) BY <1>3, <1>4, <1>5
<1>7. \A q \in Stack : \A op : Catches(q, op, Stack) => FirstViolated(q, op)
  BY <1>1 DEF Catches, FirstViolated, Above
<1>8. ASSUME NEW p \in Stack, FirstViolated(p, b) PROVE p = m
  <2>1. FirstViolated(m, b) BY <1>3, <1>6, <1>7
  <2>2. ~(p < m) /\ ~(m < p) BY <1>3, <1>8, <2>1 DEF FirstViolated, Above
  <2> QED BY <1>3, <1>4, <2>2
<1>9. ASSUME NEW o \in knowledge
      PROVE  \E q \in Above(m) \cup {m} : FirstViolated(q, o) /\ (q = m => ~Closer(m, o, b))
  <2>1. InRank = {} BY RankIsFeasible
  <2>2. PICK r \in Stack : o \in blocked[r] BY <2>1, AllBlocked
  <2>3. r <= m BY <1>2, <2>2 DEF LeastBlocking, Blocking
  <2>4. r \in Above(m) \cup {m} BY <1>3, <1>4, <2>3 DEF Above
  <2>5. FirstViolated(r, o) BY <1>4, <1>5, <1>7, <2>2
  <2>6. r = m => ~Closer(m, o, b) BY <1>3, <2>2
  <2> QED BY <2>4, <2>5, <2>6
<1> QED BY <1>6, <1>8, <1>9

\* When no Operating Point is valid, the one returned gives up the least important
\* constraints first and is as close to the first one it violates as any other,
\* whether it was found now or remembered.
THEOREM RelaxationIsOrdered == Spec => RelaxesLeastImportantFirst
<1> DEFINE Answered == Returns /\ Feasible = {} /\ knowledge # {} =>
                         /\ best' \in knowledge
                         /\ \A p \in Stack : FirstViolated(p, best') =>
                              \A o \in knowledge :
                                \E q \in Above(p) \cup {p} :
                                   FirstViolated(q, o) /\ (q = p => ~Closer(p, o, best'))
<1>1. Init => OptInv /\ RelaxMemo
  <2>1. Init => OptInv BY InitType, InitConsistent, InitMemo DEF OptInv, IInv
  <2>2. Init => RelaxMemo BY DEF Init, RelaxMemo
  <2> QED BY <2>1, <2>2
<1>2. OptInv /\ RelaxMemo /\ [Next]_vars => (OptInv /\ RelaxMemo)' BY NextMemo, NextRelax
<1>3. ASSUME OptInv, RelaxMemo, [Next]_vars PROVE Answered
  <2> SUFFICES ASSUME Returns, Feasible = {}, knowledge # {} PROVE
                 /\ best' \in knowledge
                 /\ \A p \in Stack : FirstViolated(p, best') =>
                      \A o \in knowledge :
                        \E q \in Above(p) \cup {p} :
                           FirstViolated(q, o) /\ (q = p => ~Closer(p, o, best'))
    OBVIOUS
  <2>1. SolveMemo \/ SolveRank \/ SolveNothing \/ NarrowDone
    <3>1. ~Calls
      BY <1>3 DEF Calls, Returns, SetGoal, EvaluateError, AddRuntimeKnowledge, AddOperatingPoints,
         RemoveOperatingPoints, SetKnowledgeBase, SetRank, RemoveConstraint, GetBest
    <3>2. ~\E p \in Priorities, t \in Templates : SafePriority(p) /\ AddConstraint(p, t)
      BY DEF AddConstraint, Returns
    <3>3. ~\E p \in Priorities : UpdateSame(p) \/ UpdateWorse(p) \/ UpdateBetter(p)
      BY DEF UpdateSame, UpdateWorse, UpdateBetter, Visits, Returns
    <3>4. ~\E p \in Priorities : SolveRelax(p) \/ NarrowStep(p)
      BY DEF SolveRelax, NarrowStep, Returns
    <3>5. ~UNCHANGED vars BY DEF vars, Returns
    <3> QED BY <1>3, <3>1, <3>2, <3>3, <3>4, <3>5 DEF Next, Solver
  <2>2. \A p \in Stack : Current(p)
    BY <1>3, <2>1 DEF OptInv, Memo, SolveMemo, SolveRank, SolveNothing, NarrowDone, Updated
  <2>3. IInv /\ InRank = {} BY <1>3, <2>2, RankIsFeasible DEF OptInv
  <2>4. Relaxed(best')
    <3>1. CASE SolveMemo
      <4>1. ~changed /\ pc = "update" /\ best' = best BY <3>1 DEF SolveMemo, Updated, Return
      <4> QED BY <1>3, <2>3, <4>1 DEF RelaxMemo
    <3>2. CASE SolveRank BY <2>3, <3>2 DEF SolveRank, RankBest
    <3>3. CASE SolveNothing
      <4>1. Blocking = {} BY <3>3 DEF SolveNothing
      <4>2. PICK op \in knowledge : TRUE OBVIOUS
      <4>3. PICK r \in Stack : op \in blocked[r] BY <2>3, AllBlocked
      <4> QED BY <4>1, <4>3 DEF Blocking
    <3>4. CASE NarrowDone
      <4>1. pc = "narrow" /\ best' \in candidates BY <3>4 DEF NarrowDone, Return, RankBest
      <4> QED BY <1>3, <4>1 DEF RelaxMemo
    <3> QED BY <2>1, <3>1, <3>2, <3>3, <3>4
  <2> DEFINE b == best'
  <2> HIDE DEF b
  <2>5. /\ b \in knowledge
        /\ \A p \in Stack : FirstViolated(p, b) =>
             \A o \in knowledge :
               \E q \in Above(p) \cup {p} : FirstViolated(q, o) /\ (q = p => ~Closer(p, o, b))
    BY <2>2, <2>3, <2>4, RelaxedAnswer DEF b
  <2> QED BY <2>5 DEF b
<1>4. OptInv /\ RelaxMemo /\ [Next]_vars => [Answered]_vars BY <1>3
<1> QED BY <1>1, <1>2, <1>4, PTL DEF Spec, RelaxesLeastImportantFirst


-----------------------------------------------------------------------------
(* The lexicographic optimum *)

\* The candidates C of get_best_from_stream while the constraints T are not visited
\* yet: no Operating Point beats one of them on a visited constraint, who ties with
\* one of them on all of these is a candidate as well, and the visited constraints
\* are the most important ones.
Unbeaten(C, T) ==
  \A x \in C, y \in knowledge :
    \A p \in Stack \ T : ~(Prefers(p, y, x) /\ \A q \in Above(p) : Equal(q, y, x))
TiesAreIn(C, T) ==
  \A x \in C, y \in knowledge : (\A p \in Stack \ T : Equal(p, y, x)) => y \in C
InStackOrder(C, T) ==
  /\ C \subseteq knowledge /\ T \subseteq Stack
  /\ \A p \in T, q \in Stack \ T : q < p

Narrowed(C, T) == Unbeaten(C, T) /\ TiesAreIn(C, T) /\ InStackOrder(C, T)

\* The inductive invariant of the loop of get_best_from_stream.
Narrowing == pc = "narrow" => Narrowed(candidates, todo)

\* Comparing with the goal of a constraint is a linear order.
LEMMA CompareOrder ==
  ASSUME NEW cf \in Comparisons, NEW x \in Int, NEW y \in Int
  PROVE  x # y => Compare(cf, x, y) \/ Compare(cf, y, x)
BY DEF Comparisons, Compare

\* What it means that a constraint does not tell two Operating Points apart.
LEMMA EqualMeans ==
  ASSUME IInv, NEW p \in Stack, NEW x \in OPs, NEW y \in OPs, Equal(p, y, x)
  PROVE  /\ Meets(p, x) <=> Meets(p, y)
         /\ ~Meets(p, x) => Eval(p, x) = Eval(p, y)
<1>1. Meets(p, x) <=> Meets(p, y) BY DEF Equal, Prefers
<1>2. ASSUME ~Meets(p, x) PROVE Eval(p, x) = Eval(p, y)
  <2>1. ~Closer(p, x, y) /\ ~Closer(p, y, x) BY <1>1, <1>2 DEF Equal, Prefers
  <2>2. constraints[p] \in Constraint BY DEF IInv, TypeOK
  <2>3. Eval(p, x) \in Int /\ Eval(p, y) \in Int
    BY <2>2, ValuesAssumption DEF Eval, Constraint
  <2>4. Cmp[constraints[p].goal] \in Comparisons BY <2>2, GoalsAssumption DEF Constraint
  <2>5. ASSUME Eval(p, x) # Eval(p, y) PROVE FALSE
    <3>1. Compare(Cmp[constraints[p].goal], Eval(p, x), Eval(p, y))
            \/ Compare(Cmp[constraints[p].goal], Eval(p, y), Eval(p, x))
      BY <2>3, <2>4, <2>5, CompareOrder
    <3> QED BY <2>1, <2>5, <3>1 DEF Closer, GoalCheck
  <2> QED BY <2>5
<1> QED BY <1>1, <1>2

\* Where the value is the same, one is as close as the other.
LEMMA EquallyClose ==
  ASSUME NEW p, NEW x, NEW y, NEW S, Eval(p, x) = Eval(p, y), x \in Closest(p, S), y \in S
  PROVE  y \in Closest(p, S)
BY DEF Closest, Closer

\* The closest ones of the least important constraint that blocks something.
LEMMA RelaxNarrowed ==
  ASSUME IInv, \A p \in Stack : Current(p), InRank = {}, NEW m, LeastBlocking(m)
  PROVE  Narrowed(GetClosest(m), Below(m))
<1>1. \A p \in Stack : \A op : Meets(p, op) <=> Valid(p, op)
  BY DEF Current, Meets, Valid, GoalCheck
<1>2. /\ m \in Stack /\ knowledge \subseteq OPs /\ (\A p \in Stack : blocked[p] \subseteq OPs)
      /\ \A p \in Stack : p \in Int
  BY PrioritiesAssumption DEF IInv, TypeOK, LeastBlocking, Blocking
<1>3. \A q \in Stack, op \in OPs : op \in blocked[q] <=> op \in knowledge /\ Catches(q, op, Stack)
  BY BlockedIffCaught
<1>4. ASSUME NEW x \in GetClosest(m)
      PROVE  /\ x \in knowledge /\ ~Meets(m, x) /\ (\A q \in Above(m) : Meets(q, x))
             /\ \A o \in blocked[m] : ~Closer(m, o, x)
  <2>1. x \in blocked[m] /\ \A o \in blocked[m] : ~Closer(m, o, x) BY DEF GetClosest, Closest
  <2>2. x \in knowledge /\ Catches(m, x, Stack) BY <1>2, <1>3, <2>1
  <2> QED BY <1>1, <1>2, <2>1, <2>2 DEF Catches, Above
<1>5. ASSUME NEW x \in GetClosest(m), NEW y \in knowledge, \A q \in Above(m) : Equal(q, y, x)
      PROVE  y \in blocked[m] /\ ~Meets(m, y)
  <2>1. PICK r \in Stack : y \in blocked[r] BY AllBlocked
  <2>2. Catches(r, y, Stack) BY <1>2, <1>3, <2>1
  <2>3. ~Meets(r, y) BY <1>1, <2>2 DEF Catches
  <2>4. r <= m BY <2>1 DEF LeastBlocking, Blocking
  <2>5. \A q \in Above(m) : Meets(q, y)
    <3>1. SUFFICES ASSUME NEW q \in Above(m) PROVE Meets(q, y) OBVIOUS
    <3>2. q \in Stack /\ Equal(q, y, x) /\ Meets(q, x) BY <1>4, <1>5 DEF Above
    <3> QED BY <1>2, <1>4, <3>2, EqualMeans
  <2>6. r \notin Above(m) BY <2>3, <2>5
  <2>7. r = m BY <1>2, <2>4, <2>6 DEF Above
  <2> QED BY <2>1, <2>3, <2>7
<1>6. \A p \in Stack \ Below(m) : p \in Above(m) \/ p = m BY <1>2 DEF Above, Below
<1>7. Unbeaten(GetClosest(m), Below(m))
  <2>1. SUFFICES ASSUME NEW x \in GetClosest(m), NEW y \in knowledge, NEW p \in Stack \ Below(m),
                        Prefers(p, y, x), \A q \in Above(p) : Equal(q, y, x)
                 PROVE  FALSE
    BY DEF Unbeaten
  <2>2. p = m BY <1>4, <1>6, <2>1 DEF Prefers
  <2>3. y \in blocked[m] /\ ~Meets(m, y) BY <1>5, <2>1, <2>2
  <2> QED BY <1>4, <2>1, <2>2, <2>3 DEF Prefers
<1>8. TiesAreIn(GetClosest(m), Below(m))
  <2>1. SUFFICES ASSUME NEW x \in GetClosest(m), NEW y \in knowledge,
                        \A p \in Stack \ Below(m) : Equal(p, y, x)
                 PROVE  y \in GetClosest(m)
    BY DEF TiesAreIn
  <2>2. Equal(m, y, x) /\ \A q \in Above(m) : Equal(q, y, x)
    BY <1>2, <2>1 DEF Above, Below
  <2>3. y \in blocked[m] /\ ~Meets(m, y) BY <1>5, <2>2
  <2>4. Eval(m, x) = Eval(m, y) BY <1>2, <1>4, <2>2, EqualMeans
  <2> QED BY <2>3, <2>4, EquallyClose DEF GetClosest
<1>9. InStackOrder(GetClosest(m), Below(m))
  BY <1>2, <1>4 DEF InStackOrder, Below
<1> QED BY <1>7, <1>8, <1>9 DEF Narrowed

\* Constraint::narrow by the most important constraint that is left.
LEMMA StepNarrowed ==
  ASSUME IInv, \A p \in Stack : Current(p), NEW C, NEW T, Narrowed(C, T),
         NEW q \in T, \A r \in T : q <= r
  PROVE  Narrowed(Narrow(q, C), T \ {q})
<1>1. \A p \in Stack : \A op : Meets(p, op) <=> Valid(p, op)
  BY DEF Current, Meets, Valid, GoalCheck
<1>2. /\ q \in Stack /\ T \subseteq Stack /\ C \subseteq knowledge /\ knowledge \subseteq OPs
      /\ (\A p \in Stack : p \in Int) /\ \A p \in T, r \in Stack \ T : r < p
  BY PrioritiesAssumption DEF IInv, TypeOK, Narrowed, InStackOrder
<1>3. Above(q) = Stack \ T
  <2>1. \A r \in Stack \ T : r \in Above(q) BY <1>2 DEF Above
  <2>2. \A r \in Above(q) : r \in Stack /\ r \notin T BY <1>2 DEF Above
  <2> QED BY <2>1, <2>2
<1>4. ASSUME NEW x \in Narrow(q, C)
      PROVE  /\ x \in C /\ x \in OPs
             /\ Meets(q, x) \/ (x \in Closest(q, C) /\ \A o \in C : ~Meets(q, o))
  BY <1>1, <1>2 DEF Narrow, Closest
<1>5. \A p \in Stack \ (T \ {q}) : p \in Stack \ T \/ p = q OBVIOUS
<1>6. Unbeaten(Narrow(q, C), T \ {q})
  <2>1. SUFFICES ASSUME NEW x \in Narrow(q, C), NEW y \in knowledge, NEW p \in Stack \ (T \ {q}),
                        Prefers(p, y, x), \A r \in Above(p) : Equal(r, y, x)
                 PROVE  FALSE
    BY DEF Unbeaten
  <2>2. p = q BY <1>4, <1>5, <2>1 DEF Narrowed, Unbeaten
  <2>3. y \in C BY <1>3, <1>4, <2>1, <2>2 DEF Narrowed, TiesAreIn
  <2> QED BY <1>4, <2>1, <2>2, <2>3 DEF Prefers, Closest
<1>7. TiesAreIn(Narrow(q, C), T \ {q})
  <2>1. SUFFICES ASSUME NEW x \in Narrow(q, C), NEW y \in knowledge,
                        \A p \in Stack \ (T \ {q}) : Equal(p, y, x)
                 PROVE  y \in Narrow(q, C)
    BY DEF TiesAreIn
  <2>2. y \in C /\ y \in OPs BY <1>2, <1>4, <2>1 DEF Narrowed, TiesAreIn
  <2>3. Equal(q, y, x) BY <1>2, <2>1
  <2>4. /\ Meets(q, x) <=> Meets(q, y)
        /\ ~Meets(q, x) => Eval(q, x) = Eval(q, y)
    BY <1>2, <1>4, <2>2, <2>3, EqualMeans
  <2>5. CASE Meets(q, x)
    <3>1. Valid(q, y) BY <1>1, <1>2, <2>4, <2>5
    <3> QED BY <2>2, <3>1 DEF Narrow
  <2>6. CASE ~Meets(q, x)
    <3>1. x \in Closest(q, C) /\ \A o \in C : ~Valid(q, o) BY <1>1, <1>2, <1>4, <2>6
    <3>2. y \in Closest(q, C) BY <2>2, <2>4, <2>6, <3>1, EquallyClose
    <3> QED BY <3>1, <3>2 DEF Narrow
  <2> QED BY <2>5, <2>6
<1>8. InStackOrder(Narrow(q, C), T \ {q})
  <2>1. \A p \in T \ {q}, r \in Stack \ (T \ {q}) : r < p BY <1>2
  <2> QED BY <1>2, <1>4, <2>1 DEF InStackOrder
<1> QED BY <1>6, <1>7, <1>8 DEF Narrowed

\* What the rank chooses among the last candidates.
LEMMA ChosenIsBest ==
  ASSUME IInv, NEW C, NEW T, Narrowed(C, T), Single(C) \/ T = {}, NEW a \in RankBest(C)
  PROVE  a \in BestPoints
<1>1. /\ a \in C /\ C \subseteq knowledge /\ T \subseteq Stack
      /\ \A p \in T, q \in Stack \ T : q < p
  BY DEF Narrowed, InStackOrder, RankBest
<1>2. SUFFICES ASSUME NEW b \in knowledge, BetterPoint(b, a) PROVE FALSE
  BY <1>1 DEF BestPoints
<1>3. CASE RankBetter(rankFn, b, a) /\ \A p \in Stack : Equal(p, b, a)
  <2>1. b \in C BY <1>1, <1>3 DEF Narrowed, TiesAreIn
  <2> QED BY <1>3, <2>1 DEF RankBest
<1>4. ASSUME NEW p \in Stack, Prefers(p, b, a), \A q \in Above(p) : Equal(q, b, a)
      PROVE  FALSE
  <2>1. CASE p \notin T BY <1>1, <1>4, <2>1 DEF Narrowed, Unbeaten
  <2>2. CASE p \in T
    <3>1. \A q \in Stack \ T : q \in Above(p) BY <1>1, <2>2 DEF Above
    <3>2. b \in C BY <1>1, <1>4, <3>1 DEF Narrowed, TiesAreIn
    <3>3. b = a BY <1>1, <2>2, <3>2 DEF Single
    <3> QED BY <1>4, <3>3 DEF Prefers, Closer
  <2> QED BY <2>1, <2>2
<1> QED BY <1>2, <1>3, <1>4 DEF BetterPoint

\* A step that leaves the problem alone.
LEMMA NarrowingKept ==
  ASSUME UNCHANGED problem, NEW C, NEW T, Narrowed(C, T), candidates' = C, todo' = T
  PROVE  Narrowing'
<1>1. knowledge' = knowledge /\ Stack' = Stack /\ (\A p : Above(p)' = Above(p))
  BY DEF problem, Stack, Above
<1>2. \A p, x : Meets(p, x)' <=> Meets(p, x)
  BY DEF problem, Meets, GoalCheck, Eval, Adjusted, GoalAtUnit
<1>3. \A p, x, y : Closer(p, x, y)' <=> Closer(p, x, y)
  BY DEF problem, Closer, GoalCheck, Eval
<1>4. \A p, x, y : Prefers(p, x, y)' <=> Prefers(p, x, y) BY <1>2, <1>3 DEF Prefers
<1>5. \A p, x, y : Equal(p, x, y)' <=> Equal(p, x, y) BY <1>4 DEF Equal
<1>6. Unbeaten(C, T)' BY <1>1, <1>4, <1>5 DEF Narrowed, Unbeaten
<1>7. TiesAreIn(C, T)' BY <1>1, <1>5 DEF Narrowed, TiesAreIn
<1>8. InStackOrder(C, T)' BY <1>1 DEF Narrowed, InStackOrder
<1>9. Narrowed(C, T)' BY <1>6, <1>7, <1>8 DEF Narrowed
<1> QED BY <1>9 DEF Narrowing, Narrowed, Unbeaten, TiesAreIn, InStackOrder

\* Every step keeps the candidates narrowed.
LEMMA NextNarrowing == OptInv /\ Narrowing /\ [Next]_vars => Narrowing'
<1> SUFFICES ASSUME OptInv, Narrowing, [Next]_vars PROVE Narrowing' OBVIOUS
<1>1. CASE UNCHANGED vars
  <2>1. UNCHANGED problem /\ candidates' = candidates /\ todo' = todo /\ pc' = pc
    BY <1>1 DEF vars
  <2>2. CASE pc = "narrow" BY <2>1, <2>2, NarrowingKept DEF Narrowing
  <2> QED BY <2>1, <2>2 DEF Narrowing
<1>2. ASSUME NEW p \in Priorities, SolveRelax(p) PROVE Narrowing'
  <2>1. /\ pc = "update" /\ todo = {} /\ InRank = {} /\ LeastBlocking(p)
        /\ UNCHANGED problem /\ candidates' = GetClosest(p) /\ todo' = Below(p)
    BY <1>2 DEF SolveRelax, Updated, LeastBlocking
  <2>2. IInv /\ \A q \in Stack : Current(q) BY <2>1 DEF OptInv, Memo
  <2>3. Narrowed(GetClosest(p), Below(p)) BY <2>1, <2>2, RelaxNarrowed
  <2> DEFINE C == GetClosest(p)
             T == Below(p)
  <2> HIDE DEF C, T
  <2>4. Narrowed(C, T) /\ candidates' = C /\ todo' = T BY <2>1, <2>3 DEF C, T
  <2> QED BY <2>1, <2>4, NarrowingKept
<1>3. ASSUME NEW p \in Priorities, NarrowStep(p) PROVE Narrowing'
  <2>1. /\ pc = "narrow" /\ p \in todo /\ (\A r \in todo : p <= r)
        /\ UNCHANGED problem /\ candidates' = Narrow(p, candidates) /\ todo' = todo \ {p}
    BY <1>3 DEF NarrowStep
  <2>2. IInv /\ \A q \in Stack : Current(q) BY <2>1 DEF OptInv, Memo
  <2>3. Narrowed(Narrow(p, candidates), todo \ {p}) BY <2>1, <2>2, StepNarrowed DEF Narrowing
  <2> DEFINE C == Narrow(p, candidates)
             T == todo \ {p}
  <2> HIDE DEF C, T
  <2>4. Narrowed(C, T) /\ candidates' = C /\ todo' = T BY <2>1, <2>3 DEF C, T
  <2> QED BY <2>1, <2>4, NarrowingKept
<1>4. ASSUME pc' # "narrow" PROVE Narrowing' BY <1>4 DEF Narrowing
<1>5. CASE Calls
  BY <1>4, <1>5 DEF Calls, SetGoal, EvaluateError, AddRuntimeKnowledge, AddOperatingPoints,
     RemoveOperatingPoints, SetKnowledgeBase, SetRank, RemoveConstraint, GetBest, solver
<1>6. CASE \E p \in Priorities, t \in Templates : SafePriority(p) /\ AddConstraint(p, t)
  BY <1>4, <1>6 DEF AddConstraint, solver
<1>7. CASE \E p \in Priorities : UpdateSame(p) \/ UpdateWorse(p) \/ UpdateBetter(p)
  BY <1>4, <1>7 DEF UpdateSame, UpdateWorse, UpdateBetter, Visits
<1>8. CASE SolveMemo \/ SolveRank \/ SolveNothing \/ NarrowDone
  BY <1>4, <1>8 DEF SolveMemo, SolveRank, SolveNothing, NarrowDone, Return
<1> QED BY <1>1, <1>2, <1>3, <1>5, <1>6, <1>7, <1>8 DEF Next, Solver

\* Relaxing finds the lexicographic optimum: no Operating Point of the knowledge
\* beats the one get_best_from_stream returns on the most important constraint that
\* tells them apart, nor on the rank when no constraint does.
THEOREM RelaxationIsOptimal == Spec => RelaxationIsLexicographic
<1> DEFINE Answered == pc = "narrow" /\ Returns => best' \in BestPoints
<1>1. Init => OptInv /\ Narrowing
  <2>1. Init => OptInv BY InitType, InitConsistent, InitMemo DEF OptInv, IInv
  <2>2. Init => Narrowing BY DEF Init, Narrowing
  <2> QED BY <2>1, <2>2
<1>2. OptInv /\ Narrowing /\ [Next]_vars => (OptInv /\ Narrowing)' BY NextMemo, NextNarrowing
<1>3. ASSUME OptInv, Narrowing, [Next]_vars PROVE [Answered]_vars
  <2> SUFFICES ASSUME pc = "narrow", Returns PROVE best' \in BestPoints OBVIOUS
  <2>1. ~Calls
    BY DEF Calls, SetGoal, EvaluateError, AddRuntimeKnowledge, AddOperatingPoints,
       RemoveOperatingPoints, SetKnowledgeBase, SetRank, RemoveConstraint, GetBest
  <2>2. ~\E p \in Priorities, t \in Templates : SafePriority(p) /\ AddConstraint(p, t)
    BY DEF AddConstraint
  <2>3. ~\E p \in Priorities : UpdateSame(p) \/ UpdateWorse(p) \/ UpdateBetter(p)
    BY DEF UpdateSame, UpdateWorse, UpdateBetter, Visits
  <2>4. ~\E p \in Priorities : SolveRelax(p) \/ NarrowStep(p)
    BY DEF SolveRelax, NarrowStep, Updated, Returns
  <2>5. ~(SolveMemo \/ SolveRank \/ SolveNothing)
    BY DEF SolveMemo, SolveRank, SolveNothing, Updated
  <2>6. ~UNCHANGED vars BY DEF vars, Returns
  <2>7. NarrowDone BY <1>3, <2>1, <2>2, <2>3, <2>4, <2>5, <2>6 DEF Next, Solver
  <2>8. PICK a \in RankBest(candidates) : best' = a BY <2>7 DEF NarrowDone, Return
  <2>9. Narrowed(candidates, todo) /\ (Single(candidates) \/ todo = {}) /\ IInv
    BY <1>3, <2>7 DEF NarrowDone, Narrowing, OptInv
  <2>10. a \in BestPoints BY <2>8, <2>9, ChosenIsBest
  <2> QED BY <2>8, <2>10
<1> QED BY <1>1, <1>2, <1>3, PTL DEF Spec, RelaxationIsLexicographic
=============================================================================
