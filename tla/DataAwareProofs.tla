-------------------------- MODULE DataAwareProofs ---------------------------
(***************************************************************************)
(* The application process for every set of configurations, states, keys   *)
(* and inputs, any number of coordinates of a feature and any number of    *)
(* messages and calls.                                                     *)
(*                                                                         *)
(* First the tournament of select_feature_cluster, by induction on the     *)
(* clusters it has looked at: it ends with a cluster that none serves      *)
(* better.  Then what each method of Asrtm does to a cluster, and what     *)
(* each step does to the clusters.  On these rest four invariants, each    *)
(* inductive given the first:                                              *)
(*   ShapeInv   the types, the states and the problem of the clusters,     *)
(*   PointsInv  where an Operating Point is that a call dereferences,      *)
(*   FedInv     what is in the knobs and in the monitors,                  *)
(*   ServedInv  which cluster serves the input.                            *)
(***************************************************************************)
EXTENDS DataAware, SequenceTheorems, WellFoundedInduction, TLAPS

\* The least-number principle, for a set: a set of numbers that holds 1 and the
\* successor of each of its elements below n holds them all.
LEMMA UpTo ==
  ASSUME NEW n \in Nat \ {0}, NEW T, 1 \in T, \A i \in 1 .. n - 1 : i \in T => i + 1 \in T
  PROVE  1 .. n \subseteq T
<1> DEFINE Rest == (1 .. n) \ T
<1> SUFFICES ASSUME Rest # {} PROVE FALSE OBVIOUS
<1>1. Rest \subseteq Nat OBVIOUS
<1>2. PICK u \in Rest : \A w \in Rest : u <= w
  <2> HIDE DEF Rest
  <2>1. \E u \in Rest : \A w \in Rest : <<w, u>> \notin OpToRel(<, Nat)
    BY <1>1, NatLessThanWellFounded, WFMin, Zenon
  <2>2. \E u \in Rest : \A w \in Rest : w \in Nat /\ u \in Nat => ~(w < u)
    BY <2>1, Zenon DEF OpToRel
  <2> QED BY <1>1, <2>2
<1>3. u # 1 OBVIOUS
<1>4. u - 1 \in 1 .. n - 1 /\ u - 1 \in T BY <1>2, <1>3
<1> QED BY <1>2, <1>4

\* A function defined by recursion over 1 .. n: step gives the value at i from the
\* value at i - 1.
Unfolds(f, m, base, step) ==
  \A i \in 1 .. m : f[i] = IF i = 1 THEN base ELSE step[<<i, f[i - 1]>>]

\* Such a function exists.
LEMMA Recursion ==
  ASSUME NEW n \in Nat \ {0}, NEW S, NEW base \in S, NEW step \in [(1 .. n) \X S -> S]
  PROVE  \E f \in [1 .. n -> S] : Unfolds(f, n, base, step)
<1> DEFINE T == {m \in 1 .. n : \E f \in [1 .. m -> S] : Unfolds(f, m, base, step)}
<1>1. 1 \in T
  <2>1. [i \in 1 .. 1 |-> base] \in [1 .. 1 -> S] OBVIOUS
  <2>2. Unfolds([i \in 1 .. 1 |-> base], 1, base, step) BY DEF Unfolds
  <2> QED BY <2>1, <2>2
<1>2. ASSUME NEW m \in 1 .. n - 1, m \in T PROVE m + 1 \in T
  <2>1. PICK f \in [1 .. m -> S] : Unfolds(f, m, base, step) BY <1>2
  <2> DEFINE g == [i \in 1 .. m + 1 |-> IF i = m + 1 THEN step[<<m + 1, f[m]>>] ELSE f[i]]
  <2>2. g \in [1 .. m + 1 -> S]
    <3>1. <<m + 1, f[m]>> \in (1 .. n) \X S OBVIOUS
    <3> QED BY <3>1
  <2>3. \A i \in 1 .. m : g[i] = f[i] OBVIOUS
  <2>4. g[m + 1] = step[<<m + 1, g[m]>>]
    <3>1. g[m] = f[m] BY <2>3
    <3>2. g[m + 1] = step[<<m + 1, f[m]>>] OBVIOUS
    <3> HIDE DEF g
    <3> QED BY <3>1, <3>2
  <2> HIDE DEF g
  <2>5. Unfolds(g, m + 1, base, step)
    <3> SUFFICES ASSUME NEW i \in 1 .. m + 1
                 PROVE  g[i] = IF i = 1 THEN base ELSE step[<<i, g[i - 1]>>]
      BY DEF Unfolds
    <3>1. CASE i = m + 1 BY <2>4, <3>1
    <3>2. CASE i # m + 1
      <4>1. i \in 1 .. m /\ f[i] = IF i = 1 THEN base ELSE step[<<i, f[i - 1]>>]
        BY <2>1, <3>2 DEF Unfolds
      <4>2. i # 1 => i - 1 \in 1 .. m BY <4>1
      <4>3. g[i] = f[i] BY <2>3, <4>1
      <4>4. i # 1 => g[i - 1] = f[i - 1] BY <2>3, <4>2
      <4> QED BY <4>1, <4>3, <4>4
    <3> QED BY <3>1, <3>2
  <2> QED BY <2>2, <2>5
<1>3. n \in T
  <2> HIDE DEF T
  <2>1. 1 .. n \subseteq T BY <1>1, <1>2, UpTo
  <2> QED BY <2>1
<1> QED BY <1>3

\* data_features_distance is a sum over the coordinates, so a whole number here.
LEMMA DistanceType ==
  ASSUME NEW origin \in Features, NEW target \in Features
  PROVE  Distance(origin, target) \in Int
<1> DEFINE n == Len(Comparisons)
           sq(i) == Square(origin, target, i)
           step == [p \in (1 .. n) \X Int |-> sq(p[1]) + p[2]]
<1>1. n \in Nat \ {0} /\ Len(origin) = n
  BY FeaturesAssumption, LenProperties, EmptySeq, IsASeq DEF Features
<1>2. \A i \in 1 .. n : sq(i) \in Int BY DEF Features, Square
<1> HIDE DEF n, sq
<1>3. step \in [(1 .. n) \X Int -> Int] BY <1>2
<1>4. \A i \in 2 .. n, v \in Int : step[<<i, v>>] = sq(i) + v BY <1>2
<1> HIDE DEF step
<1>5. \E f : f = [i \in 1 .. n |-> IF i = 1 THEN sq(1) ELSE sq(i) + f[i - 1]]
  <2>1. PICK f \in [1 .. n -> Int] : Unfolds(f, n, sq(1), step)
    <3>1. sq(1) \in Int BY <1>1, <1>2
    <3> QED BY <1>1, <1>3, <3>1, Recursion
  <2>2. ASSUME NEW i \in 1 .. n PROVE f[i] = IF i = 1 THEN sq(1) ELSE sq(i) + f[i - 1]
    <3>1. f[i] = IF i = 1 THEN sq(1) ELSE step[<<i, f[i - 1]>>] BY <2>1 DEF Unfolds
    <3>2. i # 1 => i \in 2 .. n /\ f[i - 1] \in Int BY <1>1
    <3> QED BY <1>4, <3>1, <3>2
  <2> QED BY <2>2
<1> DEFINE sum == CHOOSE f : f = [i \in 1 .. n |-> IF i = 1 THEN sq(1) ELSE sq(i) + f[i - 1]]
<1>6. sum = [i \in 1 .. n |-> IF i = 1 THEN sq(1) ELSE sq(i) + sum[i - 1]]
  BY <1>5, Zenon
<1>7. Distance(origin, target) = sum[n]
  BY <1>1 DEF Distance, sq
<1> HIDE DEF sum
<1>8. sum[n] \in Int
  <2> DEFINE T == {i \in 1 .. n : sum[i] \in Int}
  <2>1. 1 \in T BY <1>1, <1>2, <1>6
  <2>2. ASSUME NEW m \in 1 .. n - 1, m \in T PROVE m + 1 \in T
    <3>1. m + 1 \in 1 .. n /\ m + 1 # 1 BY <1>1, <2>2
    <3>2. sum[m + 1] = sq(m + 1) + sum[m] BY <1>1, <1>6, <3>1
    <3> QED BY <1>2, <2>2, <3>1, <3>2
  <2>3. 1 .. n \subseteq T
    <3> HIDE DEF T
    <3> QED BY <1>1, <2>1, <2>2, UpTo
  <2> QED BY <1>1, <2>3
<1> QED BY <1>7, <1>8

\* The loop of select_feature_cluster: the best cluster so far, by the number of
\* clusters it has looked at.
Contest(kd, f, keys, best) ==
  /\ best \in [1 .. Len(keys) -> 1 .. Len(keys)] /\ best[1] = 1
  /\ \A i \in 1 .. Len(keys) - 1 :
       best[i + 1] = IF Replaces(kd, f, keys[best[i]], keys[i + 1]) THEN i + 1 ELSE best[i]

\* ClosestOf is where that loop ends.
LEMMA ContestHeld ==
  ASSUME NEW kd, NEW f, NEW keys, Len(keys) \in Nat \ {0}
  PROVE  \E best : Contest(kd, f, keys, best) /\ ClosestOf(kd, f, keys) = best[Len(keys)]
<1> DEFINE n == Len(keys)
           beats(i, j) == Replaces(kd, f, keys[j], keys[i])
           step == [p \in (1 .. n) \X (1 .. n) |-> IF beats(p[1], p[2]) THEN p[1] ELSE p[2]]
           body(g) == [i \in 1 .. n |-> IF i = 1 THEN 1 ELSE IF beats(i, g[i - 1]) THEN i ELSE g[i - 1]]
<1>1. n \in Nat \ {0} OBVIOUS
<1>2. ClosestOf(kd, f, keys) = (CHOOSE g : g = body(g))[n] BY DEF ClosestOf
<1> HIDE DEF n, beats
<1>3. step \in [(1 .. n) \X (1 .. n) -> 1 .. n]
  <2>1. \A p \in (1 .. n) \X (1 .. n) : p[1] \in 1 .. n /\ p[2] \in 1 .. n OBVIOUS
  <2> QED BY <2>1
<1>4. \A i, j \in 1 .. n : step[<<i, j>>] = IF beats(i, j) THEN i ELSE j OBVIOUS
<1> HIDE DEF step
<1>5. \E g : g = body(g)
  <2>1. PICK g \in [1 .. n -> 1 .. n] : Unfolds(g, n, 1, step)
    <3>1. 1 \in 1 .. n BY <1>1
    <3> QED BY <1>1, <1>3, <3>1, Recursion
  <2>2. ASSUME NEW i \in 1 .. n
        PROVE  g[i] = IF i = 1 THEN 1 ELSE IF beats(i, g[i - 1]) THEN i ELSE g[i - 1]
    <3>1. g[i] = IF i = 1 THEN 1 ELSE step[<<i, g[i - 1]>>] BY <2>1 DEF Unfolds
    <3>2. i # 1 => i \in 1 .. n /\ g[i - 1] \in 1 .. n BY <1>1
    <3> QED BY <1>4, <3>1, <3>2
  <2> QED BY <2>2
<1> DEFINE best == CHOOSE g : g = body(g)
<1>6. best = body(best) BY <1>5, Zenon
<1> HIDE DEF best
<1>7. best[1] = 1 BY <1>1, <1>6
<1>8. \A i \in 1 .. n - 1 : best[i + 1] = IF beats(i + 1, best[i]) THEN i + 1 ELSE best[i]
  BY <1>1, <1>6
<1>9. \A i \in 1 .. n : best[i] \in 1 .. n
  <2> DEFINE T == {i \in 1 .. n : best[i] \in 1 .. n}
  <2>1. 1 \in T BY <1>1, <1>7
  <2>2. ASSUME NEW m \in 1 .. n - 1, m \in T PROVE m + 1 \in T
    <3>1. m + 1 \in 1 .. n BY <1>1
    <3> QED BY <1>8, <2>2, <3>1
  <2>3. 1 .. n \subseteq T
    <3> HIDE DEF T
    <3> QED BY <1>1, <2>1, <2>2, UpTo
  <2> QED BY <2>3
<1>10. best \in [1 .. n -> 1 .. n] BY <1>6, <1>9
<1>11. Contest(kd, f, keys, best) BY <1>7, <1>8, <1>10 DEF Contest, n, beats
<1>12. ClosestOf(kd, f, keys) = best[n] BY <1>2 DEF best
<1> QED BY <1>11, <1>12 DEF n

\* No cluster up to the i-th serves the features f better than the b-th: by the
\* comparison functions, and with the Euclidean distance by the distance; a cluster
\* before it that is as admissible is strictly farther.
Champion(kd, f, keys, b, i) ==
  /\ b <= i
  /\ \A j \in 1 .. i : Admissible(keys[j], f) => Admissible(keys[b], f)
  /\ kd = "EUCLIDEAN" =>
       \A j \in 1 .. i : (Admissible(keys[j], f) <=> Admissible(keys[b], f)) =>
         /\ Distance(f, keys[b]) <= Distance(f, keys[j])
         /\ j < b => Distance(f, keys[b]) < Distance(f, keys[j])

\* data_feature_selector keeps the better of two clusters.
LEMMA ReplacesMeans ==
  ASSUME NEW kd, NEW f, NEW best, NEW target
  PROVE  /\ Replaces(kd, f, best, target) =>
              /\ Admissible(best, f) => Admissible(target, f)
              /\ (Admissible(best, f) <=> Admissible(target, f)) => Closer(kd, f, best, target)
         /\ ~Replaces(kd, f, best, target) =>
              /\ Admissible(target, f) => Admissible(best, f)
              /\ (Admissible(best, f) <=> Admissible(target, f)) => ~Closer(kd, f, best, target)
<1>1. Admissible(best, f) \in BOOLEAN /\ Admissible(target, f) \in BOOLEAN BY DEF Admissible
<1>2. (Admissible(target, f) = Admissible(best, f)) <=> (Admissible(best, f) <=> Admissible(target, f))
  BY <1>1
<1> QED BY <1>2 DEF Replaces

\* The loop of select_feature_cluster ends with a cluster that none serves better.
LEMMA ClosestIsChampion ==
  ASSUME NEW kd, NEW f \in Features, NEW keys, Len(keys) \in Nat \ {0},
         \A i \in 1 .. Len(keys) : keys[i] \in Features
  PROVE  /\ ClosestOf(kd, f, keys) \in 1 .. Len(keys)
         /\ Champion(kd, f, keys, ClosestOf(kd, f, keys), Len(keys))
<1> DEFINE n == Len(keys)
           A(j) == Admissible(keys[j], f)
           D(j) == Distance(f, keys[j])
<1>1. PICK best : Contest(kd, f, keys, best) /\ ClosestOf(kd, f, keys) = best[n]
  BY ContestHeld
<1>2. \A i \in 1 .. n : best[i] \in 1 .. n BY <1>1 DEF Contest
<1>3. \A j \in 1 .. n : D(j) \in Int BY DistanceType
<1> DEFINE T == {i \in 1 .. n : Champion(kd, f, keys, best[i], i)}
<1>4. 1 \in T
  <2>1. best[1] = 1 /\ 1 \in 1 .. n BY <1>1 DEF Contest
  <2>2. D(1) <= D(1) BY <1>3, <2>1
  <2> QED BY <2>1, <2>2 DEF Champion
<1>5. ASSUME NEW m \in 1 .. n - 1, m \in T PROVE m + 1 \in T
  <2> DEFINE b == best[m]
             c == m + 1
  <2>0. m \in 1 .. n /\ c \in 1 .. n /\ b \in 1 .. n /\ best[c] \in 1 .. n BY <1>2
  <2>1. /\ b <= m
        /\ \A j \in 1 .. m : A(j) => A(b)
        /\ kd = "EUCLIDEAN" => \A j \in 1 .. m : (A(j) <=> A(b)) =>
             D(b) <= D(j) /\ (j < b => D(b) < D(j))
    BY <1>5 DEF Champion
  <2>2. best[c] = IF Replaces(kd, f, keys[b], keys[c]) THEN c ELSE b
    BY <1>1 DEF Contest
  <2>3. kd = "EUCLIDEAN" => (Closer(kd, f, keys[b], keys[c]) <=> D(c) < D(b))
    BY DEF Closer
  <2> SUFFICES
        /\ best[c] <= c
        /\ \A j \in 1 .. c : A(j) => A(best[c])
        /\ kd = "EUCLIDEAN" => \A j \in 1 .. c : (A(j) <=> A(best[c])) =>
             D(best[c]) <= D(j) /\ (j < best[c] => D(best[c]) < D(j))
    BY <2>0 DEF Champion
  <2> DEFINE won == Replaces(kd, f, keys[b], keys[c])
             closer == Closer(kd, f, keys[b], keys[c])
  <2>4. CASE won
    <3>1. best[c] = c BY <2>2, <2>4
    <3>2. (A(b) => A(c)) /\ ((A(b) <=> A(c)) => closer) BY <2>4, ReplacesMeans
    <3> HIDE DEF A, D, closer, b
    <3>3. \A j \in 1 .. c : A(j) => A(c) BY <2>0, <2>1, <3>2
    <3>4. ASSUME kd = "EUCLIDEAN", NEW j \in 1 .. c, A(j) <=> A(c)
          PROVE  D(c) <= D(j) /\ (j < c => D(c) < D(j))
      <4>1. CASE j = c BY <1>3, <2>0, <4>1
      <4>2. CASE j \in 1 .. m
        <5>1. j \in 1 .. n /\ D(j) \in Int /\ D(c) \in Int /\ D(b) \in Int BY <1>3, <2>0, <4>2
        <5>2. A(b) <=> A(c) BY <2>1, <3>2, <3>4, <4>2
        <5>3. D(c) < D(b) BY <2>3, <3>2, <3>4, <5>2 DEF closer
        <5>4. D(b) <= D(j) BY <2>1, <3>4, <4>2, <5>2
        <5> QED BY <5>1, <5>3, <5>4
      <4> QED BY <2>0, <4>1, <4>2
    <3> QED BY <2>0, <3>1, <3>3, <3>4
  <2>5. CASE ~won
    <3>1. best[c] = b BY <2>2, <2>5
    <3>2. (A(c) => A(b)) /\ ((A(b) <=> A(c)) => ~closer) BY <2>5, ReplacesMeans
    <3> HIDE DEF A, D, closer, b
    <3>3. \A j \in 1 .. c : A(j) => A(b) BY <2>0, <2>1, <3>2
    <3>4. ASSUME kd = "EUCLIDEAN", NEW j \in 1 .. c, A(j) <=> A(b)
          PROVE  D(b) <= D(j) /\ (j < b => D(b) < D(j))
      <4>1. CASE j = c
        <5>1. ~(D(c) < D(b)) BY <2>3, <3>2, <3>4, <4>1 DEF closer
        <5> QED BY <1>3, <2>0, <2>1, <4>1, <5>1
      <4>2. CASE j \in 1 .. m BY <2>1, <3>4, <4>2
      <4> QED BY <2>0, <4>1, <4>2
    <3>5. b <= c BY <2>0, <2>1
    <3> QED BY <3>1, <3>3, <3>4, <3>5
  <2> QED BY <2>4, <2>5
<1>6. n \in T
  <2> HIDE DEF T
  <2>1. 1 .. n \subseteq T BY <1>4, <1>5, UpTo
  <2> QED BY <2>1
<1> QED BY <1>1, <1>2, <1>6
-----------------------------------------------------------------------------
\* The members of an Asrtm; the pair of a key and an Asrtm.
Bare ==
  [knowledge : SUBSET OpsOf(Confs), optimizers : Problems, current : States, adaptors : Nat,
   application : OpsOf(Confs) \cup {Null}, proposed : OpsOf(Confs) \cup {Null},
   status : ApplicationStatus]
Clusters ==
  [key : Features, knowledge : SUBSET OpsOf(Confs), optimizers : Problems, current : States,
   adaptors : Nat, application : OpsOf(Confs) \cup {Null}, proposed : OpsOf(Confs) \cup {Null},
   status : ApplicationStatus]

\* two managers with the same states, the same one active and the same adaptors
SameProblem(m, n) ==
  n.key = m.key /\ n.optimizers = m.optimizers /\ n.current = m.current /\ n.adaptors = m.adaptors

\* two managers that know, run and propose the same
SamePoints(m, n) ==
  /\ n.key = m.key /\ n.knowledge = m.knowledge
  /\ n.application = m.application /\ n.proposed = m.proposed /\ n.status = m.status

\* A manager is given a key: all members are copied.
LEMMA WithKeyFacts ==
  ASSUME NEW m \in Bare, NEW k \in Features
  PROVE  /\ WithKey(m, k) \in Clusters /\ WithKey(m, k).key = k
         /\ WithKey(m, k).knowledge = m.knowledge /\ WithKey(m, k).optimizers = m.optimizers
         /\ WithKey(m, k).current = m.current /\ WithKey(m, k).adaptors = m.adaptors
         /\ WithKey(m, k).application = m.application /\ WithKey(m, k).proposed = m.proposed
         /\ WithKey(m, k).status = m.status
BY DEF WithKey, Bare, Clusters

\* find_best_configuration touches the proposal only, and proposes a known point.
LEMMA FindFacts ==
  ASSUME NEW m \in Clusters, m.current # NoState, NEW n \in FindBestConfiguration(m)
  PROVE  /\ n \in Clusters /\ SameProblem(m, n)
         /\ n.knowledge = m.knowledge /\ n.application = m.application /\ n.status = m.status
         /\ m.knowledge # {} => n.proposed \in m.knowledge
<1>1. PICK op \in IF KnowledgeEmpty(m) THEN {Null} ELSE m.knowledge : n = [m EXCEPT !.proposed = op]
  BY DEF FindBestConfiguration
<1>2. op \in OpsOf(Confs) \cup {Null} BY DEF Clusters
<1> QED BY <1>1, <1>2 DEF Clusters, SameProblem, KnowledgeEmpty

\* get_best_configuration touches the status only.
LEMMA GetFacts ==
  ASSUME NEW m \in Clusters
  PROVE  LET n == GetBestConfiguration(m) IN
         /\ n \in Clusters /\ SameProblem(m, n)
         /\ n.knowledge = m.knowledge /\ n.application = m.application /\ n.proposed = m.proposed
         /\ n.status = IF ConfigurationChanged(m) /\ m.status # DSE THEN "UNDEFINED" ELSE m.status
BY DEF GetBestConfiguration, Clusters, SameProblem, ApplicationStatus, DSE

\* configuration_applied makes the proposal the running configuration.
LEMMA AppliedFacts ==
  ASSUME NEW m \in Clusters
  PROVE  LET n == ConfigurationApplied(m) IN
         /\ n \in Clusters /\ SameProblem(m, n)
         /\ n.knowledge = m.knowledge /\ n.application = m.proposed /\ n.proposed = m.proposed
         /\ n.status = IF m.status # DSE THEN "TUNED" ELSE DSE
BY DEF ConfigurationApplied, Clusters, SameProblem, ApplicationStatus, DSE

\* restore_from_data_feature_switch forgets the running configuration.
LEMMA RestoreFacts ==
  ASSUME NEW m \in Clusters
  PROVE  LET n == RestoreFromDataFeatureSwitch(m) IN
         /\ n \in Clusters /\ SameProblem(m, n) /\ n.application = Null /\ n.status # "TUNED"
BY DEF RestoreFromDataFeatureSwitch, Clusters, SameProblem, ApplicationStatus, DSE

\* set_single_point replaces the knowledge and keeps the problem.
LEMMA SinglePointFacts ==
  ASSUME NEW m \in Clusters, NEW op \in OpsOf(Confs)
  PROVE  LET n == SetSinglePoint(m, op) IN
         /\ n \in Clusters /\ SameProblem(m, n)
         /\ n.knowledge = {op} /\ n.proposed = Null /\ n.status = DSE
BY DEF SetSinglePoint, Clusters, SameProblem, ApplicationStatus, DSE

\* set_model, in a cluster.
LEMMA ModelFacts ==
  ASSUME NEW m \in Clusters, NEW known \in SUBSET OpsOf(Confs)
  PROVE  LET n == SetModel(m, known) IN
         /\ n \in Clusters /\ SameProblem(m, n)
         /\ n.knowledge = known /\ n.proposed = Null /\ n.status = "WITH_PREDICTION"
BY DEF SetModel, Clusters, SameProblem, ApplicationStatus, DSE

\* add_operating_points and remove_operating_points touch the knowledge only.
LEMMA KnowledgeFacts ==
  ASSUME NEW m \in Clusters, NEW known \in SUBSET OpsOf(Confs), NEW confs
  PROVE  /\ AddOperatingPoints(m, known) \in Clusters /\ SameProblem(m, AddOperatingPoints(m, known))
         /\ AddOperatingPoints(m, known).application = m.application
         /\ AddOperatingPoints(m, known).status = m.status
         /\ RemoveOperatingPoints(m, confs) \in Clusters /\ SameProblem(m, RemoveOperatingPoints(m, confs))
         /\ RemoveOperatingPoints(m, confs).application = m.application
         /\ RemoveOperatingPoints(m, confs).status = m.status
BY DEF AddOperatingPoints, RemoveOperatingPoints, KnowledgeAdd, KnowledgeRemove, Clusters, SameProblem

\* The clone of a manager has its states, each with its constraints and its rank, and
\* one of them is active.
LEMMA SiblingFacts ==
  ASSUME NEW m \in Clusters, m.current \in DOMAIN m.optimizers, NEW n \in CreateSibling(m)
  PROVE  /\ n \in Bare /\ n.optimizers = m.optimizers /\ n.current \in DOMAIN m.optimizers
         /\ n.adaptors = m.adaptors /\ n.knowledge = {} /\ n.status = "UNDEFINED"
         /\ n.application = Null /\ n.proposed = Null
<1> DEFINE o == m.optimizers
           copied == [t \in DOMAIN o |-> StateSibling(o[t])]
<1>1. PICK s \in DOMAIN o : n = [NewManager EXCEPT !.optimizers = copied, !.current = s, !.adaptors = m.adaptors]
  BY DEF CreateSibling
<1>2. \A t \in DOMAIN o : StateSibling(o[t]) = o[t] BY DEF StateSibling, ConstraintSibling
<1>3. o \in Problems BY DEF Clusters
<1>4. o = [t \in DOMAIN o |-> o[t]] BY <1>3 DEF Problems
<1>5. copied = o BY <1>2, <1>4
<1>6. s \in States BY <1>3 DEF Problems
<1> HIDE DEF copied, o
<1>7. n = [knowledge |-> {}, optimizers |-> copied, current |-> s, adaptors |-> m.adaptors,
           application |-> Null, proposed |-> Null, status |-> "UNDEFINED"]
  BY <1>1 DEF NewManager
<1>8. m.adaptors \in Nat BY DEF Clusters
<1> QED BY <1>3, <1>5, <1>6, <1>7, <1>8 DEF Bare, ApplicationStatus, o

\* The problem of a manager with a state more or less, and with a clause of a state
\* more or less.
StateAdded(o, s) ==
  IF s \in DOMAIN o THEN o ELSE [t \in DOMAIN o \cup {s} |-> IF t = s THEN {} ELSE o[t]]
StateRemoved(o, s) == [t \in DOMAIN o \ {s} |-> o[t]]
ClauseAdded(o, s, c) == [o EXCEPT ![s] = @ \cup {c}]
ClauseRemoved(o, s, c) == [o EXCEPT ![s] = @ \ {c}]

\* create_new_state.
LEMMA CreateStateFacts ==
  ASSUME NEW m \in Clusters, NEW s \in States
  PROVE  LET n == CreateNewState(m, s) IN
         /\ n \in Clusters /\ SamePoints(m, n) /\ n.current = m.current /\ n.adaptors = m.adaptors
         /\ n.optimizers = StateAdded(m.optimizers, s)
BY DEF CreateNewState, Clusters, Problems, SamePoints, StateAdded

\* remove_state of a state that is not active.
LEMMA RemoveStateFacts ==
  ASSUME NEW m \in Clusters, NEW s \in States
  PROVE  LET n == RemoveState(m, s) IN
         /\ n \in Clusters /\ SamePoints(m, n) /\ n.current = m.current /\ n.adaptors = m.adaptors
         /\ n.optimizers = StateRemoved(m.optimizers, s)
BY DEF RemoveState, Clusters, Problems, SamePoints, StateRemoved

\* change_active_state.
LEMMA ChangeStateFacts ==
  ASSUME NEW m \in Clusters, NEW s \in States
  PROVE  LET n == ChangeActiveState(m, s) IN
         /\ n \in Clusters /\ SamePoints(m, n) /\ n.current = s /\ n.adaptors = m.adaptors
         /\ n.optimizers = m.optimizers
BY DEF ChangeActiveState, Clusters, SamePoints

\* add_constraint and set_rank.
LEMMA AddClauseFacts ==
  ASSUME NEW m \in Clusters, NEW c \in Clauses, m.current \in DOMAIN m.optimizers
  PROVE  LET n == AddClause(m, c) IN
         /\ n \in Clusters /\ SamePoints(m, n) /\ n.current = m.current /\ n.adaptors = m.adaptors
         /\ n.optimizers = ClauseAdded(m.optimizers, m.current, c)
BY DEF AddClause, Clusters, Problems, SamePoints, ClauseAdded

\* remove_constraint.
LEMMA RemoveClauseFacts ==
  ASSUME NEW m \in Clusters, NEW c \in Clauses, m.current \in DOMAIN m.optimizers
  PROVE  LET n == RemoveClause(m, c) IN
         /\ n \in Clusters /\ SamePoints(m, n) /\ n.current = m.current /\ n.adaptors = m.adaptors
         /\ n.optimizers = ClauseRemoved(m.optimizers, m.current, c)
BY DEF RemoveClause, Clusters, Problems, SamePoints, ClauseRemoved

\* add_runtime_knowledge and remove_all_runtime_knowledge.
LEMMA AdaptorFacts ==
  ASSUME NEW m \in Clusters, NEW a \in Nat
  PROVE  LET n == SetAdaptors(m, a) IN
         /\ n \in Clusters /\ SamePoints(m, n) /\ n.current = m.current /\ n.adaptors = a
         /\ n.optimizers = m.optimizers
BY DEF SetAdaptors, Clusters, SamePoints

-----------------------------------------------------------------------------
(* What keeps the clusters together.                                       *)

Places == {"idle", "selected", "find", "get", "apply", "run", "report", "mean", "log", "expected"}

\* the types of the application, and of the clusters it has
Shape ==
  /\ kind \in Kinds /\ agora \in BOOLEAN
  /\ managers \in Seq(Clusters) /\ managers # <<>> /\ active \in 1 .. Len(managers)
  /\ pc \in Places /\ ops \in 0 .. MaxOps /\ fault \in Faults
  /\ inforce \in Confs \cup {Default} /\ observed \subseteq Confs \cup {Default}

\* every cluster has the same states, the one that is active and the one that the
\* application wants among them
SameStates ==
  /\ wanted \in DOMAIN managers[1].optimizers
  /\ \A i \in 1 .. Len(managers) :
       /\ managers[i].current \in DOMAIN managers[i].optimizers
       /\ DOMAIN managers[i].optimizers = DOMAIN managers[1].optimizers

\* and, as long as create_sibling never left another state active, the same problems
UnstrayedAgree ==
  ~strayed => \A i \in DOMAIN managers :
                /\ managers[i].current = wanted
                /\ managers[i].optimizers = managers[1].optimizers

ShapeInv == Shape /\ SameStates /\ UnstrayedAgree

\* What Shape says of the clusters.
LEMMA ShapeFacts ==
  ASSUME Shape
  PROVE  /\ Len(managers) \in Nat \ {0} /\ DOMAIN managers = 1 .. Len(managers)
         /\ 1 \in 1 .. Len(managers)
         /\ \A i \in 1 .. Len(managers) : managers[i] \in Clusters
         /\ Current \in Clusters
BY LenProperties, EmptySeq, ElementOfSeq DEF Shape, Current

\* One cluster is replaced.
LEMMA ReplaceOne ==
  ASSUME Shape, NEW a \in 1 .. Len(managers), NEW m \in Clusters, managers' = [managers EXCEPT ![a] = m]
  PROVE  /\ managers' \in Seq(Clusters) /\ Len(managers') = Len(managers) /\ managers' # <<>>
         /\ \A i \in 1 .. Len(managers) : managers'[i] = IF i = a THEN m ELSE managers[i]
<1>1. managers' \in Seq(Clusters) /\ Len(managers') = Len(managers) BY ExceptSeq DEF Shape
<1>2. managers' # <<>> BY <1>1, ShapeFacts, EmptySeq
<1>3. \A i \in 1 .. Len(managers) : managers'[i] = IF i = a THEN m ELSE managers[i]
  BY ShapeFacts
<1> QED BY <1>1, <1>2, <1>3

\* A sequence of clusters, from its function.
LEMMA SeqOfClusters ==
  ASSUME NEW n \in Nat \ {0}, NEW s \in [1 .. n -> Clusters]
  PROVE  s \in Seq(Clusters) /\ Len(s) = n /\ s # <<>>
<1>1. s \in Seq(Clusters) BY SeqDef
<1>2. Len(s) = n BY <1>1, LenProperties
<1> QED BY <1>1, <1>2, EmptySeq

\* The keys of the clusters, in their order.
LEMMA KeysFacts ==
  ASSUME Shape
  PROVE  /\ Len(KeysOf(managers)) = Len(managers)
         /\ \A i \in 1 .. Len(managers) :
              KeysOf(managers)[i] = managers[i].key /\ KeysOf(managers)[i] \in Features
<1>1. /\ DOMAIN managers = 1 .. Len(managers) /\ Len(managers) \in Nat
      /\ \A i \in 1 .. Len(managers) : managers[i].key \in Features
  BY ShapeFacts DEF Clusters
<1>2. KeysOf(managers) \in [1 .. Len(managers) -> Features] BY <1>1 DEF KeysOf
<1>3. KeysOf(managers) \in Seq(Features) BY <1>1, <1>2, SeqDef
<1>4. Len(KeysOf(managers)) = Len(managers) BY <1>1, <1>2, <1>3, LenProperties
<1> QED BY <1>1, <1>2, <1>4 DEF KeysOf

\* What is allocated are Operating Points, and an empty pointer is none.
LEMMA AllocateFacts ==
  ASSUME ops \in 0 .. MaxOps, ops < MaxOps, NEW confs \in SUBSET Confs
  PROVE  /\ Allocate(confs) \in SUBSET OpsOf(Confs)
         /\ confs # {} => Allocate(confs) # {}
         /\ \A c \in Confs : [conf |-> c, made |-> ops + 1] \in OpsOf(Confs)
<1>1. ops + 1 \in 0 .. MaxOps BY DataAwareAssumption
<1>2. Allocate(confs) \in SUBSET OpsOf(Confs) BY <1>1 DEF Allocate, OpsOf
<1>3. \A c \in confs : [conf |-> c, made |-> ops + 1] \in Allocate(confs) BY DEF Allocate
<1> QED BY <1>1, <1>2, <1>3 DEF OpsOf

\* An empty pointer is no Operating Point.
LEMMA NullIsNoPoint == Null \notin OpsOf(Confs)
BY DataAwareAssumption DEF OpsOf

\* The clusters are replaced by others with the same problem.
LEMMA SameProblems ==
  ASSUME ShapeInv, managers' \in Seq(Clusters), Len(managers') = Len(managers),
         wanted' = wanted, strayed' = strayed,
         \A i \in 1 .. Len(managers) : SameProblem(managers[i], managers'[i])
  PROVE  SameStates' /\ UnstrayedAgree'
<1>1. /\ DOMAIN managers = 1 .. Len(managers) /\ DOMAIN managers' = 1 .. Len(managers)
      /\ 1 \in 1 .. Len(managers)
  BY ShapeFacts, LenProperties DEF ShapeInv
<1>2. SameStates' BY <1>1 DEF ShapeInv, SameStates, SameProblem
<1>3. UnstrayedAgree' BY <1>1 DEF ShapeInv, UnstrayedAgree, SameProblem
<1> QED BY <1>2, <1>3

\* Every cluster but one is as it was.
Updated(a, n) ==
  /\ managers' \in Seq(Clusters) /\ Len(managers') = Len(managers) /\ managers' # <<>>
  /\ \A i \in 1 .. Len(managers) : managers'[i] = IF i = a THEN n ELSE managers[i]

\* If that one keeps its problem the clusters still agree.
LEMMA UpdatedKeeps ==
  ASSUME ShapeInv, NEW a \in 1 .. Len(managers), NEW n \in Clusters,
         Updated(a, n), SameProblem(managers[a], n), wanted' = wanted, strayed' = strayed
  PROVE  SameStates' /\ UnstrayedAgree'
<1>1. \A i \in 1 .. Len(managers) : SameProblem(managers[i], managers'[i])
  BY DEF Updated, SameProblem
<1> QED BY <1>1, SameProblems DEF Updated

\* Each cluster is replaced by its image under a method.
LEMMA AllReplaced ==
  ASSUME Shape, DOMAIN managers' = DOMAIN managers, managers' = [i \in DOMAIN managers |-> managers'[i]],
         \A i \in 1 .. Len(managers) : managers'[i] \in Clusters
  PROVE  managers' \in Seq(Clusters) /\ Len(managers') = Len(managers) /\ managers' # <<>>
<1>1. Len(managers) \in Nat \ {0} /\ DOMAIN managers = 1 .. Len(managers) BY ShapeFacts
<1>2. managers' \in [1 .. Len(managers) -> Clusters] BY <1>1
<1> QED BY <1>1, <1>2, SeqOfClusters

\* A step that leaves the clusters alone.
LEMMA UnchangedKeeps ==
  ASSUME ShapeInv, managers' = managers, wanted' = wanted, strayed' = strayed
  PROVE  SameStates' /\ UnstrayedAgree'
BY DEF ShapeInv, SameStates, UnstrayedAgree

-----------------------------------------------------------------------------
(* The steps that change the clusters, each by what it does to them.       *)

\* select_feature_cluster: the closest cluster is active; it is restored when
\* another one was.
LEMMA SelectStep ==
  ASSUME ShapeInv, NEW f, kind # "PLAIN" => f \in Inputs, SelectFeatureCluster(f)
  PROVE  /\ active' \in 1 .. Len(managers)
         /\ kind = "PLAIN" => active' = active
         /\ kind # "PLAIN" => Champion(kind, f, KeysOf(managers), active', Len(managers))
         /\ \/ active' = active /\ managers' = managers
            \/ active' # active /\ Updated(active', RestoreFromDataFeatureSwitch(managers[active']))
<1>1. Shape /\ active \in 1 .. Len(managers) BY DEF ShapeInv, Shape
<1>2. kind = "PLAIN" => active' = active BY DEF SelectFeatureCluster
<1>3. kind # "PLAIN" =>
        /\ active' \in 1 .. Len(managers)
        /\ Champion(kind, f, KeysOf(managers), active', Len(managers))
  <2> SUFFICES ASSUME kind # "PLAIN"
               PROVE  /\ active' \in 1 .. Len(managers)
                      /\ Champion(kind, f, KeysOf(managers), active', Len(managers))
    OBVIOUS
  <2>1. f \in Features BY DataAwareAssumption
  <2>2. active' = ClosestOf(kind, f, KeysOf(managers)) BY DEF SelectFeatureCluster
  <2>3. /\ Len(KeysOf(managers)) = Len(managers) /\ Len(managers) \in Nat \ {0}
        /\ \A i \in 1 .. Len(managers) : KeysOf(managers)[i] \in Features
    BY <1>1, KeysFacts, ShapeFacts
  <2> QED BY <2>1, <2>2, <2>3, ClosestIsChampion
<1>4. active' \in 1 .. Len(managers) BY <1>1, <1>2, <1>3
<1>5. CASE active' = active BY <1>2, <1>3, <1>4, <1>5 DEF SelectFeatureCluster
<1>6. CASE active' # active
  <2>1. managers' = [managers EXCEPT ![active'] = RestoreFromDataFeatureSwitch(managers[active'])]
    BY <1>6 DEF SelectFeatureCluster
  <2>2. managers[active'] \in Clusters BY <1>1, <1>4, ShapeFacts
  <2>3. RestoreFromDataFeatureSwitch(managers[active']) \in Clusters BY <2>2, RestoreFacts
  <2>4. Updated(active', RestoreFromDataFeatureSwitch(managers[active']))
    BY <1>1, <1>4, <2>1, <2>3, ReplaceOne DEF Updated
  <2> QED BY <1>2, <1>3, <1>4, <1>6, <2>4
<1> QED BY <1>5, <1>6

\* find_best_configuration meets a null pointer or proposes a known point.
LEMMA FindStep ==
  ASSUME ShapeInv, FindBest, fault' = "none"
  PROVE  \E n \in FindBestConfiguration(Current) :
           /\ Updated(active, n) /\ n \in Clusters /\ SameProblem(Current, n)
           /\ n.knowledge = Current.knowledge /\ n.application = Current.application
           /\ n.status = Current.status
           /\ Current.knowledge # {} => n.proposed \in Current.knowledge
<1>1. Shape /\ active \in 1 .. Len(managers) /\ Current \in Clusters
  BY ShapeFacts DEF ShapeInv, Shape
<1>2. Current.current # NoState BY <1>1, DataAwareAssumption DEF Clusters
<1>3. PICK n \in FindBestConfiguration(Current) : managers' = [managers EXCEPT ![active] = n]
  BY DEF FindBest, Abort
<1>4. /\ n \in Clusters /\ SameProblem(Current, n)
      /\ n.knowledge = Current.knowledge /\ n.application = Current.application
      /\ n.status = Current.status
      /\ Current.knowledge # {} => n.proposed \in Current.knowledge
  BY <1>1, <1>2, FindFacts
<1>5. Updated(active, n) BY <1>1, <1>3, <1>4, ReplaceOne DEF Updated
<1> QED BY <1>4, <1>5

\* get_best_configuration.
LEMMA GetStep ==
  ASSUME ShapeInv, GetBest, fault' = "none"
  PROVE  /\ Updated(active, GetBestConfiguration(Current)) /\ Current.proposed # Null
         /\ GetBestConfiguration(Current) \in Clusters
<1>1. Shape /\ active \in 1 .. Len(managers) /\ Current \in Clusters
  BY ShapeFacts DEF ShapeInv, Shape
<1>2. Current.proposed # Null /\ managers' = [managers EXCEPT ![active] = GetBestConfiguration(Current)]
  BY DEF GetBest, Abort, Current
<1>3. GetBestConfiguration(Current) \in Clusters BY <1>1, GetFacts
<1>4. Updated(active, GetBestConfiguration(Current))
  BY <1>1, <1>2, <1>3, ReplaceOne DEF Updated
<1> QED BY <1>2, <1>3, <1>4

\* configuration_applied.
LEMMA AppliedStep ==
  ASSUME ShapeInv, Applied
  PROVE  Updated(active, ConfigurationApplied(Current)) /\ ConfigurationApplied(Current) \in Clusters
<1>1. Shape /\ active \in 1 .. Len(managers) /\ Current \in Clusters
  BY ShapeFacts DEF ShapeInv, Shape
<1>2. managers' = [managers EXCEPT ![active] = ConfigurationApplied(Current)]
  BY DEF Applied, Current
<1>3. ConfigurationApplied(Current) \in Clusters BY <1>1, AppliedFacts
<1>4. Updated(active, ConfigurationApplied(Current)) BY <1>1, <1>2, <1>3, ReplaceOne DEF Updated
<1> QED BY <1>3, <1>4

\* A cluster that a message left: it knows something, its proposal was dropped, and
\* it is not tuned.
Told(m) == m.knowledge # {} /\ m.proposed = Null /\ m.status \in {DSE, "WITH_PREDICTION"}

\* The clusters of a message that keeps them: as many, with the same problems.
KeptTold ==
  /\ managers' \in Seq(Clusters) /\ Len(managers') = Len(managers) /\ managers' # <<>>
  /\ active' = active /\ wanted' = wanted /\ strayed' = strayed
  /\ \A i \in 1 .. Len(managers) : SameProblem(managers[i], managers'[i]) /\ Told(managers'[i])

\* The clusters of a prediction: clones of the first one, with the same state active.
ClonesTold ==
  /\ managers' \in Seq(Clusters) /\ managers' # <<>> /\ active' = 1 /\ wanted' = wanted
  /\ \E s \in DOMAIN managers[1].optimizers :
       /\ strayed' = (strayed \/ s # wanted)
       /\ \A i \in 1 .. Len(managers') :
            /\ managers'[i].optimizers = managers[1].optimizers /\ managers'[i].current = s
            /\ managers'[i].application = Null /\ Told(managers'[i])

\* explore: set_single_point in every cluster.
LEMMA ExploreStep ==
  ASSUME ShapeInv, NEW c \in Confs, Explore(c)
  PROVE  KeptTold
<1> DEFINE op == [conf |-> c, made |-> ops + 1]
<1>1. Shape /\ ops \in 0 .. MaxOps /\ ops < MaxOps BY DEF ShapeInv, Shape, Explore, Message
<1>2. op \in OpsOf(Confs) BY <1>1, AllocateFacts
<1>3. \A i \in 1 .. Len(managers) : managers[i] \in Clusters BY <1>1, ShapeFacts
<1>4. DOMAIN managers = 1 .. Len(managers) BY <1>1, ShapeFacts
<1>5. managers' = [i \in DOMAIN managers |-> SetSinglePoint(managers[i], op)] BY DEF Explore, ForAll
<1> HIDE DEF op
<1>6. ASSUME NEW i \in 1 .. Len(managers)
      PROVE  managers'[i] \in Clusters /\ SameProblem(managers[i], managers'[i]) /\ Told(managers'[i])
  <2>1. managers'[i] = SetSinglePoint(managers[i], op) BY <1>4, <1>5
  <2>2. managers[i] \in Clusters BY <1>3
  <2> QED BY <1>2, <2>1, <2>2, SinglePointFacts DEF Told
<1>7. managers' \in Seq(Clusters) /\ Len(managers') = Len(managers) /\ managers' # <<>>
  BY <1>1, <1>5, <1>6, AllReplaced
<1> QED BY <1>6, <1>7 DEF KeptTold, Explore

\* set_model in a manager that has no key yet.
LEMMA ModelOfClone ==
  ASSUME NEW m \in Bare, NEW known \in SUBSET OpsOf(Confs)
  PROVE  LET n == SetModel(m, known) IN
         /\ n \in Bare /\ n.knowledge = known /\ n.proposed = Null /\ n.status = "WITH_PREDICTION"
         /\ n.optimizers = m.optimizers /\ n.current = m.current /\ n.application = m.application
BY DEF SetModel, Bare, ApplicationStatus

\* prediction.
LEMMA PredictStep ==
  ASSUME ShapeInv, NEW model \in Models, Predict(model)
  PROVE  /\ kind = "PLAIN" => KeptTold
         /\ kind # "PLAIN" => ClonesTold
<1>1. Shape /\ ops \in 0 .. MaxOps /\ ops < MaxOps BY DEF ShapeInv, Shape, Predict, Message
<1>2. \A i \in 1 .. Len(managers) : managers[i] \in Clusters BY <1>1, ShapeFacts
<1>3. DOMAIN managers = 1 .. Len(managers) /\ 1 \in 1 .. Len(managers) BY <1>1, ShapeFacts
<1>4. model \in Seq([key : Features, confs : (SUBSET Confs) \ {{}}]) /\ model # <<>>
  BY DataAwareAssumption
<1>5. /\ Len(model) \in Nat \ {0} /\ DOMAIN model = 1 .. Len(model)
      /\ \A i \in 1 .. Len(model) : model[i] \in [key : Features, confs : (SUBSET Confs) \ {{}}]
  BY <1>4, LenProperties, EmptySeq, ElementOfSeq
<1>6. ASSUME NEW i \in 1 .. Len(model)
      PROVE  /\ model[i].key \in Features
             /\ Allocate(model[i].confs) \in SUBSET OpsOf(Confs) /\ Allocate(model[i].confs) # {}
  <2>1. model[i].key \in Features /\ model[i].confs \in SUBSET Confs /\ model[i].confs # {} BY <1>5
  <2> QED BY <1>1, <2>1, AllocateFacts
<1>7. ASSUME kind = "PLAIN" PROVE KeptTold
  <2> DEFINE known == Allocate(model[1].confs)
  <2>1. known \in SUBSET OpsOf(Confs) /\ known # {} BY <1>5, <1>6
  <2>2. managers' = [i \in DOMAIN managers |-> SetModel(managers[i], known)]
    BY <1>7 DEF Predict, ForAll
  <2> HIDE DEF known
  <2>3. ASSUME NEW i \in 1 .. Len(managers)
        PROVE  managers'[i] \in Clusters /\ SameProblem(managers[i], managers'[i]) /\ Told(managers'[i])
    <3>1. managers'[i] = SetModel(managers[i], known) BY <1>3, <2>2
    <3>2. managers[i] \in Clusters BY <1>2
    <3> QED BY <2>1, <3>1, <3>2, ModelFacts DEF Told
  <2>4. managers' \in Seq(Clusters) /\ Len(managers') = Len(managers) /\ managers' # <<>>
    BY <1>1, <2>2, <2>3, AllReplaced
  <2> QED BY <1>7, <2>3, <2>4 DEF KeptTold, Predict
<1>8. ASSUME kind # "PLAIN" PROVE ClonesTold
  <2>1. PICK reference \in CreateSibling(managers[1]) :
          /\ managers' = [i \in DOMAIN model |->
               WithKey(SetModel(reference, Allocate(model[i].confs)), model[i].key)]
          /\ active' = 1 /\ strayed' = (strayed \/ reference.current # wanted) /\ wanted' = wanted
    BY <1>8 DEF Predict
  <2>2. managers[1] \in Clusters /\ managers[1].current \in DOMAIN managers[1].optimizers
    BY <1>2, <1>3 DEF ShapeInv, SameStates
  <2>3. /\ reference \in Bare /\ reference.optimizers = managers[1].optimizers
        /\ reference.current \in DOMAIN managers[1].optimizers /\ reference.application = Null
    BY <2>2, SiblingFacts
  <2>4. ASSUME NEW i \in 1 .. Len(model)
        PROVE  /\ managers'[i] \in Clusters
               /\ managers'[i].optimizers = managers[1].optimizers
               /\ managers'[i].current = reference.current
               /\ managers'[i].application = Null /\ Told(managers'[i])
    <3> DEFINE known == Allocate(model[i].confs)
               n == SetModel(reference, known)
    <3>1. managers'[i] = WithKey(n, model[i].key) BY <1>5, <2>1
    <3>2. known \in SUBSET OpsOf(Confs) /\ known # {} /\ model[i].key \in Features BY <1>6
    <3> HIDE DEF known
    <3>3. /\ n \in Bare /\ n.knowledge = known /\ n.proposed = Null /\ n.status = "WITH_PREDICTION"
          /\ n.optimizers = reference.optimizers /\ n.current = reference.current
          /\ n.application = reference.application
      BY <2>3, <3>2, ModelOfClone
    <3> HIDE DEF n
    <3>4. /\ WithKey(n, model[i].key) \in Clusters
          /\ WithKey(n, model[i].key).knowledge = known
          /\ WithKey(n, model[i].key).proposed = Null
          /\ WithKey(n, model[i].key).status = "WITH_PREDICTION"
          /\ WithKey(n, model[i].key).optimizers = reference.optimizers
          /\ WithKey(n, model[i].key).current = reference.current
          /\ WithKey(n, model[i].key).application = Null
      BY <2>3, <3>2, <3>3, WithKeyFacts
    <3> QED BY <2>3, <3>1, <3>2, <3>4 DEF Told
  <2>5. managers' \in [1 .. Len(model) -> Clusters] BY <1>5, <2>1, <2>4
  <2>6. managers' \in Seq(Clusters) /\ Len(managers') = Len(model) /\ managers' # <<>>
    BY <1>5, <2>5, SeqOfClusters
  <2> QED BY <2>1, <2>3, <2>4, <2>6 DEF ClonesTold
<1> QED BY <1>7, <1>8

\* A number that is the least of a set of numbers is there to be found.
LEMMA LeastOf ==
  ASSUME NEW S \in SUBSET Nat, S # {}
  PROVE  Min(S) \in S /\ \A w \in S : Min(S) <= w
<1>1. \E u \in S : \A w \in S : u <= w
  <2>1. \E u \in S : \A w \in S : <<w, u>> \notin OpToRel(<, Nat)
    BY NatLessThanWellFounded, WFMin, Zenon
  <2>2. \E u \in S : \A w \in S : w \in Nat /\ u \in Nat => ~(w < u)
    BY <2>1, Zenon DEF OpToRel
  <2> QED BY <2>2
<1> QED BY <1>1, Zenon DEF Min

\* add_feature_cluster: one more cluster, a clone of the first; the active one is the
\* first that has the key the active one had.
LEMMA AddClusterStep ==
  ASSUME ShapeInv, NEW k \in Keys, AddFeatureCluster(k)
  PROVE  /\ managers' \in Seq(Clusters) /\ managers' # <<>> /\ Len(managers') = Len(managers) + 1
         /\ \A i \in 1 .. Len(managers) : managers'[i] = managers[i]
         /\ LET n == managers'[Len(managers) + 1] IN
            /\ n.optimizers = managers[1].optimizers /\ n.current \in DOMAIN managers[1].optimizers
            /\ n.status = "UNDEFINED" /\ strayed' = (strayed \/ n.current # wanted)
         /\ active' \in 1 .. active /\ managers[active'].key = Current.key
         /\ \A j \in 1 .. Len(managers) : j < active' => managers[j].key # Current.key
<1> DEFINE n == Len(managers)
<1>1. /\ Shape /\ n \in Nat \ {0} /\ DOMAIN managers = 1 .. n /\ 1 \in 1 .. n /\ active \in 1 .. n
      /\ \A i \in 1 .. n : managers[i] \in Clusters
  BY ShapeFacts DEF ShapeInv, Shape
<1>2. PICK clone \in CreateSibling(managers[1]) :
        managers' = Append(managers, WithKey(clone, k)) /\ strayed' = (strayed \/ clone.current # wanted)
  BY DEF AddFeatureCluster
<1>3. managers[1] \in Clusters /\ managers[1].current \in DOMAIN managers[1].optimizers
  BY <1>1 DEF ShapeInv, SameStates
<1>4. /\ clone \in Bare /\ clone.optimizers = managers[1].optimizers
      /\ clone.current \in DOMAIN managers[1].optimizers /\ clone.status = "UNDEFINED"
  BY <1>3, SiblingFacts
<1>5. k \in Features BY DataAwareAssumption
<1> DEFINE new == WithKey(clone, k)
<1>6. /\ new \in Clusters /\ new.optimizers = managers[1].optimizers
      /\ new.current = clone.current /\ new.status = "UNDEFINED"
  BY <1>4, <1>5, WithKeyFacts
<1> HIDE DEF new
<1>7. managers \in Seq(Clusters) BY <1>1 DEF Shape
<1>8. /\ managers' \in Seq(Clusters) /\ managers' # <<>> /\ Len(managers') = n + 1
      /\ \A i \in 1 .. n : managers'[i] = managers[i]
      /\ managers'[n + 1] = new
  <2>1. managers' = Append(managers, new) BY <1>2 DEF new
  <2> QED BY <1>6, <1>7, <2>1, AppendProperties
<1>9. /\ active' \in 1 .. active /\ managers[active'].key = Current.key
      /\ \A j \in 1 .. Len(managers) : j < active' => managers[j].key # Current.key
  <2> DEFINE I == {i \in 1 .. Len(managers') : managers'[i].key = Current.key}
  <2>1. active' = IF I # {} THEN Min(I) ELSE 0 BY DEF AddFeatureCluster, SelectInSeq
  <2>2. active \in I BY <1>1, <1>8 DEF Current
  <2>3. I \in SUBSET Nat OBVIOUS
  <2>4. active' \in I /\ \A w \in I : active' <= w
    <3> HIDE DEF I
    <3> QED BY <2>1, <2>2, <2>3, LeastOf
  <2>5. active' \in 1 .. active BY <2>2, <2>4, <1>1
  <2>6. active' \in 1 .. n BY <1>1, <2>5
  <2>7. managers[active'].key = Current.key BY <1>8, <2>4, <2>6
  <2>8. ASSUME NEW j \in 1 .. n, j < active' PROVE managers[j].key # Current.key
    <3>1. j \in 1 .. n + 1 /\ ~(active' <= j) BY <1>1, <2>6, <2>8
    <3> QED BY <1>8, <2>4, <2>8, <3>1
  <2> QED BY <2>5, <2>7, <2>8
<1> QED BY <1>2, <1>4, <1>6, <1>8, <1>9

\* The clusters of a call that defines the problem: they know and run what they did.
Defined ==
  /\ managers' \in Seq(Clusters) /\ Len(managers') = Len(managers) /\ managers' # <<>>
  /\ active' = active
  /\ \A i \in 1 .. Len(managers) : SamePoints(managers[i], managers'[i])

SameAdaptors == \A i \in 1 .. Len(managers) : managers'[i].adaptors = managers[i].adaptors

\* A call that gives every cluster the same problem again, made from the problem and
\* the active state it had.
LEMMA DefinedAlike ==
  ASSUME ShapeInv, Defined, NEW t, wanted' = t, strayed' = strayed,
         t \in DOMAIN managers'[1].optimizers,
         \A i \in 1 .. Len(managers) :
           /\ managers'[i].current \in DOMAIN managers'[i].optimizers
           /\ DOMAIN managers'[i].optimizers = DOMAIN managers'[1].optimizers,
         ~strayed => \A i \in 1 .. Len(managers) :
           managers'[i].current = t /\ managers'[i].optimizers = managers'[1].optimizers
  PROVE  SameStates' /\ UnstrayedAgree'
<1>1. DOMAIN managers' = 1 .. Len(managers) /\ Len(managers') = Len(managers)
  BY LenProperties DEF Defined
<1>2. SameStates' BY <1>1 DEF SameStates
<1>3. UnstrayedAgree' BY <1>1 DEF UnstrayedAgree
<1> QED BY <1>2, <1>3

\* create_new_state, in every cluster.
LEMMA CreateStateStep ==
  ASSUME ShapeInv, NEW s \in States, CreateState(s)
  PROVE  Defined /\ SameAdaptors /\ SameStates' /\ UnstrayedAgree'
<1>1. /\ Shape /\ DOMAIN managers = 1 .. Len(managers) /\ 1 \in 1 .. Len(managers)
      /\ \A i \in 1 .. Len(managers) : managers[i] \in Clusters
  BY ShapeFacts DEF ShapeInv
<1>2. /\ managers' = [i \in DOMAIN managers |-> CreateNewState(managers[i], s)]
      /\ active' = active /\ wanted' = wanted /\ strayed' = strayed
  BY DEF CreateState, DefineProblem, ForAll
<1>3. ASSUME NEW i \in 1 .. Len(managers)
      PROVE  /\ managers'[i] \in Clusters /\ SamePoints(managers[i], managers'[i])
             /\ managers'[i].current = managers[i].current
             /\ managers'[i].adaptors = managers[i].adaptors
             /\ managers'[i].optimizers = StateAdded(managers[i].optimizers, s)
  <2>1. managers'[i] = CreateNewState(managers[i], s) /\ managers[i] \in Clusters BY <1>1, <1>2
  <2> QED BY <2>1, CreateStateFacts
<1>4. managers' \in Seq(Clusters) /\ Len(managers') = Len(managers) /\ managers' # <<>>
  BY <1>1, <1>2, <1>3, AllReplaced
<1>5. Defined /\ SameAdaptors BY <1>2, <1>3, <1>4 DEF Defined, SameAdaptors
<1>6. \A i \in 1 .. Len(managers) :
        DOMAIN managers'[i].optimizers = DOMAIN managers[i].optimizers \cup {s}
  BY <1>3 DEF StateAdded
<1>7. /\ wanted \in DOMAIN managers'[1].optimizers
      /\ \A i \in 1 .. Len(managers) :
           /\ managers'[i].current \in DOMAIN managers'[i].optimizers
           /\ DOMAIN managers'[i].optimizers = DOMAIN managers'[1].optimizers
  BY <1>1, <1>3, <1>6 DEF ShapeInv, SameStates
<1>8. ~strayed => \A i \in 1 .. Len(managers) :
        managers'[i].current = wanted /\ managers'[i].optimizers = managers'[1].optimizers
  BY <1>1, <1>3 DEF ShapeInv, UnstrayedAgree
<1> QED BY <1>2, <1>5, <1>7, <1>8, DefinedAlike

\* remove_state, in every cluster, when its assertion holds in each.
LEMMA RemoveStateStep ==
  ASSUME ShapeInv, NEW s \in States, RemoveTheState(s), fault' = "none"
  PROVE  Defined /\ SameAdaptors /\ SameStates' /\ UnstrayedAgree'
<1>1. /\ Shape /\ DOMAIN managers = 1 .. Len(managers) /\ 1 \in 1 .. Len(managers)
      /\ \A i \in 1 .. Len(managers) : managers[i] \in Clusters
  BY ShapeFacts DEF ShapeInv
<1>2. /\ managers' = [i \in DOMAIN managers |-> RemoveState(managers[i], s)]
      /\ active' = active /\ wanted' = wanted /\ strayed' = strayed /\ s # wanted
      /\ s \in DOMAIN managers[1].optimizers
      /\ \A i \in DOMAIN managers : ~RemoveStateFails(managers[i], s)
  BY DEF RemoveTheState, DefineProblem, ForAll
<1>3. ASSUME NEW i \in 1 .. Len(managers)
      PROVE  /\ managers'[i] \in Clusters /\ SamePoints(managers[i], managers'[i])
             /\ managers'[i].current = managers[i].current
             /\ managers'[i].adaptors = managers[i].adaptors
             /\ managers'[i].optimizers = StateRemoved(managers[i].optimizers, s)
             /\ managers[i].current # s
  <2>1. managers'[i] = RemoveState(managers[i], s) /\ managers[i] \in Clusters BY <1>1, <1>2
  <2>2. s \in DOMAIN managers[i].optimizers BY <1>2 DEF ShapeInv, SameStates
  <2>3. managers[i].current # s BY <1>1, <1>2, <2>2 DEF RemoveStateFails
  <2> QED BY <2>1, <2>3, RemoveStateFacts
<1>4. managers' \in Seq(Clusters) /\ Len(managers') = Len(managers) /\ managers' # <<>>
  BY <1>1, <1>2, <1>3, AllReplaced
<1>5. Defined /\ SameAdaptors BY <1>2, <1>3, <1>4 DEF Defined, SameAdaptors
<1>6. \A i \in 1 .. Len(managers) :
        DOMAIN managers'[i].optimizers = DOMAIN managers[i].optimizers \ {s}
  BY <1>3 DEF StateRemoved
<1>7. /\ wanted \in DOMAIN managers'[1].optimizers
      /\ \A i \in 1 .. Len(managers) :
           /\ managers'[i].current \in DOMAIN managers'[i].optimizers
           /\ DOMAIN managers'[i].optimizers = DOMAIN managers'[1].optimizers
  BY <1>1, <1>2, <1>3, <1>6 DEF ShapeInv, SameStates
<1>8. ~strayed => \A i \in 1 .. Len(managers) :
        managers'[i].current = wanted /\ managers'[i].optimizers = managers'[1].optimizers
  BY <1>1, <1>3 DEF ShapeInv, UnstrayedAgree
<1> QED BY <1>2, <1>5, <1>7, <1>8, DefinedAlike

\* change_active_state, in every cluster.
LEMMA ChangeStateStep ==
  ASSUME ShapeInv, NEW s \in States, ChangeState(s)
  PROVE  Defined /\ SameAdaptors /\ SameStates' /\ UnstrayedAgree'
<1>1. /\ Shape /\ DOMAIN managers = 1 .. Len(managers) /\ 1 \in 1 .. Len(managers)
      /\ \A i \in 1 .. Len(managers) : managers[i] \in Clusters
  BY ShapeFacts DEF ShapeInv
<1>2. /\ managers' = [i \in DOMAIN managers |-> ChangeActiveState(managers[i], s)]
      /\ active' = active /\ wanted' = s /\ strayed' = strayed
      /\ s \in DOMAIN managers[1].optimizers
  BY DEF ChangeState, DefineProblem, ForAll
<1>3. ASSUME NEW i \in 1 .. Len(managers)
      PROVE  /\ managers'[i] \in Clusters /\ SamePoints(managers[i], managers'[i])
             /\ managers'[i].current = s
             /\ managers'[i].adaptors = managers[i].adaptors
             /\ managers'[i].optimizers = managers[i].optimizers
  <2>1. managers'[i] = ChangeActiveState(managers[i], s) /\ managers[i] \in Clusters BY <1>1, <1>2
  <2> QED BY <2>1, ChangeStateFacts
<1>4. managers' \in Seq(Clusters) /\ Len(managers') = Len(managers) /\ managers' # <<>>
  BY <1>1, <1>2, <1>3, AllReplaced
<1>5. Defined /\ SameAdaptors BY <1>2, <1>3, <1>4 DEF Defined, SameAdaptors
<1>7. /\ s \in DOMAIN managers'[1].optimizers
      /\ \A i \in 1 .. Len(managers) :
           /\ managers'[i].current \in DOMAIN managers'[i].optimizers
           /\ DOMAIN managers'[i].optimizers = DOMAIN managers'[1].optimizers
  BY <1>1, <1>2, <1>3 DEF ShapeInv, SameStates
<1>8. ~strayed => \A i \in 1 .. Len(managers) :
        managers'[i].current = s /\ managers'[i].optimizers = managers'[1].optimizers
  BY <1>1, <1>3 DEF ShapeInv, UnstrayedAgree
<1> QED BY <1>2, <1>5, <1>7, <1>8, DefinedAlike

\* add_constraint and set_rank, in every cluster.
LEMMA AddClauseStep ==
  ASSUME ShapeInv, NEW c \in Clauses, AddConstraint(c)
  PROVE  Defined /\ SameAdaptors /\ SameStates' /\ UnstrayedAgree'
<1>1. /\ Shape /\ DOMAIN managers = 1 .. Len(managers) /\ 1 \in 1 .. Len(managers)
      /\ \A i \in 1 .. Len(managers) :
           managers[i] \in Clusters /\ managers[i].current \in DOMAIN managers[i].optimizers
  BY ShapeFacts DEF ShapeInv, SameStates
<1>2. /\ managers' = [i \in DOMAIN managers |-> AddClause(managers[i], c)]
      /\ active' = active /\ wanted' = wanted /\ strayed' = strayed
  BY DEF AddConstraint, DefineProblem, ForAll
<1>3. ASSUME NEW i \in 1 .. Len(managers)
      PROVE  /\ managers'[i] \in Clusters /\ SamePoints(managers[i], managers'[i])
             /\ managers'[i].current = managers[i].current
             /\ managers'[i].adaptors = managers[i].adaptors
             /\ managers'[i].optimizers = ClauseAdded(managers[i].optimizers, managers[i].current, c)
  <2>1. /\ managers'[i] = AddClause(managers[i], c) /\ managers[i] \in Clusters
        /\ managers[i].current \in DOMAIN managers[i].optimizers
    BY <1>1, <1>2
  <2> QED BY <2>1, AddClauseFacts
<1>4. managers' \in Seq(Clusters) /\ Len(managers') = Len(managers) /\ managers' # <<>>
  BY <1>1, <1>2, <1>3, AllReplaced
<1>5. Defined /\ SameAdaptors BY <1>2, <1>3, <1>4 DEF Defined, SameAdaptors
<1>6. \A i \in 1 .. Len(managers) :
        DOMAIN managers'[i].optimizers = DOMAIN managers[i].optimizers
  BY <1>3 DEF ClauseAdded
<1>7. /\ wanted \in DOMAIN managers'[1].optimizers
      /\ \A i \in 1 .. Len(managers) :
           /\ managers'[i].current \in DOMAIN managers'[i].optimizers
           /\ DOMAIN managers'[i].optimizers = DOMAIN managers'[1].optimizers
  BY <1>1, <1>3, <1>6 DEF ShapeInv, SameStates
<1>8. ~strayed => \A i \in 1 .. Len(managers) :
        managers'[i].current = wanted /\ managers'[i].optimizers = managers'[1].optimizers
  BY <1>1, <1>3 DEF ShapeInv, UnstrayedAgree
<1> QED BY <1>2, <1>5, <1>7, <1>8, DefinedAlike

\* remove_constraint, in every cluster.
LEMMA RemoveClauseStep ==
  ASSUME ShapeInv, NEW c \in Clauses, RemoveConstraint(c)
  PROVE  Defined /\ SameAdaptors /\ SameStates' /\ UnstrayedAgree'
<1>1. /\ Shape /\ DOMAIN managers = 1 .. Len(managers) /\ 1 \in 1 .. Len(managers)
      /\ \A i \in 1 .. Len(managers) :
           managers[i] \in Clusters /\ managers[i].current \in DOMAIN managers[i].optimizers
  BY ShapeFacts DEF ShapeInv, SameStates
<1>2. /\ managers' = [i \in DOMAIN managers |-> RemoveClause(managers[i], c)]
      /\ active' = active /\ wanted' = wanted /\ strayed' = strayed
  BY DEF RemoveConstraint, DefineProblem, ForAll
<1>3. ASSUME NEW i \in 1 .. Len(managers)
      PROVE  /\ managers'[i] \in Clusters /\ SamePoints(managers[i], managers'[i])
             /\ managers'[i].current = managers[i].current
             /\ managers'[i].adaptors = managers[i].adaptors
             /\ managers'[i].optimizers = ClauseRemoved(managers[i].optimizers, managers[i].current, c)
  <2>1. /\ managers'[i] = RemoveClause(managers[i], c) /\ managers[i] \in Clusters
        /\ managers[i].current \in DOMAIN managers[i].optimizers
    BY <1>1, <1>2
  <2> QED BY <2>1, RemoveClauseFacts
<1>4. managers' \in Seq(Clusters) /\ Len(managers') = Len(managers) /\ managers' # <<>>
  BY <1>1, <1>2, <1>3, AllReplaced
<1>5. Defined /\ SameAdaptors BY <1>2, <1>3, <1>4 DEF Defined, SameAdaptors
<1>6. \A i \in 1 .. Len(managers) :
        DOMAIN managers'[i].optimizers = DOMAIN managers[i].optimizers
  BY <1>3 DEF ClauseRemoved
<1>7. /\ wanted \in DOMAIN managers'[1].optimizers
      /\ \A i \in 1 .. Len(managers) :
           /\ managers'[i].current \in DOMAIN managers'[i].optimizers
           /\ DOMAIN managers'[i].optimizers = DOMAIN managers'[1].optimizers
  BY <1>1, <1>3, <1>6 DEF ShapeInv, SameStates
<1>8. ~strayed => \A i \in 1 .. Len(managers) :
        managers'[i].current = wanted /\ managers'[i].optimizers = managers'[1].optimizers
  BY <1>1, <1>3 DEF ShapeInv, UnstrayedAgree
<1> QED BY <1>2, <1>5, <1>7, <1>8, DefinedAlike

\* add_runtime_knowledge and remove_all_runtime_knowledge, in every cluster.
Equipped(a) == managers' = [i \in DOMAIN managers |-> SetAdaptors(managers[i], a)]

\* The clusters keep their problem and their points, and point to the adaptors a.
LEMMA AdaptorStep ==
  ASSUME ShapeInv, NEW a \in Nat, active' = active, wanted' = wanted, strayed' = strayed,
         Equipped(a)
  PROVE  /\ Defined /\ SameStates' /\ UnstrayedAgree'
         /\ \A i \in 1 .. Len(managers) : managers'[i].adaptors = a
<1>1. /\ Shape /\ DOMAIN managers = 1 .. Len(managers) /\ 1 \in 1 .. Len(managers)
      /\ \A i \in 1 .. Len(managers) : managers[i] \in Clusters
  BY ShapeFacts DEF ShapeInv
<1>2. ASSUME NEW i \in 1 .. Len(managers)
      PROVE  /\ managers'[i] \in Clusters /\ SamePoints(managers[i], managers'[i])
             /\ managers'[i].current = managers[i].current /\ managers'[i].adaptors = a
             /\ managers'[i].optimizers = managers[i].optimizers
  <2>1. managers'[i] = SetAdaptors(managers[i], a) /\ managers[i] \in Clusters BY <1>1 DEF Equipped
  <2>2. PICK m \in Clusters : m = managers[i] BY <2>1
  <2>3. PICK n : n = SetAdaptors(m, a) OBVIOUS
  <2>4. n \in Clusters /\ SamePoints(m, n) /\ n.current = m.current /\ n.adaptors = a
        /\ n.optimizers = m.optimizers
    BY <2>3, AdaptorFacts
  <2> QED BY <2>1, <2>2, <2>3, <2>4
<1>3. managers' \in Seq(Clusters) /\ Len(managers') = Len(managers) /\ managers' # <<>>
  BY <1>1, <1>2, AllReplaced DEF Equipped
<1>4. Defined BY <1>2, <1>3 DEF Defined
<1>5. /\ wanted \in DOMAIN managers'[1].optimizers
      /\ \A i \in 1 .. Len(managers) :
           /\ managers'[i].current \in DOMAIN managers'[i].optimizers
           /\ DOMAIN managers'[i].optimizers = DOMAIN managers'[1].optimizers
  BY <1>1, <1>2 DEF ShapeInv, SameStates
<1>6. ~strayed => \A i \in 1 .. Len(managers) :
        managers'[i].current = wanted /\ managers'[i].optimizers = managers'[1].optimizers
  BY <1>1, <1>2 DEF ShapeInv, UnstrayedAgree
<1> QED BY <1>2, <1>4, <1>5, <1>6, DefinedAlike

\* add_operating_points and remove_operating_points, in the active cluster.
LEMMA KnowledgeStep ==
  ASSUME ShapeInv, NEW c \in Confs, AddPoints({c}) \/ RemovePoints({c})
  PROVE  \E n \in Clusters :
           /\ Updated(active, n) /\ SameProblem(Current, n)
           /\ n.application = Current.application /\ n.status = Current.status
<1>1. Shape /\ active \in 1 .. Len(managers) /\ Current \in Clusters
  BY ShapeFacts DEF ShapeInv, Shape
<1>2. ops \in 0 .. MaxOps /\ ops < MaxOps
  BY DEF ShapeInv, Shape, AddPoints, RemovePoints, ChangeKnowledge, Call
<1>3. Allocate({c}) \in SUBSET OpsOf(Confs) BY <1>2, AllocateFacts
<1>4. CASE AddPoints({c})
  <2> DEFINE n == AddOperatingPoints(Current, Allocate({c}))
  <2>1. managers' = [managers EXCEPT ![active] = n] BY <1>4 DEF AddPoints, ChangeKnowledge
  <2>2. /\ n \in Clusters /\ SameProblem(Current, n)
        /\ n.application = Current.application /\ n.status = Current.status
    BY <1>1, <1>3, KnowledgeFacts
  <2> HIDE DEF n
  <2>3. Updated(active, n) BY <1>1, <2>1, <2>2, ReplaceOne DEF Updated
  <2> QED BY <2>2, <2>3
<1>5. CASE RemovePoints({c})
  <2> DEFINE n == RemoveOperatingPoints(Current, {c})
  <2>1. managers' = [managers EXCEPT ![active] = n] BY <1>5 DEF RemovePoints, ChangeKnowledge
  <2>2. /\ n \in Clusters /\ SameProblem(Current, n)
        /\ n.application = Current.application /\ n.status = Current.status
    BY <1>1, <1>3, KnowledgeFacts
  <2> HIDE DEF n
  <2>3. Updated(active, n) BY <1>1, <2>1, <2>2, ReplaceOne DEF Updated
  <2> QED BY <2>2, <2>3
<1> QED BY <1>4, <1>5

-----------------------------------------------------------------------------
(* The clusters keep their types, their states and their problem.          *)

\* The initial state: one cluster, built by the generated code.
LEMMA ShapeInit == Init => ShapeInv
<1> SUFFICES ASSUME Init PROVE ShapeInv OBVIOUS
<1> DEFINE empty   == [t \in States |-> {}]
           problem == [NewManager EXCEPT !.optimizers = empty,
                                         !.current = FirstState, !.adaptors = 1]
           known   == AddOperatingPoints(problem, [conf : Confs, made : {0}])
           started == IF kind = "PLAIN" THEN StartSupportThread(problem)
                                        ELSE SetAutotunerInDse(problem)
           bare    == IF agora THEN started ELSE known
<1>0. DOMAIN empty = States OBVIOUS
<1> HIDE DEF empty
<1>1. problem = [knowledge |-> {}, optimizers |-> empty, current |-> FirstState,
                 adaptors |-> 1, application |-> Null, proposed |-> Null, status |-> "UNDEFINED"]
  <2>1. PICK n : n = problem OBVIOUS
  <2>2. n = [knowledge |-> {}, optimizers |-> empty, current |-> FirstState,
             adaptors |-> 1, application |-> Null, proposed |-> Null, status |-> "UNDEFINED"]
    BY <2>1 DEF NewManager
  <2> HIDE DEF problem
  <2> QED BY <2>1, <2>2
<1>2. empty \in Problems
  <2>1. empty \in [States -> SUBSET Clauses] BY DEF empty
  <2> QED BY <2>1 DEF Problems
<1>3. problem \in Bare BY <1>1, <1>2, DataAwareAssumption DEF Bare, ApplicationStatus
<1>4. /\ problem.optimizers = empty /\ problem.current = FirstState BY <1>1
<1> HIDE DEF problem
<1>5. started \in Bare /\ started.optimizers = problem.optimizers /\ started.current = problem.current
  BY <1>3 DEF StartSupportThread, SetAutotunerInDse, Bare, ApplicationStatus, DSE
<1>6. [conf : Confs, made : {0}] \in SUBSET OpsOf(Confs) BY DataAwareAssumption DEF OpsOf
<1>7. known \in Bare /\ known.optimizers = problem.optimizers /\ known.current = problem.current
  BY <1>3, <1>6 DEF AddOperatingPoints, KnowledgeAdd, Bare
<1> HIDE DEF started, known
<1>8. bare \in Bare /\ bare.optimizers = empty /\ bare.current = FirstState
  BY <1>4, <1>5, <1>7
<1>9. FirstKey \in Features BY DataAwareAssumption
<1>10. managers = <<WithKey(bare, FirstKey)>>
  BY DEF Init, Built, bare, started, known, problem, empty
<1> HIDE DEF bare
<1> DEFINE m == WithKey(bare, FirstKey)
<1>11. m \in Clusters /\ m.optimizers = empty /\ m.current = FirstState
  BY <1>8, <1>9, WithKeyFacts
<1> HIDE DEF m
<1>12. /\ managers \in Seq(Clusters) /\ managers # <<>> /\ Len(managers) = 1 /\ managers[1] = m
       /\ DOMAIN managers = 1 .. 1
  BY <1>10, <1>11 DEF m
<1>13. Shape BY <1>12, DataAwareAssumption DEF Init, Shape, Places, Faults
<1>14. SameStates BY <1>0, <1>11, <1>12, DataAwareAssumption DEF Init, SameStates
<1>15. UnstrayedAgree BY <1>11, <1>12 DEF Init, UnstrayedAgree
<1> QED BY <1>13, <1>14, <1>15 DEF ShapeInv

\* The loop of the application.
LEMMA ShapeLoop ==
  ASSUME ShapeInv, Loop
  PROVE  ShapeInv'
<1> USE DEF Goto, Quiet, fixed, shared, ghosts
<1>0. Shape /\ active \in 1 .. Len(managers) /\ Current \in Clusters
  BY ShapeFacts DEF ShapeInv, Shape
<1>1. ASSUME NEW f, f \in (IF kind = "PLAIN" THEN {FirstKey} ELSE Inputs), SelectFeatureCluster(f)
      PROVE  ShapeInv'
  <2>1. kind # "PLAIN" => f \in Inputs BY <1>1
  <2>2. /\ active' \in 1 .. Len(managers)
        /\ \/ managers' = managers
           \/ Updated(active', RestoreFromDataFeatureSwitch(managers[active']))
    BY <1>1, <2>1, SelectStep
  <2>3. wanted' = wanted /\ strayed' = strayed BY <1>1 DEF SelectFeatureCluster
  <2>4. CASE managers' = managers
    <3>1. SameStates' /\ UnstrayedAgree' BY <2>3, <2>4, UnchangedKeeps
    <3>2. Shape' BY <1>0, <1>1, <2>2, <2>4 DEF SelectFeatureCluster, Shape, Places
    <3> QED BY <3>1, <3>2 DEF ShapeInv
  <2>5. CASE Updated(active', RestoreFromDataFeatureSwitch(managers[active']))
    <3>1. managers[active'] \in Clusters BY <1>0, <2>2, ShapeFacts
    <3>2. /\ RestoreFromDataFeatureSwitch(managers[active']) \in Clusters
          /\ SameProblem(managers[active'], RestoreFromDataFeatureSwitch(managers[active']))
      BY <3>1, RestoreFacts
    <3>3. SameStates' /\ UnstrayedAgree' BY <2>2, <2>3, <2>5, <3>2, UpdatedKeeps
    <3>4. Shape' BY <1>0, <1>1, <2>2, <2>5 DEF SelectFeatureCluster, Shape, Places, Updated
    <3> QED BY <3>3, <3>4 DEF ShapeInv
  <2> QED BY <2>2, <2>4, <2>5
<1>2. ASSUME managers' = managers, active' = active, wanted' = wanted, strayed' = strayed,
             pc' \in Places, fault' \in Faults, kind' = kind, agora' = agora, inforce' = inforce,
             ops' = ops, observed' \subseteq Confs \cup {Default}
      PROVE  ShapeInv'
  <2>1. SameStates' /\ UnstrayedAgree' BY <1>2, UnchangedKeeps
  <2>2. Shape' BY <1>0, <1>2 DEF Shape
  <2> QED BY <2>1, <2>2 DEF ShapeInv
<1>d. ASSUME NEW f, SelectionDies(f) PROVE ShapeInv'
  BY <1>0, <1>2, <1>d DEF SelectionDies, Abort, Shape, Places, Faults
<1>3. CASE IsApplicationKnowledgeEmpty BY <1>0, <1>2, <1>3 DEF IsApplicationKnowledgeEmpty, Shape, Places
<1>4. CASE FindBest
  <2>1. CASE fault' = "none"
    <3>1. PICK n \in Clusters : Updated(active, n) /\ SameProblem(Current, n) BY <1>4, <2>1, FindStep
    <3>2. /\ wanted' = wanted /\ strayed' = strayed /\ active' = active /\ pc' = "get"
          /\ UNCHANGED <<kind, agora, ops, fault, inforce, observed>>
      BY <1>4, <2>1 DEF FindBest, Abort
    <3>3. SameStates' /\ UnstrayedAgree' BY <1>0, <3>1, <3>2, UpdatedKeeps DEF Current
    <3>4. Shape' BY <1>0, <3>1, <3>2 DEF Shape, Places, Updated
    <3> QED BY <3>3, <3>4 DEF ShapeInv
  <2>2. CASE fault' # "none" BY <1>0, <1>2, <1>4, <2>2 DEF FindBest, Abort, Shape, Places, Faults
  <2> QED BY <2>1, <2>2
<1>5. CASE GetBest
  <2>1. CASE fault' = "none"
    <3> DEFINE n == GetBestConfiguration(Current)
    <3>1. Updated(active, n) /\ n \in Clusters /\ Current.proposed # Null BY <1>5, <2>1, GetStep
    <3>2. SameProblem(Current, n) BY <1>0, GetFacts
    <3> HIDE DEF n
    <3>3. /\ wanted' = wanted /\ strayed' = strayed /\ active' = active /\ pc' \in Places
          /\ UNCHANGED <<kind, agora, ops, fault, observed>>
          /\ inforce' = inforce \/ inforce' = Current.proposed.conf
      BY <1>5, <2>1 DEF GetBest, Abort, Places
    <3>4. inforce' \in Confs \cup {Default} BY <1>0, <3>1, <3>3 DEF Shape, Clusters, OpsOf
    <3>5. SameStates' /\ UnstrayedAgree' BY <1>0, <3>1, <3>2, <3>3, UpdatedKeeps DEF Current
    <3>6. Shape' BY <1>0, <3>1, <3>3, <3>4 DEF Shape, Updated
    <3> QED BY <3>5, <3>6 DEF ShapeInv
  <2>2. CASE fault' # "none" BY <1>0, <1>2, <1>5, <2>2 DEF GetBest, Abort, Shape, Places, Faults
  <2> QED BY <2>1, <2>2
<1>6. CASE Applied
  <2> DEFINE n == ConfigurationApplied(Current)
  <2>1. Updated(active, n) /\ n \in Clusters BY <1>6, AppliedStep
  <2>2. SameProblem(Current, n) BY <1>0, AppliedFacts
  <2> HIDE DEF n
  <2>3. /\ wanted' = wanted /\ strayed' = strayed /\ active' = active /\ pc' = "run"
        /\ UNCHANGED <<kind, agora, ops, fault, inforce>>
        /\ observed' = {} \/ observed' = observed
    BY <1>6 DEF Applied
  <2>4. SameStates' /\ UnstrayedAgree' BY <1>0, <2>1, <2>2, <2>3, UpdatedKeeps DEF Current
  <2>5. Shape' BY <1>0, <2>1, <2>3 DEF Shape, Places, Updated
  <2> QED BY <2>4, <2>5 DEF ShapeInv
<1>7. CASE RunBlock BY <1>0, <1>2, <1>7 DEF RunBlock, Shape, Places
<1>8. CASE Report BY <1>0, <1>2, <1>8 DEF Report, Shape, Places
<1>9. CASE Log BY <1>0, <1>2, <1>9 DEF Log, Shape, Places
<1>10. CASE GetMean BY <1>0, <1>2, <1>10 DEF GetMean, Abort, Shape, Places, Faults
<1> QED BY <1>1, <1>d, <1>3, <1>4, <1>5, <1>6, <1>7, <1>8, <1>9, <1>10 DEF Loop

\* The messages of the remote handler.
LEMMA ShapeMessage ==
  ASSUME ShapeInv, SupportThread
  PROVE  ShapeInv'
<1>0. Shape /\ SameStates /\ UnstrayedAgree BY DEF ShapeInv
<1>1. /\ UNCHANGED <<kind, agora, pc, inforce, observed, fault>> /\ ops' \in 0 .. MaxOps
      /\ KeptTold \/ ClonesTold
  <2>1. ASSUME Message PROVE UNCHANGED <<kind, agora, pc, inforce, observed, fault>> /\ ops' \in 0 .. MaxOps
    BY <1>0, <2>1, DataAwareAssumption DEF Message, fixed, app, Shape
  <2>2. ASSUME NEW c \in Confs, Explore(c) PROVE Message /\ KeptTold BY <2>2, ExploreStep DEF Explore
  <2>3. ASSUME NEW model \in Models, Predict(model) PROVE Message /\ (KeptTold \/ ClonesTold)
    BY <2>3, PredictStep DEF Predict
  <2> QED BY <2>1, <2>2, <2>3 DEF SupportThread
<1>2. CASE KeptTold
  <2>1. SameStates' /\ UnstrayedAgree' BY <1>2, SameProblems DEF KeptTold
  <2>2. Shape' BY <1>0, <1>1, <1>2 DEF Shape, KeptTold
  <2> QED BY <2>1, <2>2 DEF ShapeInv
<1>3. CASE ClonesTold
  <2>1. /\ managers' \in Seq(Clusters) /\ managers' # <<>> /\ active' = 1 /\ wanted' = wanted
    BY <1>3 DEF ClonesTold
  <2>2. /\ Len(managers') \in Nat \ {0} /\ DOMAIN managers' = 1 .. Len(managers')
        /\ 1 \in 1 .. Len(managers')
    BY <2>1, LenProperties, EmptySeq
  <2>3. PICK s \in DOMAIN managers[1].optimizers :
          /\ strayed' = (strayed \/ s # wanted)
          /\ \A i \in 1 .. Len(managers') :
               managers'[i].optimizers = managers[1].optimizers /\ managers'[i].current = s
    BY <1>3 DEF ClonesTold
  <2>4. SameStates' BY <1>0, <2>1, <2>2, <2>3 DEF SameStates
  <2>5. UnstrayedAgree' BY <2>1, <2>2, <2>3 DEF UnstrayedAgree
  <2>6. Shape' BY <1>0, <1>1, <2>1, <2>2 DEF Shape
  <2> QED BY <2>4, <2>5, <2>6 DEF ShapeInv
<1> QED BY <1>1, <1>2, <1>3

\* The calls between two rounds.
LEMMA ShapeCall ==
  ASSUME ShapeInv, Calls
  PROVE  ShapeInv'
<1>0. Shape /\ SameStates /\ UnstrayedAgree /\ active \in 1 .. Len(managers) /\ Current \in Clusters
  BY ShapeFacts DEF ShapeInv, Shape
<1>1. ASSUME Call
      PROVE  /\ UNCHANGED <<kind, agora, pc, inforce>> /\ ops' \in 0 .. MaxOps
             /\ ops + 1 \in Nat
  BY <1>0, <1>1, DataAwareAssumption DEF Call, fixed, Shape
<1>2. ASSUME Call, Defined, SameStates', UnstrayedAgree', fault' \in Faults,
             observed' = observed \/ observed' = {}
      PROVE  ShapeInv'
  <2>1. Shape' BY <1>0, <1>1, <1>2 DEF Shape, Defined
  <2> QED BY <1>2, <2>1 DEF ShapeInv
<1>3. ASSUME NEW k \in Keys, AddFeatureCluster(k) PROVE ShapeInv'
  <2>1. Call /\ UNCHANGED <<observed, fault, wanted>> BY <1>3 DEF AddFeatureCluster
  <2> DEFINE l == Len(managers) + 1
             n == managers'[l]
  <2>2. /\ managers' \in Seq(Clusters) /\ managers' # <<>> /\ Len(managers') = l
        /\ \A i \in 1 .. Len(managers) : managers'[i] = managers[i]
        /\ n.optimizers = managers[1].optimizers /\ n.current \in DOMAIN managers[1].optimizers
        /\ strayed' = (strayed \/ n.current # wanted)
        /\ active' \in 1 .. active
    BY <1>3, AddClusterStep
  <2>3. /\ Len(managers) \in Nat \ {0} /\ DOMAIN managers = 1 .. Len(managers)
        /\ 1 \in 1 .. Len(managers)
    BY <1>0, ShapeFacts
  <2>4. DOMAIN managers' = 1 .. l BY <2>2, LenProperties
  <2> HIDE DEF n
  <2>5. \A i \in 1 .. l : i \in 1 .. Len(managers) \/ i = l BY <2>3
  <2>6. managers'[1] = managers[1] BY <2>2, <2>3
  <2>7. SameStates'
    <3> SUFFICES ASSUME NEW i \in 1 .. l
                 PROVE  /\ managers'[i].current \in DOMAIN managers'[i].optimizers
                        /\ DOMAIN managers'[i].optimizers = DOMAIN managers[1].optimizers
      BY <1>0, <2>1, <2>2, <2>6 DEF SameStates
    <3>1. CASE i \in 1 .. Len(managers) BY <1>0, <2>2, <3>1 DEF SameStates
    <3>2. CASE i = l BY <2>2, <3>2 DEF n
    <3> QED BY <2>5, <3>1, <3>2
  <2>8. UnstrayedAgree'
    <3> SUFFICES ASSUME ~strayed', NEW i \in 1 .. l
                 PROVE  managers'[i].current = wanted /\ managers'[i].optimizers = managers[1].optimizers
      BY <2>1, <2>4, <2>6 DEF UnstrayedAgree
    <3>1. ~strayed /\ n.current = wanted BY <2>2
    <3>2. CASE i \in 1 .. Len(managers) BY <1>0, <2>2, <2>3, <3>1, <3>2 DEF UnstrayedAgree
    <3>3. CASE i = l BY <2>2, <3>1, <3>3 DEF n
    <3> QED BY <2>5, <3>2, <3>3
  <2>9. active' \in 1 .. Len(managers') BY <1>0, <2>2, <2>3
  <2>10. Shape' BY <1>0, <1>1, <2>1, <2>2, <2>9 DEF Shape
  <2> QED BY <2>7, <2>8, <2>10 DEF ShapeInv
<1>4. ASSUME NEW s \in States, CreateState(s) PROVE ShapeInv'
  <2>1. Call /\ observed' = observed /\ fault' = fault BY <1>4 DEF CreateState, DefineProblem
  <2> QED BY <1>0, <1>2, <1>4, <2>1, CreateStateStep DEF Shape
<1>5. ASSUME NEW s \in States, RemoveTheState(s) PROVE ShapeInv'
  <2>1. Call /\ observed' = observed /\ (fault' = fault \/ fault' = "active_state") /\ fault = "none"
    BY <1>5 DEF RemoveTheState, DefineProblem, Call
  <2>2. CASE fault' = "none" BY <1>0, <1>2, <1>5, <2>1, <2>2, RemoveStateStep DEF Shape
  <2>3. CASE fault' # "none"
    <3>1. managers' = managers /\ active' = active /\ wanted' = wanted /\ strayed' = strayed
      BY <1>5, <2>1, <2>3 DEF RemoveTheState, DefineProblem, Call, shared
    <3>2. SameStates' /\ UnstrayedAgree' BY <3>1, UnchangedKeeps
    <3>3. Shape' BY <1>0, <1>1, <2>1, <3>1 DEF Shape, Faults
    <3> QED BY <3>2, <3>3 DEF ShapeInv
  <2> QED BY <2>2, <2>3
<1>6. ASSUME NEW s \in States, ChangeState(s) PROVE ShapeInv'
  <2>1. Call /\ observed' = observed /\ fault' = fault BY <1>6 DEF ChangeState, DefineProblem
  <2> QED BY <1>0, <1>2, <1>6, <2>1, ChangeStateStep DEF Shape
<1>7. ASSUME NEW c \in Clauses, AddConstraint(c) PROVE ShapeInv'
  <2>1. Call /\ observed' = observed /\ fault' = fault BY <1>7 DEF AddConstraint, DefineProblem
  <2> QED BY <1>0, <1>2, <1>7, <2>1, AddClauseStep DEF Shape
<1>8. ASSUME NEW c \in Clauses, RemoveConstraint(c) PROVE ShapeInv'
  <2>1. Call /\ observed' = observed /\ fault' = fault BY <1>8 DEF RemoveConstraint, DefineProblem
  <2> QED BY <1>0, <1>2, <1>8, <2>1, RemoveClauseStep DEF Shape
<1>9. ASSUME NEW c \in Confs, AddPoints({c}) \/ RemovePoints({c}) PROVE ShapeInv'
  <2>1. Call /\ UNCHANGED <<active, observed, fault, wanted, strayed>>
    BY <1>9 DEF AddPoints, RemovePoints, ChangeKnowledge
  <2>2. PICK n \in Clusters : Updated(active, n) /\ SameProblem(Current, n) BY <1>9, KnowledgeStep
  <2>3. SameStates' /\ UnstrayedAgree' BY <1>0, <2>1, <2>2, UpdatedKeeps DEF Current
  <2>4. Shape' BY <1>0, <1>1, <2>1, <2>2 DEF Shape, Updated
  <2> QED BY <2>3, <2>4 DEF ShapeInv
<1>10. CASE RemoveRuntimeKnowledge
  <2>1. /\ Call /\ UNCHANGED <<active, observed, fault, wanted, strayed>>
        /\ Equipped(0)
    BY <1>10 DEF RemoveRuntimeKnowledge, DefineProblem, ForAll, Equipped
  <2>2. Defined /\ SameStates' /\ UnstrayedAgree' BY <2>1, AdaptorStep
  <2> QED BY <1>0, <1>2, <2>1, <2>2 DEF Shape
<1>11. ASSUME NewAdaptors, observed' = observed \/ observed' = {} PROVE ShapeInv'
  <2>1. /\ Call /\ UNCHANGED <<active, fault, wanted, strayed>>
        /\ Equipped(ops + 1)
    BY <1>11 DEF NewAdaptors, ForAll, Equipped
  <2>2. ops + 1 \in Nat BY <1>1, <2>1
  <2>3. PICK a \in Nat : a = ops + 1 BY <2>2
  <2>4. Defined /\ SameStates' /\ UnstrayedAgree' BY <2>1, <2>3, AdaptorStep
  <2> QED BY <1>0, <1>2, <1>11, <2>1, <2>4 DEF Shape
<1>12. CASE AddRuntimeKnowledge BY <1>11, <1>12 DEF AddRuntimeKnowledge
<1>13. CASE GlobalInit BY <1>11, <1>13 DEF GlobalInit
<1> QED BY <1>3, <1>4, <1>5, <1>6, <1>7, <1>8, <1>9, <1>10, <1>12, <1>13 DEF Calls

\* ShapeInv is inductive.
LEMMA ShapeNext == ShapeInv /\ [Next]_vars => ShapeInv'
<1> SUFFICES ASSUME ShapeInv, [Next]_vars PROVE ShapeInv' OBVIOUS
<1>1. CASE UNCHANGED vars
  BY <1>1 DEF vars, ShapeInv, Shape, SameStates, UnstrayedAgree
<1>2. CASE Aborted BY <1>1, <1>2 DEF Aborted
<1> QED BY <1>1, <1>2, ShapeLoop, ShapeMessage, ShapeCall DEF Next

\* Every reachable state has clusters of the right shape with the same states.
LEMMA ShapeInvariant == Spec => []ShapeInv
BY ShapeInit, ShapeNext, PTL DEF Spec

\* The type of every member of every manager, for any set of configurations, states,
\* clauses and features and any sequence of messages and calls.
THEOREM ManagersAreWellFormed == Spec => []TypeOK
<1>1. ShapeInv => TypeOK
  <2> SUFFICES ASSUME ShapeInv PROVE TypeOK OBVIOUS
  <2>1. /\ Shape /\ DOMAIN managers = 1 .. Len(managers)
        /\ \A i \in 1 .. Len(managers) : managers[i] \in Clusters
    BY ShapeFacts DEF ShapeInv
  <2>2. ASSUME NEW i \in DOMAIN managers
        PROVE  /\ managers[i].knowledge \subseteq OpsOf(Confs)
               /\ managers[i].optimizers \in Problems
               /\ managers[i].current \in DOMAIN managers[i].optimizers
               /\ {managers[i].application, managers[i].proposed} \subseteq OpsOf(Confs) \cup {Null}
               /\ managers[i].status \in ApplicationStatus
    BY <2>1 DEF Clusters, ShapeInv, SameStates
  <2> QED BY <2>1, <2>2 DEF TypeOK, Shape, Places
<1> QED BY <1>1, ShapeInvariant, PTL

\* create_sibling, create_new_state, remove_state, change_active_state and the messages
\* keep the same states in every cluster, with the one the application activated among
\* them, for any number of clusters and also after create_sibling left another state
\* active.
THEOREM ClustersAgree == Spec => []StatesAgree
<1>1. ShapeInv => StatesAgree
  <2> SUFFICES ASSUME ShapeInv PROVE StatesAgree OBVIOUS
  <2>1. DOMAIN managers = 1 .. Len(managers) BY ShapeFacts DEF ShapeInv
  <2> QED BY <2>1 DEF ShapeInv, SameStates, StatesAgree
<1> QED BY <1>1, ShapeInvariant, PTL

-----------------------------------------------------------------------------
(* A null Operating Point is met only after the support thread came in     *)
(* between, or where nothing is known.                                     *)

\* As long as no call has met a null Operating Point: the state is asked only when
\* the manager knows something; and if the support thread did not come in between,
\* a manager that believes it is tuned runs a configuration, a proposal is there to
\* be taken, and a delta is asked only of a manager that runs something.
PointsInPlace ==
  fault = "none" =>
    /\ pc = "find" => Current.knowledge # {}
    /\ raced = FALSE =>
         /\ \A i \in 1 .. Len(managers) :
              managers[i].status = "TUNED" => managers[i].application # Null
         /\ pc \in {"get", "apply"} => Current.proposed # Null
         /\ pc \in {"run", "report", "log"} =>
              Exploring \/ Current.knowledge = {} \/ Current.application # Null
         /\ pc \in {"mean", "expected"} => Current.knowledge = {} \/ Current.application # Null

PointsInv == raced \in BOOLEAN /\ PointsInPlace /\ FaultsHaveACause

\* The generated code builds one cluster, which runs nothing yet.
LEMMA BuiltIdle == Init => Len(managers) = 1 /\ managers[1].status # "TUNED"
<1> SUFFICES ASSUME Init PROVE Len(managers) = 1 /\ managers[1].status # "TUNED" OBVIOUS
<1> DEFINE problem == [NewManager EXCEPT !.optimizers = [t \in States |-> {}],
                                         !.current = FirstState, !.adaptors = 1]
<1>1. problem.status = "UNDEFINED" /\ "status" \in DOMAIN problem BY DEF NewManager
<1> HIDE DEF problem
<1> DEFINE known   == AddOperatingPoints(problem, [conf : Confs, made : {0}])
           started == IF kind = "PLAIN" THEN StartSupportThread(problem)
                                        ELSE SetAutotunerInDse(problem)
           bare    == IF agora THEN started ELSE known
<1>2. known.status = "UNDEFINED" /\ "status" \in DOMAIN known BY <1>1 DEF AddOperatingPoints
<1>3. started.status = DSE /\ "status" \in DOMAIN started
  BY <1>1 DEF StartSupportThread, SetAutotunerInDse
<1> HIDE DEF known, started
<1>4. bare.status # "TUNED" /\ "status" \in DOMAIN bare BY <1>2, <1>3 DEF DSE
<1>5. managers = <<WithKey(bare, FirstKey)>>
  BY DEF Init, Built, bare, started, known, problem
<1> HIDE DEF bare
<1>6. WithKey(bare, FirstKey).status # "TUNED" BY <1>4 DEF WithKey
<1> QED BY <1>5, <1>6

\* Nothing is dereferenced before the first round.
LEMMA PointsInit == Init => PointsInv
<1> SUFFICES ASSUME Init PROVE PointsInv OBVIOUS
<1>1. PointsInPlace BY BuiltIdle DEF Init, PointsInPlace
<1>2. FaultsHaveACause BY DEF Init, FaultsHaveACause
<1> QED BY <1>1, <1>2 DEF Init, PointsInv

\* The bounds of three numbers.
LEMMA ThreeBounds ==
  ASSUME NEW p \in Int, NEW q \in Int, NEW r \in Int
  PROVE  LET S == {p, q, r} IN /\ Max(S) \in S /\ \A v \in S : v <= Max(S)
                               /\ Min(S) \in S /\ \A v \in S : Min(S) <= v
<1> DEFINE S == {p, q, r}
<1>1. \E u \in S : \A v \in S : u >= v OBVIOUS
<1>2. \E u \in S : \A v \in S : u <= v OBVIOUS
<1> HIDE DEF S
<1>3. Max(S) \in S /\ \A v \in S : Max(S) >= v BY <1>1 DEF Max
<1>4. Min(S) \in S /\ \A v \in S : Min(S) <= v BY <1>2 DEF Min
<1>5. \A v \in S : v \in Int BY DEF S
<1>6. \A v \in S : v <= Max(S) BY <1>3, <1>5
<1> QED BY <1>3, <1>4, <1>6 DEF S

\* A division by zero: two clusters agree in a coordinate.
LEMMA ClustersMeet ==
  ASSUME ShapeInv, NEW f \in Features, SelectionFails(kind, f, KeysOf(managers))
  PROVE  /\ kind = "INTEGRAL"
         /\ \E i, j \in DOMAIN managers : \E n \in DOMAIN Comparisons :
              i # j /\ managers[i].key[n] = managers[j].key[n]
<1> DEFINE ks == KeysOf(managers)
<1>1. /\ Len(ks) = Len(managers) /\ Len(managers) \in Nat \ {0} /\ DOMAIN managers = 1 .. Len(managers)
      /\ \A i \in 1 .. Len(managers) : ks[i] = managers[i].key /\ ks[i] \in Features
      /\ managers \in Seq(Clusters)
  BY KeysFacts, ShapeFacts DEF ShapeInv, Shape
<1>2. ks \in Seq(Features) BY <1>1, IsASeq DEF KeysOf
<1> HIDE DEF ks
<1>3. PICK i \in 2 .. Len(ks) :
        DividesByZero(kind, f, ks[ClosestOf(kind, f, SubSeq(ks, 1, i - 1))], ks[i])
  BY DEF SelectionFails, ks
<1> DEFINE before == SubSeq(ks, 1, i - 1)
           b == ClosestOf(kind, f, before)
<1>4. Len(before) = i - 1 /\ \A j \in 1 .. i - 1 : before[j] = ks[j]
  BY <1>1, <1>2, SubSeqProperties
<1> HIDE DEF before
<1>5. Len(before) \in Nat \ {0} /\ \A j \in 1 .. Len(before) : before[j] \in Features BY <1>1, <1>4
<1>6. b \in 1 .. i - 1 BY <1>4, <1>5, ClosestIsChampion
<1>7. kind = "INTEGRAL" /\ \E n \in DOMAIN f : Width(f, ks[b], ks[i], n) = 0
  BY <1>3 DEF DividesByZero, b, before
<1> HIDE DEF b
<1>8. PICK n \in DOMAIN f : Width(f, ks[b], ks[i], n) = 0 BY <1>7
<1>9. b \in DOMAIN managers /\ i \in DOMAIN managers /\ b # i BY <1>1, <1>6
<1>10. /\ n \in DOMAIN Comparisons /\ f[n] \in Int /\ ks[b][n] \in Int /\ ks[i][n] \in Int
  <2>1. n \in 1 .. Len(Comparisons) BY DEF Features
  <2>2. ks[b] \in Features /\ ks[i] \in Features BY <1>1, <1>9
  <2>3. DOMAIN Comparisons = 1 .. Len(Comparisons) BY FeaturesAssumption, LenProperties
  <2> QED BY <2>1, <2>2, <2>3 DEF Features
<1>11. ks[b][n] = ks[i][n]
  <2> DEFINE S == {f[n], ks[b][n], ks[i][n]}
  <2>1. Max(S) - Min(S) = 0 BY <1>8 DEF Width
  <2>2. /\ Max(S) \in S /\ \A v \in S : v <= Max(S)
        /\ Min(S) \in S /\ \A v \in S : Min(S) <= v
    BY <1>10, ThreeBounds
  <2> QED BY <1>10, <2>1, <2>2
<1> QED BY <1>1, <1>7, <1>9, <1>10, <1>11

\* A step of the loop that meets a null Operating Point has a cause.
LEMMA FaultStep ==
  ASSUME ShapeInv, PointsInv, Loop, fault' # "none"
  PROVE  PointsInv'
<1>0. /\ fault = "none" => active \in 1 .. Len(managers)
      /\ raced \in BOOLEAN /\ PointsInPlace
  BY DEF ShapeInv, Shape, PointsInv
<1>1. fault = "none" BY DEF Loop, SelectFeatureCluster, SelectionDies, IsApplicationKnowledgeEmpty,
        FindBest, GetBest, Applied, RunBlock, Report, Log, GetMean, Goto
<1>2. \/ FindBest \/ GetBest \/ GetMean
      \/ \E f \in IF kind = "PLAIN" THEN {FirstKey} ELSE Inputs : SelectionDies(f)
  BY <1>1 DEF Loop, SelectFeatureCluster, IsApplicationKnowledgeEmpty, Applied, RunBlock,
        Report, Log, Quiet
<1>3. UNCHANGED <<managers, active, raced, kind>>
  BY <1>1, <1>2 DEF FindBest, GetBest, GetMean, SelectionDies, Abort, Quiet, fixed, shared, ghosts
<1>4. CASE FindBest
  <2>1. Current.status = "TUNED" /\ Current.application = Null /\ fault' = "null_application"
    BY <1>1, <1>4 DEF FindBest, Abort, Quiet, FindDereferences
  <2>2. raced = TRUE BY <1>0, <1>1, <2>1 DEF PointsInPlace, Current
  <2> QED BY <1>3, <2>1, <2>2 DEF PointsInv, PointsInPlace, FaultsHaveACause
<1>5. CASE GetBest
  <2>1. Current.proposed = Null /\ fault' = "null_proposal" /\ pc = "get"
    BY <1>1, <1>5 DEF GetBest, Abort, Quiet, Goto
  <2>2. raced = TRUE BY <1>0, <1>1, <2>1 DEF PointsInPlace
  <2> QED BY <1>3, <2>1, <2>2 DEF PointsInv, PointsInPlace, FaultsHaveACause
<1>6. CASE GetMean
  <2>1. Current.application = Null /\ fault' = "null_mean" /\ pc \in {"mean", "expected"}
    BY <1>1, <1>6 DEF GetMean, Abort, Quiet, Goto
  <2>2. raced = TRUE \/ Current.knowledge = {} BY <1>0, <1>1, <2>1 DEF PointsInPlace
  <2> QED BY <1>3, <2>1, <2>2 DEF PointsInv, PointsInPlace, FaultsHaveACause, Current
<1>7. ASSUME NEW f \in IF kind = "PLAIN" THEN {FirstKey} ELSE Inputs, SelectionDies(f)
      PROVE  PointsInv'
  <2>1. fault' = "zero_width" /\ SelectionFails(kind, f, KeysOf(managers))
    BY <1>7 DEF SelectionDies, Abort
  <2>2. f \in Features BY DataAwareAssumption
  <2>3. /\ kind = "INTEGRAL"
        /\ \E i, j \in DOMAIN managers : \E n \in DOMAIN Comparisons :
             i # j /\ managers[i].key[n] = managers[j].key[n]
    BY <2>1, <2>2, ClustersMeet
  <2> QED BY <1>3, <2>1, <2>3 DEF PointsInv, PointsInPlace, FaultsHaveACause
<1> QED BY <1>2, <1>4, <1>5, <1>6, <1>7

\* The other steps of the loop.
LEMMA PointsLoop ==
  ASSUME ShapeInv, PointsInv, Loop, fault' = "none"
  PROVE  PointsInv'
<1> USE DEF Goto, Quiet, fixed, shared, ghosts
<1>0. Shape /\ active \in 1 .. Len(managers) /\ Current \in Clusters
  BY ShapeFacts DEF ShapeInv, Shape
<1>1. fault = "none" /\ raced' = raced /\ raced \in BOOLEAN
  BY DEF Loop, SelectFeatureCluster, SelectionDies, IsApplicationKnowledgeEmpty, FindBest,
        GetBest, Applied, RunBlock, Report, Log, GetMean, PointsInv, Abort
<1>2. FaultsHaveACause' BY DEF FaultsHaveACause
<1>3. /\ pc = "find" => Current.knowledge # {}
      /\ raced = FALSE =>
           /\ \A i \in 1 .. Len(managers) :
                managers[i].status = "TUNED" => managers[i].application # Null
           /\ pc \in {"get", "apply"} => Current.proposed # Null
           /\ pc \in {"run", "report", "log"} =>
                Exploring \/ Current.knowledge = {} \/ Current.application # Null
           /\ pc \in {"mean", "expected"} => Current.knowledge = {} \/ Current.application # Null
  BY <1>1 DEF PointsInv, PointsInPlace
<1>4. SUFFICES PointsInPlace' BY <1>1, <1>2 DEF PointsInv
<1>5. ASSUME NEW f, f \in (IF kind = "PLAIN" THEN {FirstKey} ELSE Inputs), SelectFeatureCluster(f)
      PROVE  PointsInPlace'
  <2>1. kind # "PLAIN" => f \in Inputs BY <1>5
  <2>2. /\ active' \in 1 .. Len(managers)
        /\ \/ managers' = managers
           \/ Updated(active', RestoreFromDataFeatureSwitch(managers[active']))
    BY <1>5, <2>1, SelectStep
  <2>3. pc' = "selected" BY <1>5 DEF SelectFeatureCluster
  <2>4. CASE managers' = managers BY <1>1, <1>3, <2>3, <2>4 DEF PointsInPlace
  <2>5. CASE Updated(active', RestoreFromDataFeatureSwitch(managers[active']))
    <3>1. managers[active'] \in Clusters BY <1>0, <2>2, ShapeFacts
    <3>2. RestoreFromDataFeatureSwitch(managers[active']).status # "TUNED" BY <3>1, RestoreFacts
    <3>3. \A i \in 1 .. Len(managers') :
            managers'[i].status = "TUNED" => i \in 1 .. Len(managers) /\ managers'[i] = managers[i]
      BY <2>5, <3>2 DEF Updated
    <3> QED BY <1>1, <1>3, <2>3, <3>3 DEF PointsInPlace
  <2> QED BY <2>2, <2>4, <2>5
<1>6. CASE IsApplicationKnowledgeEmpty
  <2>1. /\ managers' = managers /\ active' = active
        /\ \/ pc' = "run" /\ Current.knowledge = {}
           \/ pc' = "find" /\ Current.knowledge # {}
    BY <1>6 DEF IsApplicationKnowledgeEmpty, KnowledgeEmpty
  <2> QED BY <1>1, <1>3, <2>1 DEF PointsInPlace, Current
<1>7. ASSUME NEW n, Updated(active, n), active' = active,
             raced = FALSE /\ n.status = "TUNED" => n.application # Null
      PROVE  /\ Current' = n
             /\ raced = FALSE => \A i \in 1 .. Len(managers') :
                  managers'[i].status = "TUNED" => managers'[i].application # Null
  BY <1>0, <1>3, <1>7 DEF Updated, Current
<1>8. CASE FindBest
  <2>1. PICK n : /\ Updated(active, n) /\ n.knowledge = Current.knowledge
                 /\ n.application = Current.application /\ n.status = Current.status
                 /\ Current.knowledge # {} => n.proposed \in Current.knowledge
    BY <1>8, FindStep
  <2>2. pc = "find" /\ pc' = "get" /\ active' = active BY <1>8 DEF FindBest, Abort
  <2>3. raced = FALSE /\ n.status = "TUNED" => n.application # Null
    BY <1>0, <1>3, <2>1 DEF Current
  <2>4. n.proposed \in Current.knowledge BY <1>3, <2>1, <2>2
  <2>5. n.proposed # Null BY <1>0, <2>4, NullIsNoPoint DEF Clusters
  <2>6. /\ Current' = n
        /\ raced = FALSE => \A i \in 1 .. Len(managers') :
             managers'[i].status = "TUNED" => managers'[i].application # Null
    BY <1>7, <2>1, <2>2, <2>3
  <2> QED BY <1>1, <2>2, <2>5, <2>6 DEF PointsInPlace
<1>9. CASE GetBest
  <2> DEFINE n == GetBestConfiguration(Current)
  <2>1. Updated(active, n) /\ Current.proposed # Null BY <1>9, GetStep
  <2>2. /\ n.knowledge = Current.knowledge /\ n.application = Current.application
        /\ n.proposed = Current.proposed
        /\ n.status = IF ConfigurationChanged(Current) /\ Current.status # DSE THEN "UNDEFINED"
                      ELSE Current.status
    BY <1>0, GetFacts
  <2> HIDE DEF n
  <2>3. /\ pc = "get" /\ active' = active
        /\ pc' = IF ConfigurationChanged(Current) THEN "apply" ELSE "run"
    BY <1>9 DEF GetBest, Abort
  <2>4. raced = FALSE /\ n.status = "TUNED" => n.application # Null
    BY <1>0, <1>3, <2>2 DEF Current
  <2>5. /\ Current' = n
        /\ raced = FALSE => \A i \in 1 .. Len(managers') :
             managers'[i].status = "TUNED" => managers'[i].application # Null
    BY <1>7, <2>1, <2>3, <2>4
  <2>6. pc' = "apply" \/ (pc' = "run" /\ n.application # Null)
    BY <2>1, <2>2, <2>3 DEF ConfigurationChanged
  <2>7. n.proposed # Null BY <2>1, <2>2
  <2> QED BY <1>1, <2>5, <2>6, <2>7 DEF PointsInPlace
<1>10. CASE Applied
  <2> DEFINE n == ConfigurationApplied(Current)
  <2>1. Updated(active, n) BY <1>10, AppliedStep
  <2>2. n.application = Current.proposed /\ n.proposed = Current.proposed BY <1>0, AppliedFacts
  <2> HIDE DEF n
  <2>3. pc = "apply" /\ active' = active /\ pc' = "run" BY <1>10 DEF Applied
  <2>4. raced = FALSE => n.application # Null BY <1>3, <2>2, <2>3
  <2>5. /\ Current' = n
        /\ raced = FALSE => \A i \in 1 .. Len(managers') :
             managers'[i].status = "TUNED" => managers'[i].application # Null
    BY <1>7, <2>1, <2>3, <2>4
  <2> QED BY <1>1, <2>3, <2>4, <2>5 DEF PointsInPlace
<1>11. CASE RunBlock
  <2>1. managers' = managers /\ active' = active /\ pc = "run" /\ pc' \in {"report", "log"}
    BY <1>11 DEF RunBlock
  <2> QED BY <1>1, <1>3, <2>1 DEF PointsInPlace, Current, Exploring
<1>12. CASE Report
  <2>1. /\ managers' = managers /\ active' = active /\ pc = "report"
        /\ pc' = IF Exploring THEN "log" ELSE "mean"
    BY <1>12 DEF Report
  <2> QED BY <1>1, <1>3, <2>1 DEF PointsInPlace, Current, Exploring
<1>13. CASE Log
  <2>1. /\ managers' = managers /\ active' = active /\ pc = "log"
        /\ pc' = IF Exploring THEN "idle" ELSE "expected"
    BY <1>13 DEF Log
  <2> QED BY <1>1, <1>3, <2>1 DEF PointsInPlace, Current, Exploring
<1>14. CASE GetMean
  <2>1. /\ managers' = managers /\ active' = active /\ pc \in {"mean", "expected"}
        /\ pc' = IF pc = "mean" THEN "log" ELSE "idle"
    BY <1>14 DEF GetMean, Abort
  <2> QED BY <1>1, <1>3, <2>1 DEF PointsInPlace, Current, Exploring
<1>15. ASSUME NEW f, SelectionDies(f) PROVE FALSE BY <1>15 DEF SelectionDies, Abort
<1> QED BY <1>5, <1>6, <1>8, <1>9, <1>10, <1>11, <1>12, <1>13, <1>14, <1>15 DEF Loop

\* What a message leaves, whichever it is.
LEMMA MessageStep ==
  ASSUME ShapeInv, SupportThread
  PROVE  /\ Message /\ active' \in 1 .. Len(managers')
         /\ \A i \in 1 .. Len(managers') : Told(managers'[i])
         /\ KeptTold \/ (kind # "PLAIN" /\ ClonesTold)
<1>0. active \in 1 .. Len(managers) BY DEF ShapeInv, Shape
<1>1. ASSUME NEW c \in Confs, Explore(c) PROVE Message /\ KeptTold BY <1>1, ExploreStep DEF Explore
<1>2. ASSUME NEW model \in Models, Predict(model)
      PROVE  Message /\ (KeptTold \/ (kind # "PLAIN" /\ ClonesTold))
  BY <1>2, PredictStep DEF Predict
<1>3. Message /\ (KeptTold \/ (kind # "PLAIN" /\ ClonesTold)) BY <1>1, <1>2 DEF SupportThread
<1>4. CASE KeptTold BY <1>0, <1>3, <1>4 DEF KeptTold
<1>5. CASE ClonesTold
  <2>1. managers' \in Seq(Clusters) /\ managers' # <<>> /\ active' = 1 BY <1>5 DEF ClonesTold
  <2>2. 1 \in 1 .. Len(managers') BY <2>1, LenProperties, EmptySeq
  <2> QED BY <1>3, <1>5, <2>1, <2>2 DEF ClonesTold
<1> QED BY <1>3, <1>4, <1>5

\* A message gives every cluster something to know and leaves none tuned.
LEMMA PointsMessage ==
  ASSUME ShapeInv, PointsInv, SupportThread
  PROVE  PointsInv'
<1>1. /\ Message /\ active' \in 1 .. Len(managers')
      /\ \A i \in 1 .. Len(managers') : Told(managers'[i])
  BY MessageStep
<1>2. /\ fault' = "none" /\ pc' = pc /\ raced \in BOOLEAN
      /\ raced' = (raced \/ pc \in {"get", "apply", "mean", "expected"})
  BY <1>1 DEF Message, app, PointsInv
<1>3. Told(Current') BY <1>1 DEF Current
<1>4. raced' \in BOOLEAN BY <1>2
<1>5. raced' = FALSE => pc' \notin {"get", "apply", "mean", "expected"} BY <1>2
<1>6. \A i \in 1 .. Len(managers') : managers'[i].status # "TUNED" BY <1>1 DEF Told, DSE
<1>7. Current'.knowledge # {} /\ Exploring' BY <1>3 DEF Told, Exploring, InDesignSpaceExploration
<1>8. PointsInPlace' BY <1>5, <1>6, <1>7 DEF PointsInPlace
<1>9. FaultsHaveACause' BY <1>2 DEF FaultsHaveACause
<1> QED BY <1>4, <1>8, <1>9 DEF PointsInv

\* A call between two rounds makes no cluster tuned; only remove_state may abort.
LEMMA PointsCall ==
  ASSUME ShapeInv, PointsInv, Calls
  PROVE  PointsInv'
<1>0. /\ Shape /\ SameStates /\ UnstrayedAgree /\ active \in 1 .. Len(managers)
      /\ Current \in Clusters /\ raced \in BOOLEAN
  BY ShapeFacts DEF ShapeInv, Shape, PointsInv
<1>1. ASSUME Call PROVE fault = "none" /\ pc' = "idle" /\ raced' = raced BY <1>1 DEF Call
<1>2. ASSUME Call, fault' = fault,
             \A i \in 1 .. Len(managers') : managers'[i].status = "TUNED" =>
               \E j \in 1 .. Len(managers) :
                 /\ managers'[i].status = managers[j].status
                 /\ managers'[i].application = managers[j].application
      PROVE  PointsInv'
  <2>1. fault' = "none" /\ pc' = "idle" /\ raced' = raced /\ fault = "none" BY <1>1, <1>2
  <2>2. raced = FALSE => \A j \in 1 .. Len(managers) :
          managers[j].status = "TUNED" => managers[j].application # Null
    BY <2>1 DEF PointsInv, PointsInPlace
  <2>3. raced' = FALSE => \A i \in 1 .. Len(managers') :
          managers'[i].status = "TUNED" => managers'[i].application # Null
    BY <1>2, <2>1, <2>2
  <2>4. PointsInPlace' BY <2>1, <2>3 DEF PointsInPlace
  <2>5. FaultsHaveACause' BY <2>1 DEF FaultsHaveACause
  <2> QED BY <1>0, <2>1, <2>4, <2>5 DEF PointsInv
<1>3. ASSUME NEW k \in Keys, AddFeatureCluster(k) PROVE PointsInv'
  <2>1. Call /\ fault' = fault BY <1>3 DEF AddFeatureCluster
  <2> DEFINE l == Len(managers) + 1
  <2>2. /\ Len(managers') = l /\ managers'[l].status = "UNDEFINED"
        /\ \A i \in 1 .. Len(managers) : managers'[i] = managers[i]
    BY <1>3, AddClusterStep
  <2>3. Len(managers) \in Nat BY <1>0, ShapeFacts
  <2>4. \A i \in 1 .. Len(managers') : i \in 1 .. Len(managers) \/ i = l BY <2>2, <2>3
  <2> QED BY <1>2, <2>1, <2>2, <2>4
<1>4. ASSUME Call, fault' = fault, Defined PROVE PointsInv'
  BY <1>2, <1>4 DEF Defined, SamePoints
<1>5. ASSUME NEW s \in States, CreateState(s) PROVE PointsInv'
  BY <1>4, <1>5, CreateStateStep DEF CreateState, DefineProblem
<1>6. ASSUME NEW s \in States, RemoveTheState(s) PROVE PointsInv'
  <2>1. Call /\ fault = "none" /\ fault' \in {"none", "active_state"}
    BY <1>6 DEF RemoveTheState, DefineProblem, Call
  <2>2. CASE fault' = "none" BY <1>4, <1>6, <2>1, <2>2, RemoveStateStep
  <2>3. CASE fault' = "active_state"
    <3>1. /\ s # wanted /\ s \in DOMAIN managers[1].optimizers /\ strayed' = strayed
          /\ \E i \in DOMAIN managers : RemoveStateFails(managers[i], s)
      BY <1>6, <2>1, <2>3 DEF RemoveTheState, DefineProblem, Call
    <3>2. PICK i \in DOMAIN managers : RemoveStateFails(managers[i], s) BY <3>1
    <3>3. i \in 1 .. Len(managers) BY <1>0, ShapeFacts
    <3>4. s \in DOMAIN managers[i].optimizers BY <1>0, <3>1, <3>3 DEF SameStates
    <3>5. managers[i].current = s BY <3>2, <3>4 DEF RemoveStateFails
    <3>6. strayed BY <1>0, <3>1, <3>5 DEF UnstrayedAgree
    <3>7. FaultsHaveACause' BY <2>3, <3>1, <3>6 DEF FaultsHaveACause
    <3>8. PointsInPlace' BY <2>3 DEF PointsInPlace
    <3> QED BY <1>0, <1>1, <2>1, <3>7, <3>8 DEF PointsInv
  <2> QED BY <2>1, <2>2, <2>3
<1>7. ASSUME NEW s \in States, ChangeState(s) PROVE PointsInv'
  BY <1>4, <1>7, ChangeStateStep DEF ChangeState, DefineProblem
<1>8. ASSUME NEW c \in Clauses, AddConstraint(c) PROVE PointsInv'
  BY <1>4, <1>8, AddClauseStep DEF AddConstraint, DefineProblem
<1>9. ASSUME NEW c \in Clauses, RemoveConstraint(c) PROVE PointsInv'
  BY <1>4, <1>9, RemoveClauseStep DEF RemoveConstraint, DefineProblem
<1>10. ASSUME NEW c \in Confs, AddPoints({c}) \/ RemovePoints({c}) PROVE PointsInv'
  <2>1. Call /\ fault' = fault BY <1>10 DEF AddPoints, RemovePoints, ChangeKnowledge
  <2>2. PICK n \in Clusters : /\ Updated(active, n) /\ n.application = Current.application
                              /\ n.status = Current.status
    BY <1>10, KnowledgeStep
  <2>3. \A i \in 1 .. Len(managers') :
          /\ i \in 1 .. Len(managers) /\ managers'[i].status = managers[i].status
          /\ managers'[i].application = managers[i].application
    BY <2>2 DEF Updated, Current
  <2> QED BY <1>2, <2>1, <2>3
<1>11. ASSUME NEW a \in Nat, Call, Equipped(a), UNCHANGED <<active, wanted, strayed, fault>>
       PROVE  PointsInv'
  BY <1>4, <1>11, AdaptorStep
<1>12. CASE RemoveRuntimeKnowledge
  <2>1. Equipped(0) /\ Call /\ UNCHANGED <<active, wanted, strayed, fault>>
    BY <1>12 DEF RemoveRuntimeKnowledge, DefineProblem, ForAll, Equipped
  <2> QED BY <1>11, <2>1
<1>13. CASE AddRuntimeKnowledge \/ GlobalInit
  <2>1. Equipped(ops + 1) /\ Call /\ UNCHANGED <<active, wanted, strayed, fault>>
    BY <1>13 DEF AddRuntimeKnowledge, GlobalInit, NewAdaptors, ForAll, Equipped
  <2>2. PICK a \in Nat : a = ops + 1 BY <1>0 DEF Shape
  <2> QED BY <1>11, <2>1, <2>2
<1> QED BY <1>3, <1>5, <1>6, <1>7, <1>8, <1>9, <1>10, <1>12, <1>13 DEF Calls

\* PointsInv is inductive, given ShapeInv.
LEMMA PointsNext == ShapeInv /\ PointsInv /\ [Next]_vars => PointsInv'
<1> SUFFICES ASSUME ShapeInv, PointsInv, [Next]_vars PROVE PointsInv' OBVIOUS
<1>1. CASE UNCHANGED vars
  BY <1>1 DEF vars, PointsInv, PointsInPlace, FaultsHaveACause, Current, Exploring
<1>2. CASE Aborted BY <1>1, <1>2 DEF Aborted
<1>3. CASE Loop BY <1>3, FaultStep, PointsLoop
<1> QED BY <1>1, <1>2, <1>3, PointsMessage, PointsCall DEF Next

\* No call of the loop meets a null Operating Point unless the support thread came
\* between two calls that belong together or the cluster knows nothing, and
\* remove_state meets its assertion only after create_sibling left another state
\* active, a division by zero only where two clusters agree in a coordinate: for any
\* number of clusters, states, configurations, messages and calls.
THEOREM FaultsAreCaused == Spec => []FaultsHaveACause
<1>1. PointsInv => FaultsHaveACause BY DEF PointsInv
<1> QED BY <1>1, ShapeInvariant, PointsInit, PointsNext, PTL DEF Spec

-----------------------------------------------------------------------------
(* The observations in the monitors come from the running configuration.   *)

\* The proposal that is being applied is in the knobs already, and it is a change.
ProposalInForce ==
  (fault = "none" /\ pc = "apply" /\ Current.proposed # Null) =>
    inforce = Current.proposed.conf /\ Current.application # Current.proposed

\* Can the active cluster be told from the others by its key?
Telling == kind \in {"NORMALIZED", "INTEGRAL"} => DistinctKeys

\* A tuned manager runs what is in the knobs, and the monitors saw nothing else.
InForce ==
  /\ inforce = Current.application.conf
  /\ (late = FALSE /\ Current.adaptors # 0) => observed \subseteq {Current.application.conf}

RunsInForce ==
  (fault = "none" /\ Telling /\ Current.status = "TUNED" /\ Current.application # Null) => InForce

\* With the Euclidean distance the active cluster is the first that has its key.
FirstOfItsKey ==
  kind = "EUCLIDEAN" =>
    \A j \in 1 .. Len(managers) : j < active => managers[j].key # Current.key

FedInv ==
  /\ late \in BOOLEAN /\ (fault # "none" => pc # "find")
  /\ ProposalInForce /\ RunsInForce /\ FirstOfItsKey

\* Nothing runs before the first round.
LEMMA FedInit == Init => FedInv
<1> SUFFICES ASSUME Init PROVE FedInv OBVIOUS
<1>1. active = 1 /\ Len(managers) = 1 /\ Current.status # "TUNED" BY BuiltIdle DEF Init, Current
<1>2. ProposalInForce BY DEF Init, ProposalInForce
<1>3. RunsInForce BY <1>1 DEF RunsInForce
<1>4. FirstOfItsKey BY <1>1 DEF FirstOfItsKey
<1> QED BY <1>2, <1>3, <1>4 DEF Init, FedInv

\* A step that keeps the keys, and the active cluster active.
KeysKept ==
  /\ kind' = kind /\ active' = active /\ Len(managers') = Len(managers)
  /\ DOMAIN managers' = DOMAIN managers
  /\ \A i \in 1 .. Len(managers) : managers'[i].key = managers[i].key

\* Then the active cluster is as recognisable as before.
LEMMA KeysKeptFacts ==
  ASSUME ShapeInv, KeysKept
  PROVE  (FirstOfItsKey => FirstOfItsKey') /\ (Telling' => Telling)
<1>1. DOMAIN managers = 1 .. Len(managers) /\ active \in 1 .. Len(managers)
  BY ShapeFacts DEF ShapeInv, Shape
<1>2. FirstOfItsKey => FirstOfItsKey' BY <1>1 DEF KeysKept, FirstOfItsKey, Current
<1>3. Telling' => Telling BY <1>1 DEF KeysKept, Telling, DistinctKeys
<1> QED BY <1>2, <1>3

\* Every cluster but the active one is as it was, and that one has the same key.
LEMMA UpdatedKeys ==
  ASSUME ShapeInv, NEW n, Updated(active, n), n.key = Current.key, kind' = kind, active' = active
  PROVE  KeysKept /\ Current' = n
<1>1. DOMAIN managers = 1 .. Len(managers) /\ active \in 1 .. Len(managers)
  BY ShapeFacts DEF ShapeInv, Shape
<1>2. DOMAIN managers' = 1 .. Len(managers) BY LenProperties DEF Updated
<1> QED BY <1>1, <1>2 DEF Updated, KeysKept, Current

\* With the Euclidean distance no cluster before the closest has its key.
LEMMA ChampionIsFirst ==
  ASSUME Shape, NEW f \in Features, NEW b \in 1 .. Len(managers),
         Champion("EUCLIDEAN", f, KeysOf(managers), b, Len(managers)),
         NEW j \in 1 .. Len(managers), j < b
  PROVE  managers[j].key # managers[b].key
<1>1. /\ KeysOf(managers)[j] = managers[j].key /\ KeysOf(managers)[b] = managers[b].key
      /\ managers[b].key \in Features
  BY KeysFacts
<1> SUFFICES ASSUME managers[j].key = managers[b].key PROVE FALSE OBVIOUS
<1>2. Distance(f, managers[b].key) < Distance(f, managers[b].key) BY <1>1 DEF Champion
<1>3. Distance(f, managers[b].key) \in Int BY <1>1, DistanceType
<1> QED BY <1>2, <1>3

\* The loop of the application.
LEMMA FedLoop ==
  ASSUME ShapeInv, FedInv, Loop
  PROVE  FedInv'
<1> USE DEF Goto, Quiet, fixed, shared, ghosts
<1>0. /\ Shape /\ active \in 1 .. Len(managers) /\ Current \in Clusters
      /\ DOMAIN managers = 1 .. Len(managers)
  BY ShapeFacts DEF ShapeInv, Shape
<1>1. fault = "none" /\ kind' = kind /\ late \in BOOLEAN
  BY DEF Loop, SelectFeatureCluster, SelectionDies, IsApplicationKnowledgeEmpty, FindBest,
        GetBest, Applied, RunBlock, Report, Log, GetMean, FedInv, Abort
<1>2. ProposalInForce /\ RunsInForce /\ FirstOfItsKey BY DEF FedInv
<1>3. ASSUME NEW f, f \in (IF kind = "PLAIN" THEN {FirstKey} ELSE Inputs), SelectFeatureCluster(f)
      PROVE  FedInv'
  <2>1. kind # "PLAIN" => f \in Inputs BY <1>3
  <2>2. /\ active' \in 1 .. Len(managers)
        /\ kind # "PLAIN" => Champion(kind, f, KeysOf(managers), active', Len(managers))
        /\ \/ active' = active /\ managers' = managers
           \/ active' # active /\ Updated(active', RestoreFromDataFeatureSwitch(managers[active']))
    BY <1>3, <2>1, SelectStep
  <2>3. pc' = "selected" /\ UNCHANGED <<inforce, observed, late, fault>>
    BY <1>3 DEF SelectFeatureCluster
  <2>4. ProposalInForce' BY <2>3 DEF ProposalInForce
  <2>5. CASE active' = active /\ managers' = managers
    <3>1. KeysKept BY <1>1, <2>5 DEF KeysKept
    <3>2. FirstOfItsKey' /\ (Telling' => Telling) BY <1>2, <3>1, KeysKeptFacts
    <3>3. RunsInForce' BY <1>1, <1>2, <2>3, <2>5, <3>2 DEF RunsInForce, InForce, Current
    <3> QED BY <1>1, <2>3, <2>4, <3>2, <3>3 DEF FedInv
  <2>6. CASE Updated(active', RestoreFromDataFeatureSwitch(managers[active']))
    <3>1. managers[active'] \in Clusters BY <1>0, <2>2, ShapeFacts
    <3> DEFINE n == RestoreFromDataFeatureSwitch(managers[active'])
    <3>2. n.status # "TUNED" /\ n.key = managers[active'].key BY <3>1, RestoreFacts DEF SameProblem
    <3> HIDE DEF n
    <3>3. Updated(active', n) BY <2>6 DEF n
    <3>4. Current' = n BY <2>2, <3>3 DEF Updated, Current
    <3>5. RunsInForce' BY <3>2, <3>4 DEF RunsInForce
    <3>6. \A j \in 1 .. Len(managers) : managers'[j].key = managers[j].key
      BY <3>2, <3>3 DEF Updated
    <3>7. kind = "EUCLIDEAN" =>
            \A j \in 1 .. Len(managers) : j < active' => managers[j].key # managers[active'].key
      <4>1. kind = "EUCLIDEAN" => f \in Features BY <2>1, DataAwareAssumption
      <4> QED BY <1>0, <2>2, <4>1, ChampionIsFirst
    <3>8. Len(managers') = Len(managers) BY <3>3 DEF Updated
    <3>9. FirstOfItsKey' BY <1>1, <2>2, <3>2, <3>4, <3>6, <3>7, <3>8 DEF FirstOfItsKey
    <3> QED BY <1>1, <2>3, <2>4, <3>5, <3>9 DEF FedInv
  <2> QED BY <2>2, <2>5, <2>6
<1>4. ASSUME managers' = managers, active' = active, late' = late, inforce' = inforce,
             pc' \notin {"apply"}, fault' # "none" => pc' # "find",
             observed' = observed \/ observed' = observed \cup {inforce}
      PROVE  FedInv'
  <2>1. KeysKept BY <1>1, <1>4 DEF KeysKept
  <2>2. FirstOfItsKey' /\ (Telling' => Telling) BY <1>2, <2>1, KeysKeptFacts
  <2>3. RunsInForce' BY <1>1, <1>2, <1>4, <2>2 DEF RunsInForce, InForce, Current
  <2>4. ProposalInForce' BY <1>4 DEF ProposalInForce
  <2> QED BY <1>1, <1>4, <2>2, <2>3, <2>4 DEF FedInv
<1>5. CASE IsApplicationKnowledgeEmpty BY <1>1, <1>4, <1>5 DEF IsApplicationKnowledgeEmpty
<1>6. CASE FindBest
  <2>1. CASE fault' = "none"
    <3>1. PICK n : /\ Updated(active, n) /\ SameProblem(Current, n)
                   /\ n.application = Current.application /\ n.status = Current.status
      BY <1>6, <2>1, FindStep
    <3>2. pc' = "get" /\ active' = active /\ UNCHANGED <<inforce, observed, late, fault>>
      BY <1>6, <2>1 DEF FindBest, Abort
    <3>3. n.key = Current.key /\ n.adaptors = Current.adaptors BY <3>1 DEF SameProblem
    <3>4. KeysKept /\ Current' = n BY <1>1, <3>1, <3>2, <3>3, UpdatedKeys
    <3>5. FirstOfItsKey' /\ (Telling' => Telling) BY <1>2, <3>4, KeysKeptFacts
    <3>6. RunsInForce' BY <1>1, <1>2, <3>1, <3>2, <3>3, <3>4, <3>5 DEF RunsInForce, InForce
    <3>7. ProposalInForce' BY <3>2 DEF ProposalInForce
    <3> QED BY <1>1, <3>2, <3>5, <3>6, <3>7 DEF FedInv
  <2>2. CASE fault' # "none" BY <1>1, <1>4, <1>6, <2>2 DEF FindBest, Abort
  <2> QED BY <2>1, <2>2
<1>7. CASE GetBest
  <2>1. CASE fault' = "none"
    <3> DEFINE n == GetBestConfiguration(Current)
    <3>1. Updated(active, n) /\ Current.proposed # Null BY <1>7, <2>1, GetStep
    <3>2. /\ n.key = Current.key /\ n.adaptors = Current.adaptors
          /\ n.application = Current.application /\ n.proposed = Current.proposed
          /\ n.status = IF ConfigurationChanged(Current) /\ Current.status # DSE THEN "UNDEFINED"
                        ELSE Current.status
      BY <1>0, GetFacts DEF SameProblem
    <3> HIDE DEF n
    <3>3. /\ active' = active /\ UNCHANGED <<observed, late, fault>>
          /\ pc' = IF ConfigurationChanged(Current) THEN "apply" ELSE "run"
          /\ inforce' = IF ConfigurationChanged(Current) THEN Current.proposed.conf ELSE inforce
      BY <1>7, <2>1 DEF GetBest, Abort
    <3>4. KeysKept /\ Current' = n BY <1>1, <3>1, <3>2, <3>3, UpdatedKeys
    <3>5. FirstOfItsKey' /\ (Telling' => Telling) BY <1>2, <3>4, KeysKeptFacts
    <3>6. CASE ConfigurationChanged(Current)
      <4>1. n.status # "TUNED" BY <3>2, <3>6 DEF DSE
      <4>2. RunsInForce' BY <3>4, <4>1 DEF RunsInForce
      <4>3. n.application # n.proposed /\ inforce' = n.proposed.conf
        BY <3>2, <3>3, <3>6 DEF ConfigurationChanged
      <4>4. ProposalInForce' BY <3>4, <4>3 DEF ProposalInForce
      <4> QED BY <1>1, <3>3, <3>5, <4>2, <4>4 DEF FedInv
    <3>7. CASE ~ConfigurationChanged(Current)
      <4>1. pc' = "run" /\ inforce' = inforce /\ n.status = Current.status BY <3>2, <3>3, <3>7
      <4>2. RunsInForce' BY <1>1, <1>2, <3>2, <3>3, <3>4, <3>5, <4>1 DEF RunsInForce, InForce
      <4>3. ProposalInForce' BY <4>1 DEF ProposalInForce
      <4> QED BY <1>1, <3>3, <3>5, <4>1, <4>2, <4>3 DEF FedInv
    <3> QED BY <3>6, <3>7
  <2>2. CASE fault' # "none"
    <3>1. /\ managers' = managers /\ active' = active /\ fault' = "null_proposal"
          /\ pc' \in {"apply", "run"} /\ late' = late
      BY <1>1, <1>7, <2>2 DEF GetBest, Abort
    <3>2. KeysKept BY <1>1, <3>1 DEF KeysKept
    <3>3. FirstOfItsKey' BY <1>2, <3>2, KeysKeptFacts
    <3>4. RunsInForce' /\ ProposalInForce' BY <3>1 DEF RunsInForce, ProposalInForce
    <3> QED BY <1>1, <3>1, <3>3, <3>4 DEF FedInv
  <2> QED BY <2>1, <2>2
<1>8. CASE Applied
  <2> DEFINE n == ConfigurationApplied(Current)
  <2>1. Updated(active, n) BY <1>8, AppliedStep
  <2>2. /\ n.key = Current.key /\ n.adaptors = Current.adaptors
        /\ n.application = Current.proposed
        /\ n.status = IF Current.status # DSE THEN "TUNED" ELSE DSE
    BY <1>0, AppliedFacts DEF SameProblem
  <2> HIDE DEF n
  <2>3. /\ active' = active /\ pc = "apply" /\ pc' = "run" /\ UNCHANGED <<inforce, fault>>
        /\ observed' = IF ClearsMonitors(Current) THEN {} ELSE observed
        /\ late' = IF ClearsMonitors(Current) THEN FALSE ELSE late
    BY <1>8 DEF Applied
  <2>4. KeysKept /\ Current' = n BY <1>1, <2>1, <2>2, <2>3, UpdatedKeys
  <2>5. FirstOfItsKey' BY <1>2, <2>4, KeysKeptFacts
  <2>6. ASSUME n.status = "TUNED", n.application # Null PROVE InForce'
    <3>1. inforce = Current.proposed.conf /\ Current.application # Current.proposed
      BY <1>1, <1>2, <2>2, <2>3, <2>6 DEF ProposalInForce
    <3>2. Current.status # DSE BY <2>2, <2>6 DEF DSE
    <3>3. n.adaptors # 0 => observed' = {} BY <2>2, <2>3, <3>1, <3>2 DEF ClearsMonitors
    <3> QED BY <2>2, <2>3, <2>4, <3>1, <3>3 DEF InForce
  <2>7. RunsInForce' BY <2>4, <2>6 DEF RunsInForce
  <2>8. ProposalInForce' BY <2>3 DEF ProposalInForce
  <2>9. late' \in BOOLEAN BY <1>1, <2>3
  <2> QED BY <2>3, <2>5, <2>7, <2>8, <2>9 DEF FedInv
<1>9. CASE RunBlock BY <1>1, <1>4, <1>9 DEF RunBlock
<1>10. CASE Report BY <1>1, <1>4, <1>10 DEF Report
<1>11. CASE Log BY <1>1, <1>4, <1>11 DEF Log
<1>12. CASE GetMean BY <1>1, <1>4, <1>12 DEF GetMean, Abort
<1>13. ASSUME NEW f, SelectionDies(f) PROVE FedInv'
  BY <1>1, <1>4, <1>13 DEF SelectionDies, Abort
<1> QED BY <1>3, <1>5, <1>6, <1>7, <1>8, <1>9, <1>10, <1>11, <1>12, <1>13 DEF Loop

\* A message drops every proposal, and leaves no manager tuned.
LEMMA FedMessage ==
  ASSUME ShapeInv, FedInv, SupportThread
  PROVE  FedInv'
<1>1. /\ Message /\ active' \in 1 .. Len(managers')
      /\ \A i \in 1 .. Len(managers') : Told(managers'[i])
      /\ KeptTold \/ ClonesTold
  BY MessageStep
<1>2. Current'.proposed = Null /\ Current'.status # "TUNED" BY <1>1 DEF Current, Told, DSE
<1>3. fault' = "none" /\ late' = late /\ kind' = kind BY <1>1 DEF Message, app, fixed
<1>4. ProposalInForce' /\ RunsInForce' BY <1>2 DEF ProposalInForce, RunsInForce
<1>5. FirstOfItsKey'
  <2>1. CASE KeptTold
    <3>1. DOMAIN managers' = 1 .. Len(managers) /\ DOMAIN managers = 1 .. Len(managers)
      BY <2>1, ShapeFacts, LenProperties DEF KeptTold, ShapeInv
    <3>2. KeysKept BY <1>3, <2>1, <3>1 DEF KeptTold, KeysKept, SameProblem
    <3> QED BY <3>2, KeysKeptFacts DEF FedInv
  <2>2. CASE ClonesTold
    <3>1. active' = 1 BY <2>2 DEF ClonesTold
    <3>2. \A j \in 1 .. Len(managers') : ~(j < 1) OBVIOUS
    <3> QED BY <3>1, <3>2 DEF FirstOfItsKey
  <2> QED BY <1>1, <2>1, <2>2
<1> QED BY <1>3, <1>4, <1>5 DEF FedInv

\* The calls between two rounds.
LEMMA FedCall ==
  ASSUME ShapeInv, FedInv, Calls
  PROVE  FedInv'
<1>0. /\ Shape /\ active \in 1 .. Len(managers) /\ Current \in Clusters
      /\ DOMAIN managers = 1 .. Len(managers) /\ Len(managers) \in Nat
  BY ShapeFacts DEF ShapeInv, Shape
<1>1. ProposalInForce /\ RunsInForce /\ FirstOfItsKey /\ late \in BOOLEAN BY DEF FedInv
<1>2. ASSUME Call PROVE fault = "none" /\ pc' = "idle" /\ kind' = kind /\ inforce' = inforce
  BY <1>2 DEF Call, fixed
<1>3. ASSUME Call, FirstOfItsKey', late' \in BOOLEAN,
             (Telling' /\ Current'.status = "TUNED" /\ Current'.application # Null) => InForce'
      PROVE  FedInv'
  <2>1. RunsInForce' BY <1>3 DEF RunsInForce
  <2>2. pc' = "idle" BY <1>2, <1>3
  <2>3. ProposalInForce' BY <2>2 DEF ProposalInForce
  <2> QED BY <1>3, <2>1, <2>2, <2>3 DEF FedInv
<1>4. ASSUME NEW k \in Keys, AddFeatureCluster(k) PROVE FedInv'
  <2>1. Call /\ UNCHANGED <<observed, late>> BY <1>4 DEF AddFeatureCluster
  <2>2. kind' = kind /\ inforce' = inforce /\ fault = "none" BY <1>2, <2>1
  <2>3. /\ managers' \in Seq(Clusters) /\ Len(managers') = Len(managers) + 1
        /\ \A i \in 1 .. Len(managers) : managers'[i] = managers[i]
        /\ active' \in 1 .. active /\ managers[active'].key = Current.key
        /\ \A j \in 1 .. Len(managers) : j < active' => managers[j].key # Current.key
    BY <1>4, AddClusterStep
  <2>4. active' \in 1 .. Len(managers) BY <1>0, <2>3
  <2>5. Current' = managers[active'] BY <2>3, <2>4 DEF Current
  <2>6. \A j \in 1 .. Len(managers') : j < active' => j \in 1 .. Len(managers)
    BY <1>0, <2>3, <2>4
  <2>7. FirstOfItsKey' BY <2>3, <2>5, <2>6 DEF FirstOfItsKey
  <2>8. DOMAIN managers' = 1 .. Len(managers) + 1 BY <2>3, LenProperties
  <2>9. \A i \in 1 .. Len(managers) : i \in DOMAIN managers' BY <1>0, <2>8
  <2>10. ASSUME Telling' PROVE Telling /\ active' = active
    <3>1. CASE kind \in {"NORMALIZED", "INTEGRAL"}
      <4>1. \A i, j \in DOMAIN managers' : managers'[i].key = managers'[j].key => i = j
        BY <2>2, <2>10, <3>1 DEF Telling, DistinctKeys
      <4>2. Telling BY <1>0, <2>3, <2>9, <4>1 DEF Telling, DistinctKeys
      <4>3. active' = active BY <1>0, <2>3, <2>4, <2>9, <4>1 DEF Current
      <4> QED BY <4>2, <4>3
    <3>2. CASE kind = "EUCLIDEAN"
      <4>1. ~(active' < active) BY <1>1, <2>3, <2>4, <3>2 DEF FirstOfItsKey
      <4>2. active' = active BY <1>0, <2>3, <4>1
      <4> QED BY <3>2, <4>2 DEF Telling
    <3>3. kind # "PLAIN" BY <1>4 DEF AddFeatureCluster
    <3>4. kind \in {"PLAIN", "EUCLIDEAN", "NORMALIZED", "INTEGRAL"} BY <1>0, DataAwareAssumption DEF Shape
    <3> QED BY <3>1, <3>2, <3>3, <3>4
  <2>11. (Telling' /\ Current'.status = "TUNED" /\ Current'.application # Null) => InForce'
    <3> SUFFICES ASSUME Telling', Current'.status = "TUNED", Current'.application # Null
                 PROVE  InForce'
      OBVIOUS
    <3>1. Telling /\ Current' = Current BY <2>5, <2>10 DEF Current
    <3>2. InForce BY <1>1, <2>2, <3>1 DEF RunsInForce
    <3> QED BY <2>1, <2>2, <3>1, <3>2 DEF InForce
  <2> QED BY <1>1, <1>3, <2>1, <2>7, <2>11
<1>5. ASSUME Call, KeysKept, Current'.status = Current.status,
             Current'.application = Current.application, late' \in BOOLEAN,
             (late' = FALSE /\ Current'.adaptors # 0) =>
               observed' = {} \/ (observed' = observed /\ late = FALSE /\ Current.adaptors # 0)
      PROVE  FedInv'
  <2>1. FirstOfItsKey' /\ (Telling' => Telling) BY <1>1, <1>5, KeysKeptFacts
  <2>2. inforce' = inforce /\ fault = "none" BY <1>2, <1>5
  <2>3. (Telling' /\ Current'.status = "TUNED" /\ Current'.application # Null) => InForce'
    <3> SUFFICES ASSUME Telling', Current'.status = "TUNED", Current'.application # Null
                 PROVE  InForce'
      OBVIOUS
    <3>1. InForce BY <1>1, <1>5, <2>1, <2>2 DEF RunsInForce
    <3> QED BY <1>5, <2>2, <3>1 DEF InForce
  <2> QED BY <1>3, <1>5, <2>1, <2>3
<1>6. ASSUME Call, Defined
      PROVE  /\ KeysKept /\ Current'.status = Current.status
             /\ Current'.application = Current.application
  <2>1. DOMAIN managers' = 1 .. Len(managers) BY <1>6, LenProperties DEF Defined
  <2>2. kind' = kind BY <1>2, <1>6
  <2> QED BY <1>0, <1>6, <2>1, <2>2 DEF Defined, SamePoints, KeysKept, Current
<1>7. ASSUME Call, Defined, SameAdaptors, UNCHANGED <<observed, late>> PROVE FedInv'
  <2>1. /\ KeysKept /\ Current'.status = Current.status
        /\ Current'.application = Current.application
    BY <1>6, <1>7
  <2>2. Current'.adaptors = Current.adaptors BY <1>0, <1>7 DEF Defined, SameAdaptors, Current
  <2> QED BY <1>1, <1>5, <1>7, <2>1, <2>2
<1>8. ASSUME NEW s \in States, CreateState(s) PROVE FedInv'
  <2>1. Call /\ UNCHANGED <<observed, late>> BY <1>8 DEF CreateState, DefineProblem
  <2> QED BY <1>7, <1>8, <2>1, CreateStateStep
<1>9. ASSUME NEW s \in States, RemoveTheState(s) PROVE FedInv'
  <2>1. Call /\ UNCHANGED <<observed, late>> BY <1>9 DEF RemoveTheState, DefineProblem
  <2>2. CASE fault' = "none" BY <1>7, <1>9, <2>1, <2>2, RemoveStateStep
  <2>3. CASE fault' # "none"
    <3>1. managers' = managers /\ active' = active
      BY <1>2, <1>9, <2>1, <2>3 DEF RemoveTheState, DefineProblem, shared
    <3>2. KeysKept BY <1>2, <2>1, <3>1 DEF KeysKept
    <3>3. FirstOfItsKey' BY <1>1, <3>2, KeysKeptFacts
    <3>4. pc' = "idle" BY <1>2, <2>1
    <3>5. RunsInForce' /\ ProposalInForce' BY <2>3 DEF RunsInForce, ProposalInForce
    <3> QED BY <1>1, <2>1, <3>3, <3>4, <3>5 DEF FedInv
  <2> QED BY <2>2, <2>3
<1>10. ASSUME NEW s \in States, ChangeState(s) PROVE FedInv'
  <2>1. Call /\ UNCHANGED <<observed, late>> BY <1>10 DEF ChangeState, DefineProblem
  <2> QED BY <1>7, <1>10, <2>1, ChangeStateStep
<1>11. ASSUME NEW c \in Clauses, AddConstraint(c) PROVE FedInv'
  <2>1. Call /\ UNCHANGED <<observed, late>> BY <1>11 DEF AddConstraint, DefineProblem
  <2> QED BY <1>7, <1>11, <2>1, AddClauseStep
<1>12. ASSUME NEW c \in Clauses, RemoveConstraint(c) PROVE FedInv'
  <2>1. Call /\ UNCHANGED <<observed, late>> BY <1>12 DEF RemoveConstraint, DefineProblem
  <2> QED BY <1>7, <1>12, <2>1, RemoveClauseStep
<1>13. ASSUME NEW c \in Confs, AddPoints({c}) \/ RemovePoints({c}) PROVE FedInv'
  <2>1. Call /\ UNCHANGED <<active, observed, late>>
    BY <1>13 DEF AddPoints, RemovePoints, ChangeKnowledge
  <2>2. PICK n \in Clusters : /\ Updated(active, n) /\ SameProblem(Current, n)
                              /\ n.application = Current.application /\ n.status = Current.status
    BY <1>13, KnowledgeStep
  <2>3. n.key = Current.key /\ n.adaptors = Current.adaptors BY <2>2 DEF SameProblem
  <2>4. KeysKept /\ Current' = n BY <1>2, <2>1, <2>2, <2>3, UpdatedKeys
  <2> QED BY <1>1, <1>5, <2>1, <2>2, <2>3, <2>4
<1>14. ASSUME NEW a \in Nat, Call, Equipped(a), UNCHANGED <<active, wanted, strayed>>
       PROVE  /\ KeysKept /\ Current'.status = Current.status
              /\ Current'.application = Current.application /\ Current'.adaptors = a
  <2>1. Defined /\ \A i \in 1 .. Len(managers) : managers'[i].adaptors = a BY <1>14, AdaptorStep
  <2>2. Current'.adaptors = a BY <1>0, <1>14, <2>1 DEF Current
  <2> QED BY <1>6, <1>14, <2>1, <2>2
<1>15. CASE RemoveRuntimeKnowledge
  <2>1. Equipped(0) /\ Call /\ UNCHANGED <<active, wanted, strayed, observed, late>>
    BY <1>15 DEF RemoveRuntimeKnowledge, DefineProblem, ForAll, Equipped
  <2>2. /\ KeysKept /\ Current'.status = Current.status
        /\ Current'.application = Current.application /\ Current'.adaptors = 0
    BY <1>14, <2>1
  <2> QED BY <1>1, <1>5, <2>1, <2>2
<1>16. CASE AddRuntimeKnowledge \/ GlobalInit
  <2>1. Equipped(ops + 1) /\ Call /\ UNCHANGED <<active, wanted, strayed>>
    BY <1>16 DEF AddRuntimeKnowledge, GlobalInit, NewAdaptors, ForAll, Equipped
  <2>2. PICK a \in Nat : a = ops + 1 BY <1>0 DEF Shape
  <2>3. /\ KeysKept /\ Current'.status = Current.status
        /\ Current'.application = Current.application
    BY <1>14, <2>1, <2>2
  <2>4. late' \in BOOLEAN /\ (late' = FALSE => observed' = {})
    BY <1>16 DEF AddRuntimeKnowledge, GlobalInit
  <2> QED BY <1>5, <2>1, <2>3, <2>4
<1> QED BY <1>4, <1>8, <1>9, <1>10, <1>11, <1>12, <1>13, <1>15, <1>16 DEF Calls

\* FedInv is inductive, given ShapeInv.
LEMMA FedNext == ShapeInv /\ FedInv /\ [Next]_vars => FedInv'
<1> SUFFICES ASSUME ShapeInv, FedInv, [Next]_vars PROVE FedInv' OBVIOUS
<1>1. CASE UNCHANGED vars
  BY <1>1 DEF vars, FedInv, ProposalInForce, RunsInForce, InForce, Telling, DistinctKeys,
       FirstOfItsKey, Current
<1>2. CASE Aborted BY <1>1, <1>2 DEF Aborted
<1> QED BY <1>1, <1>2, FedLoop, FedMessage, FedCall DEF Next

\* Whenever find_best_configuration is about to correct the expectation of the running
\* configuration, everything the monitors hold was measured under it.
THEOREM ObservationsAreOfTheRunning == Spec => []FedByTheRunningConfiguration
<1>1. FedInv => FedByTheRunningConfiguration
  <2> SUFFICES ASSUME FedInv, pc = "find", ~late,
                      kind \in {"NORMALIZED", "INTEGRAL"} => DistinctKeys,
                      Current.status = "TUNED", Current.adaptors # 0, Current.application # Null
               PROVE  observed \subseteq {Current.application.conf}
    BY DEF FedByTheRunningConfiguration
  <2>1. fault = "none" /\ late = FALSE BY DEF FedInv
  <2> QED BY <2>1 DEF FedInv, RunsInForce, InForce, Telling
<1> QED BY <1>1, ShapeInvariant, FedInit, FedNext, PTL DEF Spec

-----------------------------------------------------------------------------
(* The input is served by the cluster that is the closest to it.           *)

\* The input is there from the selection to the block, and until a message comes no
\* cluster serves it better than the active one.
Waiting == pc \in {"selected", "find", "get", "apply"}
InputServed ==
  kind # "PLAIN" =>
    /\ Waiting \/ pc = "run" => input \in Inputs
    /\ (Waiting /\ interrupted = FALSE) =>
         Champion(kind, input, KeysOf(managers), active, Len(managers))

ServedInv == interrupted \in BOOLEAN /\ InputServed

\* A step that keeps the keys keeps the closest the closest.
LEMMA SameKeys ==
  ASSUME ShapeInv, KeysKept
  PROVE  KeysOf(managers') = KeysOf(managers)
BY ShapeFacts DEF ShapeInv, KeysKept, KeysOf

\* A step that keeps the keys and the input leaves the input as well served as it was.
LEMMA ServedKeeps ==
  ASSUME ShapeInv, ServedInv, KeysKept, input' = input, interrupted' = interrupted,
         Waiting' => Waiting, pc' = "run" => Waiting \/ pc = "run"
  PROVE  ServedInv'
<1>1. KeysOf(managers)' = KeysOf(managers) BY SameKeys
<1> QED BY <1>1 DEF ServedInv, InputServed, KeysKept

\* ServedInv is inductive, given ShapeInv.
LEMMA ServedNext == ShapeInv /\ ServedInv /\ [Next]_vars => ServedInv'
<1> SUFFICES ASSUME ShapeInv, ServedInv, [Next]_vars PROVE ServedInv' OBVIOUS
<1> USE DEF Goto, Quiet, fixed, shared, ghosts
<1>0. /\ Shape /\ active \in 1 .. Len(managers) /\ Current \in Clusters
      /\ DOMAIN managers = 1 .. Len(managers) /\ Len(managers) \in Nat
  BY ShapeFacts DEF ShapeInv, Shape
<1>1. ASSUME managers' = managers, active' = active, kind' = kind PROVE KeysKept
  BY <1>1 DEF KeysKept
<1>2. CASE UNCHANGED vars
  <2>1. KeysKept BY <1>1, <1>2 DEF vars
  <2> QED BY <1>2, <2>1, ServedKeeps DEF vars, Waiting
<1>3. ASSUME NEW f, f \in (IF kind = "PLAIN" THEN {FirstKey} ELSE Inputs), SelectFeatureCluster(f)
      PROVE  ServedInv'
  <2>1. kind # "PLAIN" => f \in Inputs BY <1>3
  <2>2. /\ active' \in 1 .. Len(managers)
        /\ kind # "PLAIN" => Champion(kind, f, KeysOf(managers), active', Len(managers))
        /\ \/ active' = active /\ managers' = managers
           \/ active' # active /\ Updated(active', RestoreFromDataFeatureSwitch(managers[active']))
    BY <1>3, <2>1, SelectStep
  <2>3. input' = f /\ interrupted' = interrupted /\ kind' = kind BY <1>3 DEF SelectFeatureCluster
  <2>4. KeysOf(managers') = KeysOf(managers) /\ Len(managers') = Len(managers)
    <3>1. CASE managers' = managers BY <3>1
    <3>2. CASE Updated(active', RestoreFromDataFeatureSwitch(managers[active']))
      <4> DEFINE n == RestoreFromDataFeatureSwitch(managers[active'])
      <4>1. managers[active'] \in Clusters BY <1>0, <2>2, ShapeFacts
      <4>2. n.key = managers[active'].key BY <4>1, RestoreFacts DEF SameProblem
      <4> HIDE DEF n
      <4>3. Updated(active', n) BY <3>2 DEF n
      <4>4. DOMAIN managers' = 1 .. Len(managers) BY <4>3, LenProperties DEF Updated
      <4>5. \A i \in 1 .. Len(managers) : managers'[i].key = managers[i].key
        BY <4>2, <4>3 DEF Updated
      <4> QED BY <1>0, <4>3, <4>4, <4>5 DEF KeysOf, Updated
    <3> QED BY <2>2, <3>1, <3>2
  <2> QED BY <2>1, <2>2, <2>3, <2>4 DEF ServedInv, InputServed
<1>4. CASE IsApplicationKnowledgeEmpty
  <2>1. KeysKept BY <1>1, <1>4 DEF IsApplicationKnowledgeEmpty
  <2> QED BY <1>4, <2>1, ServedKeeps DEF IsApplicationKnowledgeEmpty, Waiting
<1>5. CASE FindBest
  <2>1. /\ Waiting /\ pc' = "get" /\ kind' = kind /\ active' = active
        /\ input' = input /\ interrupted' = interrupted
    BY <1>5 DEF FindBest, Abort, Waiting
  <2>2. KeysKept
    <3>1. CASE fault' = "none"
      <4>1. PICK n : Updated(active, n) /\ n.key = Current.key
        BY <1>5, <3>1, FindStep DEF SameProblem
      <4> QED BY <2>1, <4>1, UpdatedKeys
    <3>2. CASE fault' # "none" BY <1>1, <1>5, <3>2 DEF FindBest, Abort
    <3> QED BY <3>1, <3>2
  <2> QED BY <2>1, <2>2, ServedKeeps
<1>6. CASE GetBest
  <2>1. /\ Waiting /\ kind' = kind /\ active' = active
        /\ input' = input /\ interrupted' = interrupted
    BY <1>6 DEF GetBest, Abort, Waiting
  <2>2. KeysKept
    <3>1. CASE fault' = "none"
      <4>1. Updated(active, GetBestConfiguration(Current)) BY <1>6, <3>1, GetStep
      <4>2. GetBestConfiguration(Current).key = Current.key BY <1>0, GetFacts DEF SameProblem
      <4> QED BY <2>1, <4>1, <4>2, UpdatedKeys
    <3>2. CASE fault' # "none" BY <1>1, <1>6, <3>2 DEF GetBest, Abort
    <3> QED BY <3>1, <3>2
  <2> QED BY <2>1, <2>2, ServedKeeps
<1>7. CASE Applied
  <2>1. /\ Waiting /\ kind' = kind /\ active' = active
        /\ input' = input /\ interrupted' = interrupted
    BY <1>7 DEF Applied, Waiting
  <2>2. Updated(active, ConfigurationApplied(Current)) BY <1>7, AppliedStep
  <2>3. ConfigurationApplied(Current).key = Current.key BY <1>0, AppliedFacts DEF SameProblem
  <2>4. KeysKept BY <2>1, <2>2, <2>3, UpdatedKeys
  <2> QED BY <2>1, <2>4, ServedKeeps
<1>8. ASSUME pc' \notin {"selected", "find", "get", "apply", "run"}, interrupted' \in BOOLEAN
      PROVE  ServedInv'
  BY <1>8 DEF ServedInv, InputServed, Waiting
<1>9. CASE RunBlock BY <1>8, <1>9 DEF RunBlock
<1>10. interrupted \in BOOLEAN BY DEF ServedInv
<1>11. CASE Report BY <1>8, <1>10, <1>11 DEF Report
<1>12. CASE Log BY <1>8, <1>10, <1>12 DEF Log
<1>13. CASE GetMean BY <1>8, <1>10, <1>13 DEF GetMean, Abort
<1>14. CASE SupportThread
  <2>1. Message BY <1>14, MessageStep
  <2>2. /\ pc' = pc /\ input' = input /\ kind' = kind /\ interrupted' = (input # Null)
    BY <2>1 DEF Message, app
  <2>3. kind # "PLAIN" /\ (Waiting \/ pc = "run") => input \in Inputs BY DEF ServedInv, InputServed
  <2>4. kind # "PLAIN" /\ Waiting => interrupted' = TRUE BY <2>2, <2>3, DataAwareAssumption
  <2>5. Waiting' = Waiting BY <2>2 DEF Waiting
  <2> QED BY <2>2, <2>3, <2>4, <2>5 DEF ServedInv, InputServed
<1>15. CASE Calls
  <2>1. Call
    BY <1>15 DEF Calls, AddFeatureCluster, CreateState, RemoveTheState, ChangeState, AddConstraint,
         RemoveConstraint, AddPoints, RemovePoints, ChangeKnowledge, RemoveRuntimeKnowledge,
         AddRuntimeKnowledge, GlobalInit, NewAdaptors, DefineProblem
  <2> QED BY <1>8, <1>10, <2>1 DEF Call
<1>d. ASSUME NEW f, SelectionDies(f) PROVE ServedInv'
  BY <1>8, <1>10, <1>d DEF SelectionDies, Abort
<1>16. CASE Loop BY <1>3, <1>4, <1>5, <1>6, <1>7, <1>9, <1>11, <1>12, <1>13, <1>16, <1>d DEF Loop
<1>17. CASE Aborted BY <1>2, <1>17 DEF Aborted
<1> QED BY <1>2, <1>14, <1>15, <1>16, <1>17 DEF Next

\* Until a message replaces the clusters, the cluster that serves an input respects the
\* comparison functions if any does, and with the Euclidean distance no cluster that is
\* as admissible is nearer: for any number of clusters, features and coordinates.
THEOREM TheClosestServes == Spec => []ServedByTheClosest
<1>1. Init => ServedInv BY DEF Init, ServedInv, InputServed, Waiting
<1>2. ShapeInv /\ ServedInv => ServedByTheClosest
  <2> SUFFICES ASSUME ShapeInv, ServedInv, kind # "PLAIN", pc \in {"find", "get", "apply"},
                      ~interrupted, NEW i \in DOMAIN managers
               PROVE  /\ Admissible(managers[i].key, input) => Admissible(Current.key, input)
                      /\ (/\ kind = "EUCLIDEAN"
                          /\ Admissible(managers[i].key, input) = Admissible(Current.key, input))
                         => Distance(input, Current.key) <= Distance(input, managers[i].key)
    BY DEF ServedByTheClosest
  <2>1. interrupted = FALSE /\ Waiting BY DEF ServedInv, Waiting
  <2>2. Champion(kind, input, KeysOf(managers), active, Len(managers))
    BY <2>1 DEF ServedInv, InputServed
  <2>3. /\ i \in 1 .. Len(managers) /\ KeysOf(managers)[i] = managers[i].key
        /\ KeysOf(managers)[active] = Current.key
    BY ShapeFacts, KeysFacts DEF ShapeInv, Shape, Current
  <2> QED BY <2>2, <2>3 DEF Champion
<1> QED BY <1>1, <1>2, ShapeInvariant, ServedNext, PTL DEF Spec
=============================================================================
