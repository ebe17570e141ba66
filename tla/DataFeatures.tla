---------------------------- MODULE DataFeatures ----------------------------
(***************************************************************************)
(* Which feature cluster is the closest to the features of an input:       *)
(* struct data_feature_selector and the objects it is made of.  A feature  *)
(* is a sequence of integers, the key of a cluster is a feature; whether   *)
(* the coordinates are divided as floating point or as integers is told by *)
(* the type of the distance, "NORMALIZED" or "INTEGRAL".                   *)
(***************************************************************************)
EXTENDS Integers, Sequences, FiniteSetsExt

CONSTANTS
  Comparisons   \* the template parameters cfs, one per coordinate

ASSUME FeaturesAssumption == Comparisons \in Seq(STRING) /\ Comparisons # <<>>

\* A data feature has a value for each of the comparison functions.
Features == [1 .. Len(Comparisons) -> Int]

\* cf_proxy: the comparison function of one coordinate.
Compare(cf, a, b) ==
  \/ cf = "DONT_CARE"
  \/ cf = "LESS_OR_EQUAL"    /\ a <= b
  \/ cf = "GREATER_OR_EQUAL" /\ a >= b

\* data_features_admissible: every coordinate compares.
Admissible(f1, f2) == \A i \in DOMAIN f1 : Compare(Comparisons[i], f1[i], f2[i])

\* data_features_distance: the square of the distance (no root is taken), one
\* coordinate added to the sum of those before it.
Square(origin, target, i) == (origin[i] - target[i]) * (origin[i] - target[i])
Distance(origin, target) ==
  LET sum[i \in 1 .. Len(origin)] ==
        IF i = 1 THEN Square(origin, target, 1) ELSE Square(origin, target, i) + sum[i - 1]
  IN  sum[Len(origin)]

\* normalize_datafeatures: the width of the box around the three features.
Width(origin, f1, f2, i) ==
  Max({origin[i], f1[i], f2[i]}) - Min({origin[i], f1[i], f2[i]})

\* The square of the distance once the coordinates are divided by the widths, one
\* fraction added to the sum of those before it.  The two distances that are compared
\* have the same denominator, so the numerator is enough.
NormalizedDistance(origin, target, other) ==
  LET Wide(i) == Width(origin, target, other, i) * Width(origin, target, other, i)
      sum[i \in 0 .. Len(origin)] ==
        IF i = 0 THEN <<0, 1>>
        ELSE <<sum[i - 1][1] * Wide(i) + Square(origin, target, i) * sum[i - 1][2], sum[i - 1][2] * Wide(i)>>
  IN  sum[Len(origin)][1]

\* Features of an integral type are divided as integers: a coordinate becomes 1 at the
\* upper end of the box and 0 elsewhere, and the distance counts the ones that differ.
Scaled(x, origin, f1, f2, i) ==
  (x[i] - Min({origin[i], f1[i], f2[i]})) \div Width(origin, f1, f2, i)
IntegralDistance(origin, target, other) ==
  Cardinality({i \in DOMAIN origin :
    Scaled(origin, origin, target, other, i) # Scaled(target, origin, target, other, i)})

\* Is target strictly closer than best?  A coordinate in which all three are
\* equal divides zero by zero: the distances are not numbers, nothing is less.
Closer(distance_type, origin, best, target) ==
  \/ /\ distance_type = "EUCLIDEAN"
     /\ Distance(origin, target) < Distance(origin, best)
  \/ /\ distance_type = "NORMALIZED"
     /\ \A i \in DOMAIN origin : Width(origin, best, target, i) > 0
     /\ NormalizedDistance(origin, target, best) < NormalizedDistance(origin, best, target)
  \/ /\ distance_type = "INTEGRAL"
     /\ \A i \in DOMAIN origin : Width(origin, best, target, i) > 0
     /\ IntegralDistance(origin, target, best) < IntegralDistance(origin, best, target)

\* Mutant: an admissible cluster always replaces the best so far.
ReplacesIfAdmissible(distance_type, origin, best, target) ==
  Admissible(target, origin) \/ Closer(distance_type, origin, best, target)

\* data_feature_selector::operator(): does target replace the best so far?
Replaces(distance_type, origin, best, target) ==
  \/ Admissible(target, origin) /\ ~Admissible(best, origin)
  \/ /\ Admissible(target, origin) = Admissible(best, origin)
     /\ Closer(distance_type, origin, best, target)

\* The loop of select_feature_cluster: the position the tournament ends with.
ClosestOf(distance_type, origin, keys) ==
  LET best[i \in 1 .. Len(keys)] ==
        IF i = 1 THEN 1
        ELSE IF Replaces(distance_type, origin, keys[best[i - 1]], keys[i])
             THEN i ELSE best[i - 1]
  IN  best[Len(keys)]

\* Integers cannot be divided by zero: the comparison of two clusters that agree with
\* the input in a coordinate ends the process.
DividesByZero(distance_type, origin, best, target) ==
  /\ distance_type = "INTEGRAL" /\ Admissible(target, origin) = Admissible(best, origin)
  /\ \E i \in DOMAIN origin : Width(origin, best, target, i) = 0
SelectionFails(distance_type, origin, keys) ==
  \E i \in 2 .. Len(keys) :
    DividesByZero(distance_type, origin,
                  keys[ClosestOf(distance_type, origin, SubSeq(keys, 1, i - 1))], keys[i])

=============================================================================
