--------------------------- MODULE OperatingPoint ---------------------------
(***************************************************************************)
(* What an Operating Point is and how it is valued.  It has two segments   *)
(* of fields, the knobs and the metrics; a field has a mean and, when it   *)
(* is a Distribution, a standard deviation.  Constraints look at one       *)
(* field, ranks compose several.                                           *)
(***************************************************************************)
EXTENDS Integers, Sequences, FiniteSetsExt

\* Data and Distribution.
Data(mean) == [mean |-> mean]
Distribution(mean, deviation) == [mean |-> mean, standard_deviation |-> deviation]

\* OperatingPointSegment: what is not a Distribution deviates by nothing.
GetMean(segment, i) == segment[i].mean
GetStandardDeviation(segment, i) ==
  IF "standard_deviation" \in DOMAIN segment[i] THEN segment[i].standard_deviation ELSE 0

\* operator== of a field and of a segment, and their hashes: only the means count.
SameField(a, b) == a.mean = b.mean
SameSegment(s, t) == DOMAIN s = DOMAIN t /\ \A i \in DOMAIN s : SameField(s[i], t[i])

\* The knowledge has one Operating Point for a configuration.
SameConfiguration(p, q) == SameSegment(p.knobs, q.knobs)

\* OPField: which field, which bound, how many deviations, which coefficient.
OPField(segment, bound, i, sigma, coefficient) ==
  [segment |-> segment, bound |-> bound, index |-> i, sigma |-> sigma, coefficient |-> coefficient]

LowerBound(segment, i, sigma) == GetMean(segment, i) - sigma * GetStandardDeviation(segment, i)
UpperBound(segment, i, sigma) == GetMean(segment, i) + sigma * GetStandardDeviation(segment, i)

\* op_utils: the four specialisations.
Extract(op, field) ==
  IF field.bound = "LOWER" THEN LowerBound(op[field.segment], field.index, field.sigma)
                           ELSE UpperBound(op[field.segment], field.index, field.sigma)

\* Evaluator: one field (its coefficient is not used), a weighted sum or a product of
\* powers; coefficients are whole numbers here.
EvaluateSimple(op, field) == Extract(op, field)
EvaluateLinear(op, fields) ==
  MapThenSumSet(LAMBDA i : Extract(op, fields[i]) * fields[i].coefficient, DOMAIN fields)
EvaluateGeometric(op, fields) ==
  FoldSet(LAMBDA i, product : (Extract(op, fields[i]) ^ fields[i].coefficient) * product, 1, DOMAIN fields)

\* helper::constraint::get_bound: a constraint looks at the bound that is harder to meet.
GetBound(comparison) == IF comparison \in {">", ">="} THEN "LOWER" ELSE "UPPER"

=============================================================================
