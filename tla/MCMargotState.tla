--------------------------- MODULE MCMargotState ---------------------------
(***************************************************************************)
(* Small instances of MargotState for TLC.  Two metrics that pull in       *)
(* opposite directions, so that tightening one constraint and relaxing the *)
(* other moves Operating Points between constraints and rank.              *)
(***************************************************************************)
EXTENDS MargotState, OperatingPoint

CONSTANTS a, b, c, none

MCOPs == {a, b, c}
MCGoals == {"lo", "hi"}
MCFields == {"time", "error"}
MCTemplates == {[goal |-> "hi", field |-> "time"], [goal |-> "lo", field |-> "error"]}
MCRanks == {"fast", "precise"}
MCCmp == [g \in MCGoals |-> IF g = "lo" THEN ">" ELSE "<="]

\* Three Operating Points: one knob, and the metrics time, error and quality.
MCPoint(knob, time, error, quality) ==
  [knobs |-> <<Data(knob)>>, metrics |-> <<time, error, quality>>]
MCPoints ==
  [op \in MCOPs |->
     CASE op = a -> MCPoint(1, Distribution(1, 1), Distribution(5, 1), Distribution(1, 0))
       [] op = b -> MCPoint(2, Distribution(2, 2), Distribution(4, 0), Distribution(1, 0))
       [] op = c -> MCPoint(3, Distribution(4, 0), Distribution(3, 1), Distribution(3, 0))]
ASSUME OneForEachConfiguration ==
  \A p, q \in MCOPs : p # q => ~SameConfiguration(MCPoints[p], MCPoints[q])

\* Constraints are on the bound of a metric, within one deviation.
MCField(f) ==
  LET t == CHOOSE t \in MCTemplates : t.field = f
  IN  OPField("metrics", GetBound(MCCmp[t.goal]), IF f = "time" THEN 1 ELSE 2, 1, 1)
MCValue == [f \in MCFields |-> [op \in MCOPs |-> EvaluateSimple(MCPoints[op], MCField(f))]]

\* One rank weighs the knob and the quality, the other is a power of the quality.
MCRankFields ==
  [fast    |-> <<OPField("knobs", "LOWER", 1, 0, 2), OPField("metrics", "LOWER", 3, 0, 1)>>,
   precise |-> <<OPField("metrics", "LOWER", 3, 0, 2)>>]
MCRankValue ==
  [r \in MCRanks |->
     [op \in MCOPs |-> IF r = "fast" THEN EvaluateLinear(MCPoints[op], MCRankFields[r])
                                     ELSE EvaluateGeometric(MCPoints[op], MCRankFields[r])]]
MCObjective == [r \in MCRanks |-> IF r = "fast" THEN "min" ELSE "max"]
MCBatches == {{a, b, c}, {b}}
=============================================================================
