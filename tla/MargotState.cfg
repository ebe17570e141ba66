CONSTANTS
  a = a
  b = b
  c = c
  none = none
  OPs <- MCOPs
  NoOP = none
  Priorities = {1, 2, 3}
  Goals <- MCGoals
  Fields <- MCFields
  Monitored = {"time"}
  Templates <- MCTemplates
  Ranks <- MCRanks
  DefaultRank = "fast"
  Cmp <- MCCmp
  GoalValues = {1, 2}
  Value <- MCValue
  RankValue <- MCRankValue
  Objective <- MCObjective
  Coefs = {1, 2}
  Unit = 2
  Batches <- MCBatches
SPECIFICATION Spec
INVARIANTS TypeOK Consistent
PROPERTIES ReturnsOptimum RelaxesLeastImportantFirst RelaxationIsLexicographic
