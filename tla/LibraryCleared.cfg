SPECIFICATION LibSpec
CONSTANTS
  c1 = c1  c2 = c2  d = d
  Null = Null  NoState = NoState  None = None
  Kinds = {"PLAIN", "EUCLIDEAN", "NORMALIZED", "INTEGRAL"}
  Confs = {c1, c2}  Default = d
  States = {"s1", "s2"}  FirstState = "s1"
  Clauses = {"k"}
  MaxOps = 2
  Comparisons <- MCComparisons
  Keys <- MCKeys
  FirstKey <- MCFirstKey
  Inputs <- MCInputs
  Models <- MCModels
  Size = 2  Inertia = 2  MaxNow = 4  EnergyRange = 2  MaxPolls = 3  PageSize = 4
  MaxValue = 3  Values = {0, 3}
  Expected <- MCExpected  Goals <- MCGoals
INVARIANTS ClearedIsUncorrected
