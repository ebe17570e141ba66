\* Whether two elements of a section that heel accepts have different names.
SPECIFICATION ToolSpec
CONSTANTS
  a = a  b = b  c = c  x = x
  None = None
  Confs = {a, b, c}  Allowed = {a, b}
  Metrics = {"m1", "m2"}
  Setups <- MCSetups
  Centroids = {x}
  PerIteration = 3  PerConfiguration = 2  MaxIteration = 2  NumClusters = 2  MaxFaults = 1
  N = 3  MaxJobs = 2
  Topics <- MCTopics  MaxInbox = 2
  Projects <- MCProjects
  Identifiers = {1, 2, 5, 6, 7, 8, 9, 11, 12, 13, 14, 15, 21, 22, 25, 32, 35}
  Value <- MCValue
INVARIANT NamesAreDistinct
