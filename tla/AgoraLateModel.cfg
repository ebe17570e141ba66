CONSTANTS
  Clients = {c1}
  Malformed = {}
  Workers = {w1, w2}
  Nobody = nobody
  PerIteration = 1
  MaxDoe = 1
  Features = FALSE
  MaxInbox = 3
  MaxSent = 1
  MaxCrashes = 0
SPECIFICATION FairSpec
PROPERTIES ModelsOnlyWhileExploring
