CONSTANTS
  Clients = {c1, c2}
  Malformed = {}
  Workers = {w1}
  Nobody = nobody
  PerIteration = 1
  MaxDoe = 1
  Features = FALSE
  MaxInbox = 2
  MaxSent = 1
  MaxCrashes = 0
SPECIFICATION FairSpec
PROPERTIES EveryClientIsAnswered
