\* One worker, two clients and a crash; two workers, a client and no crash.
CONSTANTS
  Clients = {c1, c2}
  Malformed = {c2}
  Workers = {w1}
  Nobody = nobody
  PerIteration = 2
  MaxDoe = 2
  Features = TRUE
  MaxInbox = 2
  MaxSent = 2
  MaxCrashes = 1
  client = client  one = one  two = two
SPECIFICATION ServerSpec
INVARIANTS TypeOK StatusSound MembersAreConnected LastByeResets ConcurrentStatusSound
PROPERTIES KnowledgeIsKept ConcurrentBuildingEnds
