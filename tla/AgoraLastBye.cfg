CONSTANTS
  Clients = {c1, c2}
  Malformed = {}
  Workers = {w1, w2}
  Nobody = nobody
  PerIteration = 1
  MaxDoe = 1
  Features = FALSE
  MaxInbox = 2
  MaxSent = 1
  MaxCrashes = 0
SPECIFICATION Spec
SYMMETRY Interchangeable
INVARIANTS LastByeResets
