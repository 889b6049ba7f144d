\* Resume after Cancel: the run ends completed.
SPECIFICATION Spec
CONSTANTS
  Workers = {w1}
  Clients = {c1}
  Rows = 2
  MaxId = 2
  BatchSize = 2
  SaveBatch = 2
  RateLimit = 1
  Rates = {1}
  Ops = {"resume", "cancel"}
  MaxRequests = 2
  MaxFaults = 0
INVARIANT
  CancelledRunEndsCancelled
