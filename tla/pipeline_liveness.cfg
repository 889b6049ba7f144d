\* Termination: one worker, a channel that fills up, and a rate limit that
\* refuses every send until SetRate.
SPECIFICATION FairSpec
CONSTANTS
  Workers = {w1}
  Clients = {c1}
  Rows = 4
  MaxId = 4
  BatchSize = 2
  SaveBatch = 2
  RateLimit <- NegativeRate
  Rates = {1}
  Ops <- LiveOps
  MaxRequests = 2
  MaxFaults = 0
PROPERTIES
  RunEnds
  CancelEnds
