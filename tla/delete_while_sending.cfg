\* A recipient deleted between two pages: another one is skipped.
SPECIFICATION Spec
CONSTANTS
  Workers = {w1}
  Clients = {c1}
  Rows = 3
  MaxId = 3
  BatchSize = 1
  SaveBatch = 2
  RateLimit = 1
  Rates = {1}
  Ops = {"delete"}
  MaxRequests = 1
  MaxFaults = 0
INVARIANT
  DispatchesAll
