\* Requests of every kind that may disturb a run, and a failing statement.
SPECIFICATION Spec
CONSTANTS
  Workers = {w1, w2}
  Clients = {c1, c2}
  Rows = 2
  MaxId = 3
  BatchSize = 1
  SaveBatch = 2
  RateLimit = 1
  Rates = {1}
  Ops <- SafetyOps
  MaxRequests = 2
  MaxFaults = 1
SYMMETRY Symmetry
INVARIANTS
  NoDoubleSend
  PauseBound
  CancelBound
  TableTellsTruth
  CountersMatchTable
  RunCoversTable
  RunInv
PROPERTY
  KeepsContract
