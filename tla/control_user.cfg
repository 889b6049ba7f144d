\* One user, one request at a time, two crashes of the server and a failing statement.
SPECIFICATION Spec
CONSTANTS
  Ids = {r1, r2}
  Clients = {c1}
  Scheduler = scheduler
  Ops <- UserOps
  MaxRequests = 6
  MaxRuns = 3
  MaxCrashes = 2
  MaxFaults = 1
SYMMETRY Symmetry
INVARIANTS
  UserInv
  OneRun
  RunningRow
  SendingHasRunner
  DuplicatesNeedFailures
  CountersBounded
PROPERTY
  SavedIsFinal
