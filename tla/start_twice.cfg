\* Two overlapping Starts.
SPECIFICATION Spec
CONSTANTS
  Ids = {r1, r2}
  Clients = {c1, c2}
  Scheduler = scheduler
  Ops = {"start"}
  MaxRequests = 2
  MaxRuns = 2
  MaxCrashes = 0
  MaxFaults = 0
INVARIANT
  OneRun
