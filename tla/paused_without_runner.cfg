\* A crash, or a late Pause, leaves a paused campaign that has no runner.
SPECIFICATION Spec
CONSTANTS
  Ids = {r1, r2}
  Clients = {c1}
  Scheduler = scheduler
  Ops = {"start", "pause"}
  MaxRequests = 2
  MaxRuns = 2
  MaxCrashes = 1
  MaxFaults = 0
INVARIANT
  PausedHasRunner
