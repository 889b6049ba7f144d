\* The scheduler, two overlapping requests of users, and a failing statement.
SPECIFICATION FairSpec
CONSTANTS
  Ids = {r1}
  Clients = {c1, c2}
  Scheduler = scheduler
  Ops <- ScheduleOps
  MaxRequests = 4
  MaxRuns = 3
  MaxCrashes = 0
  MaxFaults = 1
INVARIANT
  RunIsRegistered
PROPERTY
  ScheduleIsHandled
