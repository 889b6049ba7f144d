\* One page and the first run, with another user who cancels it.
CONSTANTS
  Pending = 2
  Buffer = 2
  OtherOps <- MCOtherOps
  MaxRequests = 2
  MaxHaps = 1
SPECIFICATION FairSpec
INVARIANTS PageInv StatusShown FinalCountsShown ResultsShownOnce NoSendOnClosed
PROPERTIES EndIsShown
CHECK_DEADLOCK FALSE
