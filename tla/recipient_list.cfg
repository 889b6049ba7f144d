\* The recipients tab, with pages of one recipient.
SPECIFICATION Spec
CONSTANTS
  PageSize = 1
  FileSizes <- MCFileSizes
  MaxRcp = 4
  MaxInFlight = 2
  MaxActs = 3
INVARIANTS
  TotalsAgree
  TabIsFresh
  PagesCover
CHECK_DEADLOCK FALSE
