\* One browser that edits a campaign's content.
SPECIFICATION Spec
CONSTANTS
  Rows <- MCRows
  MaxFiles = 2
  MaxInFlight = 2
  Budgets <- MCBudgets
INVARIANTS
  ContentInv
  TestMailIsShown
  SavedStays
  CacheIsFresh
  PreviewIsOfPage
  FilesAgree
PROPERTIES
  EditsSurvive
CHECK_DEADLOCK FALSE
