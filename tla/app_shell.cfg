\* A browser's session and search, and two administrators.
SPECIFICATION Spec
CONSTANTS
  Guest = "guest"
  Newcomer = "newcomer"
  Admins <- MCAdmins
  Short <- MCShort
  Long <- MCLong
  Budgets <- MCBudgets
INVARIANTS
  SessionAgrees
  PagesCanWork
  SomeAdminLeft
  ListShowsOwn
  ResultsAreOfText
CHECK_DEADLOCK FALSE
