SPECIFICATION FairSpec
CONSTANTS
  ann = ann
  bob = bob
  x = x
  y = y
  Pages = {p}
  Logins <- LoginsVal
  Passwords <- PasswordsVal
  Garbage = {0, 2}
  Tables <- TablesVal
  MaxRows = 4
  MaxRequests = 4
INVARIANTS TypeOK SessionIsOwner RowsOwned ListsOwn AnswersInPlace
PROPERTY LoadingEnds
CHECK_DEADLOCK FALSE
