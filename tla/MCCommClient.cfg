SPECIFICATION FairSpec
CONSTANTS
  r1 = r1
  r2 = r2
  NoRequest = none
  Requests <- TwoRequests
  HttpOnly <- OneRequest
  MaxAttempts = 2
  MaxSockets = 4
  MaxLogins = 1
INVARIANTS
    BooksKept
    DownMeansRetrying
    LinkWatched
PROPERTIES
    EveryRequestReturns
CHECK_DEADLOCK FALSE
