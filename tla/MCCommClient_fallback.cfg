SPECIFICATION Spec
CONSTANTS
  r1 = r1
  r2 = r2
  NoRequest = none
  Requests <- OneRequest
  HttpOnly <- NoRequests
  MaxAttempts = 1
  MaxSockets = 2
  MaxLogins = 1
INVARIANT LostRequestsFallBack
CHECK_DEADLOCK FALSE
