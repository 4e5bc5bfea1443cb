CONSTANTS
  Callers = {a, b}
  MaxCalls = 5
  MaxFaults = 4
  SCOPED_TOKEN_CLEANUP_ATTEMPTS = 2
SPECIFICATION Spec
INVARIANTS
  OrphanNeedsEveryAttempt
  CookiesCurrent
  DeadTokenIsBeingRevoked
PROPERTY
  RevokedStaysGone
CHECK_DEADLOCK FALSE
