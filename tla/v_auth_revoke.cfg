CONSTANTS
  Callers = {a, b}
  MaxCalls = 3
  MaxFaults = 0
  SCOPED_TOKEN_CLEANUP_ATTEMPTS = 2
SPECIFICATION Spec
INVARIANT
  RevokesBackingToken
CHECK_DEADLOCK FALSE
