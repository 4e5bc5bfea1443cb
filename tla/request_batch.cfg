CONSTANTS
  Operations = 3
  Batched = TRUE
  maxRetries = 2
SPECIFICATION FairSpec
INVARIANTS
  TypeOK
  PerformedInOrder
  NothingLeaks
PROPERTIES
  AbortedSendsNothing
  TimeoutSettles
  AbortSettles
CHECK_DEADLOCK FALSE
