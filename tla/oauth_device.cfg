CONSTANTS
  Interval = 1
  SlowDown = 1
  Lifetime = 12
  timeoutMs = 2
  MaxSlowDowns = 2
SPECIFICATION FairSpec
INVARIANTS
  IssuedIsTaken
  ApprovedInTime
PROPERTIES
  KeepsDistance
  PollingEnds
CHECK_DEADLOCK FALSE
