CONSTANTS
  Topics = {t1}
  Callers = {c1, c2}
  Events <- MCEvents
  Requests <- UnfilteredRequests
  MaxSubs = 2
  MaxFaults = 1
  JoinStatuses = {"ok", "error"}
  ErrorReactions = {"return"}
  CallbacksThrow = TRUE
SPECIFICATION FairSpec
INVARIANTS
  TypeOK
  JoinedOnce
  JoinedMeansFed
  DisconnectIsFinal
PROPERTIES
  UnsubscribeSettles
  TopicRecovers
  ImplementsContract
