CONSTANTS
  Topics = {t1}
  Callers = {c1, c2}
  Events <- MCEvents
  Requests <- FilteredRequests
  MaxSubs = 1
  MaxFaults = 1
  JoinStatuses = {"ok", "error"}
  ErrorReactions = {"return"}
  CallbacksThrow = FALSE
SPECIFICATION Spec
INVARIANT
  SettledHasNoReplyLeft
