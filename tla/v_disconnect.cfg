CONSTANTS
  Topics = {t1}
  Callers = {c1, c2}
  Events <- MCEvents
  Requests <- UnfilteredRequests
  MaxSubs = 1
  MaxFaults = 1
  JoinStatuses = {"ok", "error"}
  ErrorReactions = {"disconnect"}
  CallbacksThrow = FALSE
SPECIFICATION Spec
INVARIANT
  DisconnectIsFinal
