CONSTANTS
  Topics = {t1, t2}
  Callers = {c1, c2}
  Events <- MCEvents
  Requests <- UnfilteredRequests
  MaxSubs = 2
  MaxFaults = 1
  JoinStatuses = {"ok"}
  ErrorReactions = {"return", "disconnect"}
  CallbacksThrow = TRUE
SPECIFICATION Spec
SYMMETRY CallerSymmetry
INVARIANTS
  NeverStranded
  OpenSocketIsWatched
  UnsubscribeOwed
  RepliesCorrelated
PROPERTY
  BackoffNeedsAnAnswer
