CONSTANTS
  Topics = {t1}
  Callers = {c1, c2}
  Events <- MCEvents
  Requests <- FilteredRequests
  MaxSubs = 2
  MaxFaults = 1
  JoinStatuses = {"ok", "error"}
  ErrorReactions = {"return", "throw"}
  CallbacksThrow = TRUE
SPECIFICATION Spec
SYMMETRY CallerSymmetry
INVARIANTS
  FilterReachesServer
  NoStaleEvents
