SPECIFICATION FairSpec
CONSTANTS
  r1 = r1
  r2 = r2
  Reactors = {r1, r2}
  Fds = {5}
  Kinds = {"plain", "splice", "huge"}
  Late = {}
  Splits = TRUE
  Abandons = TRUE
  Window = 2
  MaxSessions = 1
  MaxRequests = 2
CHECK_DEADLOCK FALSE
INVARIANTS NoLostWakeup SentOnce SplicedBehindOwn
PROPERTY Answered
