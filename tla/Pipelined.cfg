SPECIFICATION Spec
CONSTANTS
  r1 = r1
  r2 = r2
  Reactors = {r1, r2}
  Fds = {5}
  Kinds = {"plain"}
  Late = {}
  Splits = FALSE
  Abandons = FALSE
  Window = 2
  MaxSessions = 1
  MaxRequests = 2
CHECK_DEADLOCK FALSE
SYMMETRY ReactorSymmetry
INVARIANT ResponsesInOrder
