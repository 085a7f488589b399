SPECIFICATION Spec
CONSTANTS
  r1 = r1
  r2 = r2
  Reactors = {r1, r2}
  Fds = {5, 6}
  Kinds = {"plain", "bad"}
  Late = {r1, r2}
  Splits = TRUE
  Abandons = TRUE
  Window = 2
  MaxSessions = 2
  MaxRequests = 2
CHECK_DEADLOCK FALSE
INVARIANTS TypeOK NothingMislaid OwnUnlessStranded
SYMMETRY ReactorSymmetry
