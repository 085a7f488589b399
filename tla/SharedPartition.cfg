SPECIFICATION Spec
CONSTANTS
  Reactors = {r1, r2}
  Hosted = {p1, p2}
  Stray = {}
  Unknown = {}
  Counts = {1}
  MaxEntries = 2
  MaxRequests = 2
  MaxOffset = 6
CHECK_DEADLOCK FALSE
INVARIANTS
  OffsetsUnique
