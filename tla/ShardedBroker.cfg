SPECIFICATION Spec
CONSTANTS
  Reactors = {r1, r2}
  Hosted = {p1, p2}
  Stray = {ps}
  Unknown = {px}
  Counts = {1, 2}
  MaxEntries = 1
  MaxRequests = 3
  MaxOffset = 6
CHECK_DEADLOCK FALSE
INVARIANTS
  TypeOK
  OffsetsUnique
  
PROPERTY
  PartitionsAreLogs
