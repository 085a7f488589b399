CONSTANTS
  Counts = {1, 2}
  Overhead = 1
  SegmentBytes = 5
  IndexInterval = 2
  MaxBytes = {3}
  MaxFetchChunk = 8
  SpliceThreshold = 100
  Reordered = FALSE
  OpensFail = FALSE
  WritesFail = FALSE
  MaxOffset = 6
  MaxInflight = 2
SPECIFICATION Spec
INVARIANT
  FetchedFromOffset
