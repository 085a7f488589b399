CONSTANTS
  Counts = {1, 2, 3}
  Overhead = 1
  SegmentBytes = 5
  IndexInterval = 2
  MaxBytes = {0, 3}
  MaxFetchChunk = 8
  SpliceThreshold = 5
  Reordered = TRUE
  OpensFail = TRUE
  WritesFail = TRUE
  MaxOffset = 5
  MaxInflight = 2
SPECIFICATION Spec
INVARIANTS
  TypeOK
  OffsetsDense
  BatchesInTheirSegment
  IndexAccurate
  
  FullFetchOrdered
PROPERTY
  ImplementsLog
