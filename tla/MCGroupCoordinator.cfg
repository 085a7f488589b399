CONSTANTS
  GroupIds = {g1}
  Names = {a, b}
  Anonymous = Anonymous
  Assignments = {none, blob}
  NoAssignment = none
  SessionTimeouts = {0, 1}
  DefaultTimeout = 1
  IdleCap = 2
  Partitions = {p1}
  Offsets = {0}
  MaxAssignments = 2
  MaxGeneration = 3
  MaxMemberIds = 1
SYMMETRY NamesSymmetry
SPECIFICATION Spec
INVARIANTS
  TypeOK
  UniqueMembers
  EmptyIffNoMembers
  AwaitingSyncIsNumbered
PROPERTIES
  RemovalFences
  LeaderKept
  EvictedOnlyWhenIdle
