CONSTANTS
  GroupIds = {g1}
  Group = g1
  Names = {a, b}
  Named = {a, b}
  Anonymous = Anonymous
  Assignments = {none, owner}
  NoAssignment = none
  Owner = owner
  SessionTimeouts = {1}
  DefaultTimeout = 1
  IdleCap = 2
  Partitions = {}
  Offsets = {0}
  MaxAssignments = 2
  MaxGeneration = 12
  MaxMemberIds = 0
  MaxLosses = 0
  MaxCrashes = 1
  MaxLeaves = 0
SPECIFICATION TimelySpec
PROPERTY
  DeadAreEvicted
