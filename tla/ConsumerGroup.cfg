CONSTANTS
  GroupIds = {g1}
  Group = g1
  Names = {a, b}
  Named = {a}
  Anonymous = Anonymous
  Assignments = {none, owner}
  NoAssignment = none
  Owner = owner
  SessionTimeouts = {1}
  DefaultTimeout = 1
  IdleCap = 2
  Partitions = {}
  Offsets = {0}
  MaxAssignments = 2
  MaxGeneration = 5
  MaxMemberIds = 2
  MaxLosses = 1
  MaxCrashes = 1
  MaxLeaves = 1
SPECIFICATION GroupSpec
INVARIANTS
  GroupTypeOK
  SingleOwner
  AcceptedIsMember
PROPERTY
  RebalanceEnds
