SPECIFICATION LeaderSpec
CONSTANTS
  FirstLast = 2
  FirstPurged = 1
  FollowerLogs <- Logs
  MaxPayload = 1
  Stride = 2
  MaxSent = 4
  Budgets <- Bounds
  Partial = TRUE
  Node = {1, 2, 3}
  Self = 1
  Inherited = 2
  InitMembers <- Members3
  Requests <- Requests3
  Client = {c1, c2}
  MaxIndex = 5
  MaxTime = 2
SYMMETRY ClientSymmetry
CHECK_DEADLOCK FALSE
INVARIANTS
  MatchingIsHeld
  NoPanicIntact
  InflightInLog
  QuorumHoldsAccepted
  NoQuorumWithoutCommitted
  OneUncommittedMembership
  NotLeftJoint
PROPERTY
  QuorumsOverlap
