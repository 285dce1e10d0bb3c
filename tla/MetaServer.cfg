SPECIFICATION MetaSpec
CONSTANTS
  Node <- Nodes
  Server <- Servers
  Value = {"a"}
  Members <- Memberships
  NoNode = NoNode
  Client = {"c1", "c2", "c3"}
  Count = 2
  NoId = NoId
  Learners = {3}
  Known = {1, 2}
  LagThreshold = 0
  MaxElections = 1
  MaxEvents = 3
INVARIANTS
  LoggedIsCommitted
  ReachablePutSucceeds
  SteadyLeaderReads
  NoSharedId
PROPERTY
  CommandEnds
CHECK_DEADLOCK FALSE
