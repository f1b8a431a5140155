SPECIFICATION FairSpec
CONSTANTS
  ana = ana
  budi = budi
  citra = citra
  Users = {budi, citra}
  Client = client
  Workers = {w1}
  Items = {1}
  Posts = {p1, p2}
  Role <- MCRole
  PublishAt <- Planned
  NoUser = NoUser
  NoPost = NoPost
  NoItem = NoItem
  NoRow = NoRow
  Limit = 1
  Start = "APPROVED"
  Leavers = {budi}
  Assignees = {budi}
  Menu <- HandMenu
  MaxOps = 2
  MaxFaults = 1
  MaxDeliver = 2
INVARIANTS Tracked TruthInv PublishedOnce TypeOK
PROPERTY ScheduledResolves
CHECK_DEADLOCK FALSE
