SPECIFICATION FairSpec
CONSTANTS
  ana = ana
  budi = budi
  citra = citra
  Users = {budi, citra}
  Client = client
  Workers = {w1}
  Items = {1, 2}
  Posts = {p1, p2}
  Role <- MCRole
  PublishAt <- Planned
  NoUser = NoUser
  NoPost = NoPost
  NoItem = NoItem
  NoRow = NoRow
  Limit = 2
  Start = "APPROVED"
  Leavers = {budi}
  Assignees = {budi}
  Menu <- RetryMenu
  MaxOps = 2
  MaxFaults = 0
  MaxDeliver = 2
PROPERTY SafetyNet
CHECK_DEADLOCK FALSE
