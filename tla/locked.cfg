SPECIFICATION Spec
CONSTANTS
  ana = ana
  budi = budi
  citra = citra
  Users = {ana, citra}
  Client = client
  Workers = {w1}
  Items = {1}
  Posts = {p1, p2}
  Role <- MCRole
  PublishAt <- Planned
  NoUser = NoUser
  NoPost = NoPost
  NoItem = NoItem
  NoRow = NoRow
  Limit = 1
  Start = "APPROVED"
  Leavers = {}
  Assignees = {ana}
  Menu <- HandMenu
  MaxOps = 4
  MaxFaults = 0
  MaxDeliver = 2
PROPERTY LockedStays
CHECK_DEADLOCK FALSE
