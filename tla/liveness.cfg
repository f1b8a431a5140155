SPECIFICATION FairSpec
CONSTANTS
  ana = ana
  budi = budi
  citra = citra
  Users = {citra}
  Workers = {w1, w2}
  Posts = {p1, p2}
  Accounts = {a1}
  Role <- MCRole
  NoUser = NoUser
  NoPost = NoPost
  NoProc = NoProc
  NoRow = NoRow
  MaxTime = 1
  Lead = 1
  MaxAttempts = 2
  Limit = 1
  Menu <- TickMenu
  MaxOps = 6
  MaxFaults = 0
PROPERTY DueIsResolved
CHECK_DEADLOCK FALSE
