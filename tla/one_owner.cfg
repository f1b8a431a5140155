SPECIFICATION Spec
CONSTANTS
  ana = ana
  budi = budi
  citra = citra
  Users = {ana, citra}
  Workers = {w1}
  Posts = {p1}
  Accounts = {a1}
  Role <- MCRole
  NoUser = NoUser
  NoPost = NoPost
  NoProc = NoProc
  NoRow = NoRow
  MaxTime = 1
  Lead = 1
  MaxAttempts = 2
  Limit = 1
  Menu <- Ops
  MaxOps = 5
  MaxFaults = 0
INVARIANT OneOwner
CHECK_DEADLOCK FALSE
