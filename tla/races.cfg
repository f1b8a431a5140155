SPECIFICATION Spec
CONSTANTS
  ana = ana
  budi = budi
  citra = citra
  Users = {ana, citra}
  Workers = {w1}
  Posts = {p1}
  Accounts = {a1}
  Role <- MCRole
  NoUser = NoUser
  NoPost = NoPost
  NoProc = NoProc
  NoRow = NoRow
  MaxTime = 1
  Lead = 1
  MaxAttempts = 2
  Limit = 1
  Menu <- RaceMenu
  MaxOps = 5
  MaxFaults = 1
INVARIANTS TypeOK GateInv ClaimInv
PROPERTIES GateSpec ReviewedContent
CHECK_DEADLOCK FALSE
