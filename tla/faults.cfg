SPECIFICATION Spec
CONSTANTS
  ana = ana
  budi = budi
  citra = citra
  Users = {citra}
  Workers = {w1, w2}
  Posts = {p1}
  Accounts = {a1, a2}
  Role <- MCRole
  NoUser = NoUser
  NoPost = NoPost
  NoProc = NoProc
  NoRow = NoRow
  MaxTime = 1
  Lead = 1
  MaxAttempts = 2
  Limit = 1
  Menu <- Ops
  MaxOps = 5
  MaxFaults = 1
INVARIANTS ClaimExclusive PublishingIsHeld AtMostOnce PublishedIsComplete
SYMMETRY Symmetric
CHECK_DEADLOCK FALSE
