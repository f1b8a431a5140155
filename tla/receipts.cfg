SPECIFICATION FairSpec
CONSTANTS
  p1 = p1
  Invoices = {i1}
  Payments = {p1}
  Vouchers = {v1, v2}
  Proofs = {}
  Staff = {ana}
  Workers = {w1}
  Clerks = {c1}
  Amount <- MCAmount
  Amounts = {1}
  NoInvoice = NoInvoice
  NoDoc = NoDoc
  NoProof = NoProof
  NoRow = NoRow
  Menu <- ReceiptMenu
  MaxOps = 4
  MaxDesk = 1
  MaxFaults = 1
  MaxDeliver = 2
CHECK_DEADLOCK FALSE
PROPERTY DailyRunCatchesUp
INVARIANTS TypeOK TakenBackInv AckedIsDone BooksInv AllocInv
