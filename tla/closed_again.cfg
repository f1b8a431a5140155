SPECIFICATION FairSpec
CONSTANTS
  p1 = p1
  Invoices = {i1}
  Payments = {p1}
  Vouchers = {v1}
  Proofs = {}
  Staff = {ana}
  Workers = {w1}
  Clerks = {}
  Amount <- MCAmount
  Amounts = {1}
  NoInvoice = NoInvoice
  NoDoc = NoDoc
  NoProof = NoProof
  NoRow = NoRow
  Menu <- ReceiptMenu
  MaxOps = 5
  MaxDesk = 2
  MaxFaults = 0
  MaxDeliver = 3
PROPERTY CancelledIsClosed
CHECK_DEADLOCK FALSE
