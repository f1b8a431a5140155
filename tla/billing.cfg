SPECIFICATION Spec
CONSTANTS
  p1 = p1
  Invoices = {i1}
  Payments = {p1, p2}
  Vouchers = {v1}
  Proofs = {x1}
  Staff = {ana, budi}
  Workers = {w1, w2}
  Clerks = {}
  Amount <- MCAmount
  Amounts = {1, 2}
  NoInvoice = NoInvoice
  NoDoc = NoDoc
  NoProof = NoProof
  NoRow = NoRow
  Menu <- BillingMenu
  MaxOps = 5
  MaxDesk = 0
  MaxFaults = 0
  MaxDeliver = 2
INVARIANTS CancelledIsTold BookedAsBilled TakenBackInv ProofCountedOnce AckedIsDone BooksInv
SYMMETRY Symmetric
CHECK_DEADLOCK FALSE
