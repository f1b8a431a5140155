---------------------------- MODULE DeliveryProofs ----------------------------
(***************************************************************************)
(* What finance takes back and what it acknowledges, for every value of    *)
(* the constants: it reverses only what sales took back (TakenBackInv),    *)
(* and a message it has acknowledged has had its effect (AckedIsDone).     *)
(***************************************************************************)
EXTENDS BillingProofs

\* What sales took back it took back for good.
CancelledForGood(i) == bill[i].status = "batal" \/ Overwritten(i)
DeletedForGood(p) == pay[p].status = "deleted"
Reversible(d) ==
  (d \in Payments => DeletedForGood(d)) /\ (d \in Invoices => CancelledForGood(d))

SalesFinal == \A d : Reversible(d) => Reversible(d)'

\* What is said was taken back was.
LettersMean ==
  \A m \in Messages : SentOrToSend(m) =>
    /\ m.kind = "cancelled" => Reversible(m.inv)
    /\ m.kind = "deleted" => Reversible(m.pay)

-----------------------------------------------------------------------------
(***************************************************************************)
(* In sales.                                                               *)
(***************************************************************************)
LEMMA NotBoth == \A d : ~(d \in Payments /\ d \in Invoices)
BY ReceivablesAssumption DEF Docs

LEMMA FinalBy ==
  ASSUME Remembered,
         \A i \in Invoices : CancelledForGood(i) => bill'[i].status = "batal" \/ "overwritten" \in incidents'[i],
         \A p \in Payments : pay[p].status = "deleted" => pay'[p].status = "deleted"
  PROVE SalesFinal
BY DEF SalesFinal, Reversible, CancelledForGood, DeletedForGood, Overwritten, Remembered

LEMMA StillFinal ==
  ASSUME Remembered, UNCHANGED <<bill, pay>> PROVE SalesFinal
BY FinalBy DEF CancelledForGood, Overwritten, Remembered

\* A cancelled invoice is written only by who read it cancelled, or over a change
\* its writer missed.
LEMMA WriteFinal ==
  ASSUME TypeOK, BillingInv, NEW a \in Staff, WriteInvoice(a) PROVE SalesFinal
<1>1. PICK q : q = req[a]
  OBVIOUS
<1>2. q.step = "write" /\ q.op \in RowOps /\ q \in Requests /\ Requested(q) /\ q.inv \in Invoices
  BY <1>1, Asking DEF WriteInvoice, Requested
<1>3. /\ bill' = [bill EXCEPT ![q.inv] = NewRow(q)] /\ UNCHANGED pay /\ Remembered
      /\ "overwritten" \in incidents'[q.inv] \/ bill[q.inv] = q.row
  BY <1>1, <1>2, NotedRemembers DEF WriteInvoice, Noted, If, TypeOK, CountsTyped
<1>4. q.op \in {"revise", "issue"} => q.row.status = "diajukan"
  BY <1>1, <1>2 DEF BillingInv, RowsRead
<1>5. q.row.status = "batal" => NewRow(q).status = "batal"
  BY <1>2, <1>4, NewRowSays DEF RowOps
<1>6. ASSUME NEW i \in Invoices, CancelledForGood(i)
      PROVE bill'[i].status = "batal" \/ "overwritten" \in incidents'[i]
  <2>1. bill'[q.inv] = NewRow(q) /\ (i # q.inv => bill'[i] = bill[i])
    BY <1>2, <1>3 DEF TypeOK, SalesTyped
  <2> QED BY <1>3, <1>5, <1>6, <2>1 DEF CancelledForGood, Overwritten, Remembered
<1> QED BY <1>3, <1>6, FinalBy

LEMMA SalesStaysFinal ==
  ASSUME TypeOK, BillingInv, ProofInv, [Next]_vars PROVE SalesFinal
<1>1. ASSUME NEW i \in Invoices, NEW n \in Amounts, SubmitInvoice(i, n) PROVE SalesFinal
  <2>1. \A j \in Invoices : bill'[j] = bill[j] \/ bill[j].status = "NONE"
    BY <1>1 DEF SubmitInvoice, Exists, TypeOK, SalesTyped
  <2> QED BY <1>1, <2>1, FinalBy, NotedRemembers DEF SubmitInvoice, CancelledForGood, Overwritten
<1>2. ASSUME NEW a \in Staff, InsertPayment(a) PROVE SalesFinal
  <2>1. req[a].pay \in Payments /\ pay[req[a].pay].status = "none"
    BY <1>2, Asking DEF InsertPayment, ProofInv, Inserting, Requested
  <2>2. \A p \in Payments : p # req[a].pay => pay'[p] = pay[p]
    BY <1>2 DEF InsertPayment, TypeOK, SalesTyped
  <2>3. UNCHANGED <<bill, incidents>>
    BY <1>2 DEF InsertPayment
  <2> QED BY <2>1, <2>2, <2>3, FinalBy DEF CancelledForGood, Overwritten, Remembered
<1>3. ASSUME NEW a \in Staff, DeletePayment(a) PROVE SalesFinal
  <2>1. \A p \in Payments : pay[p].status = "deleted" => pay'[p].status = "deleted"
    BY <1>3 DEF DeletePayment, TypeOK, SalesTyped, PaymentRows
  <2>2. UNCHANGED <<bill, incidents>>
    BY <1>3 DEF DeletePayment
  <2> QED BY <2>1, <2>2, FinalBy DEF CancelledForGood, Overwritten, Remembered
<1>4. ASSUME NEW a \in Staff, DecideProof(a) \/ Publish(a) \/ RequestFails(a) PROVE SalesFinal
  <2>1. Remembered
    BY <1>4, NotedRemembers DEF DecideProof, Publish, RequestFails, Remembered, TypeOK, CountsTyped
  <2> QED BY <1>4, <2>1, StillFinal DEF DecideProof, Publish, RequestFails
<1>5. CASE SalesRequest
  <2>1. CASE UNCHANGED <<bill, pay, incidents>>
    BY <2>1, StillFinal DEF Remembered
  <2>2. CASE ~UNCHANGED <<bill, pay, incidents>>
    BY <1>1, <1>5, <2>2 DEF SalesRequest, SubmitProof, RejectProof, LoadInvoice, RecordPayment, ApproveProof,
                            RemovePayment
  <2> QED BY <2>1, <2>2
<1>6. CASE SalesNext
  BY <1>2, <1>3, <1>4, <1>5, <1>6, WriteFinal DEF SalesNext, SalesStep
<1>7. CASE FinanceNext
  <2>1. UNCHANGED sales /\ Remembered
    BY <1>7, OtherFinance, FinanceApart DEF FinanceNext, Apart
  <2> QED BY <2>1, StillFinal DEF sales
<1> QED BY <1>6, <1>7, SidesOfNext
\* A request that is at its payment or its proof says of a payment only that it was
\* deleted, once it was.
LEMMA LettersBy ==
  ASSUME TypeOK, LettersMean, SalesFinal, NEW a \in Staff, NEW r, req' = [req EXCEPT ![a] = r],
         UNCHANGED stream,
         r.step = "publish" => /\ r.letter.kind = "cancelled" => Reversible(r.letter.inv)'
                               /\ r.letter.kind = "deleted" => Reversible(r.letter.pay)'
  PROVE LettersMean'
<1> SUFFICES ASSUME NEW m \in Messages, SentOrToSend(m)'
             PROVE /\ m.kind = "cancelled" => Reversible(m.inv)'
                   /\ m.kind = "deleted" => Reversible(m.pay)'
  BY DEF LettersMean, Messages, Reversible, DeletedForGood, CancelledForGood, Overwritten
<1>1. SentOrToSend(m) \/ (r.step = "publish" /\ r.letter = m)
  BY SaysBy
<1>2. CASE SentOrToSend(m)
  BY <1>2 DEF LettersMean, SalesFinal
<1>3. CASE r.step = "publish" /\ r.letter = m
  BY <1>3
<1> QED BY <1>1, <1>2, <1>3
LEMMA SilentLetters ==
  ASSUME TypeOK, LettersMean, SalesFinal, \A m : SentOrToSend(m)' => SentOrToSend(m) PROVE LettersMean'
BY DEF LettersMean, SalesFinal, Messages, Reversible, DeletedForGood, CancelledForGood, Overwritten

LEMMA WriteLetters ==
  ASSUME TypeOK, LettersMean, SalesFinal, NEW a \in Staff, WriteInvoice(a) PROVE LettersMean'
<1>1. PICK q : q = req[a]
  OBVIOUS
<1>2. q.step = "write" /\ q.op \in RowOps /\ q \in Requests /\ Requested(q) /\ q.inv \in Invoices
  BY <1>1, Asking DEF WriteInvoice, Requested
<1>3. PICK r : /\ req' = [req EXCEPT ![a] = r]
               /\ ~Tells(q) => r = NoReq
               /\ Tells(q) => r.step = "publish" /\ r.letter = LetterOf(q)
  BY <1>1, WriteSays
<1>4. UNCHANGED stream /\ bill' = [bill EXCEPT ![q.inv] = NewRow(q)]
  BY <1>1 DEF WriteInvoice
<1>5. ASSUME q.op = "cancel" PROVE Reversible(q.inv)'
  <2>1. bill'[q.inv].status = "batal"
    BY <1>2, <1>4, <1>5, NewRowSays DEF TypeOK, SalesTyped
  <2> QED BY <1>2, <2>1, NotBoth DEF Reversible, CancelledForGood
<1>6. r.step = "publish" => /\ r.letter.kind = "cancelled" => Reversible(r.letter.inv)'
                            /\ r.letter.kind = "deleted" => Reversible(r.letter.pay)'
  <2> SUFFICES ASSUME r.step = "publish"
               PROVE /\ r.letter.kind = "cancelled" => Reversible(r.letter.inv)'
                     /\ r.letter.kind = "deleted" => Reversible(r.letter.pay)'
    OBVIOUS
  <2>1. Tells(q) /\ r.letter = LetterOf(q)
    BY <1>3, NoReqTyped
  <2>2. CASE q.op = "issue"
    BY <2>1, <2>2 DEF LetterOf, Issued
  <2>3. CASE q.op = "cancel"
    <3>1. r.letter.kind = "cancelled" /\ r.letter.inv = q.inv
      BY <2>1, <2>3 DEF LetterOf, Cancelled
    <3> QED BY <1>5, <2>3, <3>1
  <2> QED BY <2>1, <2>2, <2>3 DEF Tells
<1> QED BY <1>3, <1>4, <1>6, LettersBy

LEMMA PaymentLetters ==
  ASSUME TypeOK, LettersMean, SalesFinal, NEW a \in Staff,
         InsertPayment(a) \/ DecideProof(a) \/ DeletePayment(a)
  PROVE LettersMean'
<1> DEFINE recorded == [req[a] EXCEPT !.step = "publish", !.letter = Recorded(req[a].pay, req[a].inv)]
           gone == [req[a] EXCEPT !.step = "publish", !.letter = Deleted(req[a].pay)]
           delete == [req[a] EXCEPT !.step = "delete"]
<1>0. PICK p : p = req[a].pay
  OBVIOUS
<1>1. req[a] \in Requests /\ p \in Payments
  BY <1>0, Asking DEF InsertPayment, DecideProof, DeletePayment, At, Requested
<1>2. /\ recorded.step = "publish" /\ recorded.letter.kind = "recorded"
      /\ gone.step = "publish" /\ gone.letter.kind = "deleted" /\ gone.letter.pay = p
      /\ delete.step = "delete"
  BY <1>0, <1>1 DEF Requests, Recorded, Deleted
<1>3. UNCHANGED stream
  BY DEF InsertPayment, DecideProof, DeletePayment
<1>4. CASE InsertPayment(a)
  <2>1. req' = [req EXCEPT ![a] = recorded]
    BY <1>4 DEF InsertPayment
  <2> HIDE DEF recorded
  <2> QED BY <1>2, <1>3, <2>1, LettersBy
<1>5. CASE DecideProof(a)
  <2>1. \E r \in {delete, NoReq} : req' = [req EXCEPT ![a] = r]
    BY <1>5 DEF DecideProof
  <2> HIDE DEF delete
  <2> QED BY <1>2, <1>3, <2>1, LettersBy, NoReqTyped
<1>6. CASE DeletePayment(a)
  <2>1. req' = [req EXCEPT ![a] = gone]
    BY <1>6 DEF DeletePayment
  <2>2. pay' = [pay EXCEPT ![p].status = "deleted"]
    BY <1>0, <1>6 DEF DeletePayment
  <2>3. Reversible(p)'
    BY <1>1, <2>2, NotBoth DEF Reversible, DeletedForGood, TypeOK, SalesTyped, PaymentRows
  <2>4. PICK r : r = gone
    OBVIOUS
  <2>5. r.letter.kind = "deleted" /\ r.letter.pay = p /\ req' = [req EXCEPT ![a] = r]
    BY <1>2, <2>1, <2>4
  <2> HIDE DEF gone
  <2> QED BY <1>3, <2>3, <2>5, LettersBy
<1> QED BY <1>4, <1>5, <1>6

LEMMA SalesLetters ==
  ASSUME TypeOK, LettersMean, SalesFinal, SalesNext PROVE LettersMean'
<1>1. ASSUME NEW a \in Staff, NEW r, req' = [req EXCEPT ![a] = r], r.step # "publish", UNCHANGED stream
      PROVE LettersMean'
  BY <1>1, LettersBy
<1>2. ASSUME NEW a \in Staff, RequestFails(a) PROVE LettersMean'
  BY <1>1, <1>2, NoReqTyped DEF RequestFails
<1>3. ASSUME NEW a \in Staff, Publish(a) PROVE LettersMean'
  BY <1>3, PublishSays, SilentLetters
<1>4. ASSUME NEW i, NEW n, SubmitInvoice(i, n) PROVE UNCHANGED <<req, stream>>
  BY <1>4 DEF SubmitInvoice
<1>5. ASSUME NEW x, RejectProof(x) \/ \E i \in Invoices : SubmitProof(x, i) PROVE UNCHANGED <<req, stream>>
  BY <1>5 DEF RejectProof, SubmitProof
<1>6. ASSUME UNCHANGED <<req, stream>> PROVE LettersMean'
  BY <1>6, SilentLetters DEF SentOrToSend, Letter
<1>7. ASSUME NEW a \in Staff, NEW op, NEW i, NEW n, LoadInvoice(a, op, i, n) PROVE LettersMean'
  <2> DEFINE r == [NoReq EXCEPT !.op = op, !.step = "write", !.inv = i, !.row = bill[i], !.amount = n]
  <2>1. r.step = "write" /\ req' = [req EXCEPT ![a] = r] /\ UNCHANGED stream
    BY <1>7 DEF LoadInvoice, NoReq
  <2> HIDE DEF r
  <2> QED BY <1>1, <2>1
<1>8. ASSUME NEW a \in Staff, NEW p, NEW i, RecordPayment(a, p, i) PROVE LettersMean'
  <2> DEFINE r == [NoReq EXCEPT !.op = "record", !.step = "insert", !.inv = i, !.pay = p]
  <2>1. r.step = "insert" /\ req' = [req EXCEPT ![a] = r] /\ UNCHANGED stream
    BY <1>8 DEF RecordPayment, NoReq
  <2> HIDE DEF r
  <2> QED BY <1>1, <2>1
<1>9. ASSUME NEW a \in Staff, NEW p, NEW x, ApproveProof(a, x, p) PROVE LettersMean'
  <2> DEFINE r == [NoReq EXCEPT !.op = "approve", !.step = "insert", !.inv = proof[x].inv, !.pay = p,
                                !.proof = x]
  <2>1. r.step = "insert" /\ req' = [req EXCEPT ![a] = r] /\ UNCHANGED stream
    BY <1>9 DEF ApproveProof, NoReq
  <2> HIDE DEF r
  <2> QED BY <1>1, <2>1
<1>10. ASSUME NEW a \in Staff, NEW p, RemovePayment(a, p) PROVE LettersMean'
  <2> DEFINE r == [NoReq EXCEPT !.op = "remove", !.step = "delete", !.pay = p]
  <2>1. r.step = "delete" /\ req' = [req EXCEPT ![a] = r] /\ UNCHANGED stream
    BY <1>10 DEF RemovePayment, NoReq
  <2> HIDE DEF r
  <2> QED BY <1>1, <2>1
<1>11. CASE SalesRequest
  BY <1>4, <1>5, <1>6, <1>7, <1>8, <1>9, <1>10, <1>11 DEF SalesRequest
<1> QED BY <1>2, <1>3, <1>11, WriteLetters, PaymentLetters DEF SalesNext, SalesStep

LEMMA LettersKept ==
  ASSUME TypeOK, LettersMean, SalesFinal, [Next]_vars PROVE LettersMean'
<1>1. CASE SalesNext
  BY <1>1, SalesLetters
<1>2. CASE FinanceNext
  <2>1. UNCHANGED sales /\ SameMessages
    BY <1>2, OtherFinance, FinanceApart DEF FinanceNext, Apart
  <2> QED BY <2>1, ApartSays, SilentLetters
<1> QED BY <1>1, <1>2, SidesOfNext
-----------------------------------------------------------------------------
(***************************************************************************)
(* In finance's books.                                                     *)
(***************************************************************************)
\* What is booked, received, kept, or marked is so for good.
Grows ==
  /\ \A i \in Invoices : /\ ar[i].booked => ar'[i].booked
                         /\ ar[i].cancelled => ar'[i].cancelled
  /\ \A d \in Docs : /\ doc[d].status # "NONE" => doc'[d].status # "NONE"
                     /\ doc[d].status # "NONE" /\ doc[d].flagged => doc'[d].flagged
                     /\ doc'[d].status = "POSTED" => doc[d].status \in {"NONE", "POSTED"}
  /\ \A p \in Payments : /\ adv[p] # "NONE" => adv'[p] # "NONE"
                         /\ adv'[p] = "POSTED" => adv[p] \in {"NONE", "POSTED"}

\* Only a handler or a run that is over with it marks a receipt or an invoice.
Marks(x) ==
  /\ \A d \in Docs : doc'[d].flagged => doc[d].flagged \/ (proc[x].pc = "mark" /\ d = proc[x].doc)
  /\ \A i \in Invoices :
       ar'[i].cancelled => ar[i].cancelled \/ (proc[x].pc = "settle" /\ i = proc[x].inv)

LEMMA StillGrows ==
  ASSUME TypeOK, NEW x, UNCHANGED <<ar, doc, adv>> PROVE Grows /\ Marks(x)
BY DEF Grows, Marks

LEMMA AllocateGrows ==
  ASSUME TypeOK, NEW x \in Processes, NEW d, doc[d].status = "NONE", Allocate(x, d), UNCHANGED adv
  PROVE Grows /\ Marks(x)
<1>1. /\ \A e \in Docs : e # d => doc'[e] = doc[e]
      /\ d \in Docs => doc'[d].status = "POSTED" /\ ~doc'[d].flagged
  BY DEF Allocate, Document, TypeOK, BooksTyped
<1>2. \A i \in Invoices : ar'[i].booked = ar[i].booked /\ ar'[i].cancelled = ar[i].cancelled
  BY DEF Allocate, TypeOK, BooksTyped, Receivables
<1> QED BY <1>1, <1>2 DEF Grows, Marks

LEMMA VoidGrows ==
  ASSUME TypeOK, NEW x \in Processes, VoidPayment(x) PROVE Grows /\ Marks(x)
<1>1. ar' = ar \/ \E i, n : ar' = [ar EXCEPT ![i].allocated = n]
  BY DEF VoidPayment
<1>2. \A i \in Invoices : ar'[i].booked = ar[i].booked /\ ar'[i].cancelled = ar[i].cancelled
  BY <1>1 DEF TypeOK, BooksTyped, Receivables
<1>3. UNCHANGED adv /\ (doc' = doc \/ \E d : doc' = [doc EXCEPT ![d].status = "VOID"])
  BY DEF VoidPayment
<1>4. \A d \in Docs : doc'[d].flagged = doc[d].flagged /\ (doc'[d].status = doc[d].status \/ doc'[d].status = "VOID")
  BY <1>3 DEF TypeOK, BooksTyped, Documents
<1> QED BY <1>2, <1>3, <1>4 DEF Grows, Marks

LEMMA BooksMove ==
  ASSUME TypeOK, NEW x \in Processes, FinanceStep(x) PROVE Grows /\ Marks(x)
<1>1. CASE PostPaymentJournal(x) \/ RetryPosting(x) \/ CheckAllocation(x) \/ CheckCredit(x) \/ CheckVoid(x)
  BY <1>1, StillGrows DEF PostPaymentJournal, RetryPosting, CheckAllocation, CheckCredit, CheckVoid, books
<1>2. CASE CommitSalesReceipt(x)
  BY <1>2, AllocateGrows, StillGrows DEF CommitSalesReceipt
<1>3. CASE RecordReceipt(x) \/ CreateCreditNote(x)
  BY <1>3, AllocateGrows, StillGrows DEF RecordReceipt, CreateCreditNote, CommitVoucher, books
<1>4. CASE SalesInvoiceIssued(x)
  <2>1. UNCHANGED <<doc, adv>>
    BY <1>4 DEF SalesInvoiceIssued
  <2>2. \A i \in Invoices : ar'[i].cancelled = ar[i].cancelled /\ (ar[i].booked => ar'[i].booked)
    <3>1. PICK j : j = proc[x].inv
      OBVIOUS
    <3>2. ar' = ar \/ \E n : ar' = [ar EXCEPT ![j] = [ar[j] EXCEPT !.booked = TRUE, !.total = n]]
      BY <1>4, <3>1 DEF SalesInvoiceIssued
    <3>3. ASSUME NEW n, ar' = [ar EXCEPT ![j] = [ar[j] EXCEPT !.booked = TRUE, !.total = n]], NEW i \in Invoices
          PROVE ar'[i].cancelled = ar[i].cancelled /\ (ar[i].booked => ar'[i].booked)
      <4>1. i # j => ar'[i] = ar[i]
        BY <3>3 DEF TypeOK, BooksTyped
      <4>2. i = j => ar'[i] = [ar[i] EXCEPT !.booked = TRUE, !.total = n] /\ ar[i] \in Receivables
        BY <3>3 DEF TypeOK, BooksTyped
      <4> QED BY <4>1, <4>2 DEF Receivables
    <3> QED BY <3>2, <3>3
  <2> QED BY <2>1, <2>2 DEF Grows, Marks
<1>5. CASE SalesPaymentRecorded(x) \/ SalesInvoiceCancelled(x) \/ NextList(x) \/ \E d \in proc[x].todo : NextItem(x, d)
  BY <1>5, StillGrows DEF SalesPaymentRecorded, SalesInvoiceCancelled, NextList, NextItem, books
<1>6. CASE SalesPaymentAdvance(x)
  BY <1>6 DEF SalesPaymentAdvance, Grows, Marks, TypeOK, BooksTyped
<1>7. CASE SalesPaymentDeleted(x)
  BY <1>7 DEF SalesPaymentDeleted, Grows, Marks, TypeOK, BooksTyped
<1>8. CASE MarkPayment(x)
  <2>1. UNCHANGED <<ar, adv>> /\ proc[x].pc = "mark"
    BY <1>8 DEF MarkPayment, ProcAt
  <2>2. \A d \in Docs : /\ doc'[d].status = doc[d].status
                        /\ doc[d].flagged => doc'[d].flagged
                        /\ doc'[d].flagged => doc[d].flagged \/ d = proc[x].doc
    BY <1>8 DEF MarkPayment, TypeOK, BooksTyped, Documents
  <2> QED BY <2>1, <2>2 DEF Grows, Marks
<1>9. CASE MarkInvoice(x)
  <2>1. UNCHANGED <<doc, adv>> /\ proc[x].pc = "settle"
    BY <1>9 DEF MarkInvoice, ProcAt
  <2>2. PICK i : i = proc[x].inv
    OBVIOUS
  <2>3. ar' = [ar EXCEPT ![i].cancelled = TRUE, ![i].settled = proc[x].ok]
    BY <1>9, <2>2 DEF MarkInvoice
  <2>4. \A j \in Invoices : /\ j # i => ar'[j] = ar[j]
                            /\ ar'[i].booked = ar[i].booked /\ ar'[j].booked = ar[j].booked
    BY <2>3 DEF TypeOK, BooksTyped, Receivables
  <2>5. i \in Invoices => ar'[i].cancelled = TRUE
    BY <2>3 DEF TypeOK, BooksTyped, Receivables
  <2> QED BY <2>1, <2>2, <2>4, <2>5 DEF Grows, Marks
<1> QED BY <1>1, <1>2, <1>3, <1>4, <1>5, <1>6, <1>7, <1>8, <1>9, VoidGrows
        DEF FinanceStep, PostingStep, AutoPostStep
-----------------------------------------------------------------------------
(***************************************************************************)
(* What finance takes back.                                                *)
(***************************************************************************)
\* What makes TakenBackInv inductive. A run goes through what it found to reverse,
\* and nobody at a desk marks anything.
RunMeans(x) ==
  LET h == proc[x]
  IN  /\ h.run = "postings" => h.pc \in {"next", "post"}
      /\ h.run = "reversals" =>
           /\ \A d \in h.todo : Reversible(d)
           /\ h.pc \in {"void", "reverse", "mark"} => Reversible(h.doc)
           /\ h.pc \in {"look", "credit", "note", "settle"} => Reversible(h.inv)

DeskMeans(x) == proc[x].pc \in {"mark", "look", "settle"} => ~AtDesk(x)

DeliveryInv == LettersMean /\ TakenBackInv /\ \A x \in Processes : RunMeans(x) /\ DeskMeans(x)

LEMMA RunKinds ==
  ASSUME TypeOK, NEW x \in Processes
  PROVE proc[x].run \in {"none", "postings", "reversals"}
BY IdleTyped DEF TypeOK, ProcsTyped, Handlers, AnyHandler

\* What is about to be marked was taken back.
LEMMA MarksMean ==
  ASSUME TypeOK, CarriesInv, DeliveryInv, NEW x \in Processes
  PROVE /\ proc[x].pc = "mark" => Reversible(proc[x].doc)
        /\ proc[x].pc = "settle" => Reversible(proc[x].inv)
<1> SUFFICES ASSUME proc[x].pc \in {"mark", "settle"}
             PROVE /\ proc[x].pc = "mark" => Reversible(proc[x].doc)
                   /\ proc[x].pc = "settle" => Reversible(proc[x].inv)
  OBVIOUS
<1>1. InRun(x) \/ ByMessage(x)
  BY DEF DeliveryInv, DeskMeans, AtDesk
<1>2. CASE InRun(x)
  BY <1>2, RunKinds DEF InRun, DeliveryInv, RunMeans
<1>3. CASE ByMessage(x)
  <2>1. PICK m : m = stream[proc[x].msg].msg
    OBVIOUS
  <2>2. proc[x].msg # 0 /\ proc[x].msg \in DOMAIN stream
    BY <1>3, AtHand DEF ByMessage, Handling
  <2>3. m \in Messages /\ SentOrToSend(m)
    <3>1. stream[proc[x].msg] \in Letters
      BY <2>2 DEF TypeOK, StreamTyped
    <3> QED BY <2>1, <2>2, <3>1 DEF Letters, SentOrToSend, Letter
  <2>4. /\ proc[x].pc = "mark" => m.kind = "deleted" /\ proc[x].doc = m.pay
        /\ proc[x].pc = "settle" => m.kind = "cancelled" /\ proc[x].inv = m.inv
    BY <2>1, <2>2 DEF CarriesInv, Carries
  <2> QED BY <2>3, <2>4 DEF DeliveryInv, LettersMean
<1> QED BY <1>1, <1>2, <1>3

LEMMA TakenBackKept ==
  ASSUME TypeOK, CarriesInv, DeliveryInv, SalesFinal, NEW x \in Processes, Marks(x) PROVE TakenBackInv'
<1>1. ASSUME NEW p \in Payments, doc'[p].flagged PROVE pay'[p].status = "deleted"
  <2>1. p \in Docs
    BY DEF Docs
  <2>2. doc[p].flagged \/ (proc[x].pc = "mark" /\ p = proc[x].doc)
    BY <1>1, <2>1 DEF Marks
  <2>3. doc[p].flagged => Reversible(p)
    BY NotBoth DEF DeliveryInv, TakenBackInv, Reversible, DeletedForGood
  <2>4. Reversible(p)'
    BY <2>2, <2>3, MarksMean DEF SalesFinal
  <2> QED BY <2>4 DEF Reversible, DeletedForGood
<1>2. ASSUME NEW i \in Invoices, ar'[i].cancelled PROVE CancelledForGood(i)'
  <2>1. ar[i].cancelled \/ (proc[x].pc = "settle" /\ i = proc[x].inv)
    BY <1>2 DEF Marks
  <2>2. ar[i].cancelled => Reversible(i)
    BY NotBoth DEF DeliveryInv, TakenBackInv, Reversible, CancelledForGood, Overwritten
  <2>3. Reversible(i)'
    BY <2>1, <2>2, MarksMean DEF SalesFinal
  <2> QED BY <2>3 DEF Reversible
<1> QED BY <1>1, <1>2 DEF TakenBackInv, CancelledForGood, Overwritten

\* One process moves; the others mean what they meant.
LEMMA OthersMean ==
  ASSUME TypeOK, DeliveryInv, SalesFinal, NEW y \in Processes, proc'[y] = proc[y]
  PROVE RunMeans(y)' /\ DeskMeans(y)'
<1>1. RunMeans(y)'
  <2>1. RunMeans(y)
    BY DEF DeliveryInv
  <2>2. PICK h : h = proc[y]
    OBVIOUS
  <2>3. h = proc'[y]
    BY <2>2
  <2> QED BY <2>1, <2>2, <2>3 DEF RunMeans, SalesFinal
<1>2. DeskMeans(y)'
  BY DEF DeliveryInv, DeskMeans, AtDesk, InRun, ByMessage
<1> QED BY <1>1, <1>2
LEMMA StaysMean ==
  ASSUME TypeOK, DeliveryInv, SalesFinal, NEW x \in Processes, NEW h, proc' = [proc EXCEPT ![x] = h],
         Ends(x, h) \/ GoesOnWith(x, h), h.pc \in {"mark", "look", "settle"} => ~AtDesk(x)
  PROVE RunMeans(x)' /\ DeskMeans(x)'
<1>1. PICK g : g = proc[x]
  OBVIOUS
<1>2. proc'[x] = h
  BY OneMoves
<1>3. RunMeans(x)
  BY DEF DeliveryInv
<1>4. CASE Ends(x, h)
  BY <1>1, <1>2, <1>3, <1>4 DEF Ends, RunMeans, DeskMeans, SalesFinal
<1>5. CASE GoesOnWith(x, h)
  <2>1. /\ h.run = g.run /\ h.todo = g.todo /\ h.msg = g.msg /\ h.doc = g.doc /\ h.inv = g.inv
        /\ SameStage(g.pc, h.pc)
    BY <1>1, <1>5 DEF GoesOnWith
  <2>2. /\ g.pc \notin {"next", "post"}
        /\ h.pc \in {"void", "reverse", "mark"} => g.pc \in {"find", "void", "reverse", "mark"}
        /\ h.pc \in {"look", "credit", "note", "settle"} => g.pc \in {"look", "credit", "note", "settle"}
    BY <2>1 DEF SameStage, Stages
  <2>3. g.pc = "find" => g.run = "none"
    BY <1>1, AtHand DEF Handling
  <2>4. RunMeans(x)'
    BY <1>1, <1>2, <1>3, <2>1, <2>2, <2>3 DEF RunMeans, SalesFinal
  <2>5. DeskMeans(x)'
    BY <1>1, <1>2, <2>1 DEF DeskMeans, AtDesk, InRun, ByMessage
  <2> QED BY <2>4, <2>5
<1> QED BY <1>4, <1>5

\* Where a step leads.
LEMMA GoesTo ==
  ASSUME TypeOK, NEW x \in Processes, proc[x].pc # "idle", NEW pc, Goes(x, pc) PROVE proc'[x].pc = pc
BY AtHand DEF Goes, Handlers, TypeOK, ProcsTyped

LEMMA DoneTo ==
  ASSUME TypeOK, NEW x \in Processes, proc[x].pc # "idle", Done(x) \/ Nak(x)
  PROVE proc'[x].pc \notin {"mark", "look", "settle"}
<1>1. Ends(x, Rest(x)) /\ Ends(x, Idle)
  BY RestEnds
<1>2. proc'[x] = Rest(x) \/ proc'[x] = Idle
  BY OneMoves DEF Done, Nak
<1> QED BY <1>1, <1>2 DEF Ends

LEMMA DeskMarksNothing ==
  ASSUME TypeOK, DeliveryInv, NEW x \in Processes, FinanceStep(x), proc[x].pc # "next",
         proc'[x].pc \in {"mark", "look", "settle"}
  PROVE ~AtDesk(x)
<1>0. proc[x].pc # "idle" => proc[x] \in Handlers /\ proc \in [Processes -> Handlers \cup {Idle}]
  BY AtHand DEF TypeOK, ProcsTyped
<1>1. CASE \/ PostPaymentJournal(x) \/ RetryPosting(x) \/ RecordReceipt(x) \/ SalesInvoiceIssued(x)
           \/ SalesPaymentAdvance(x) \/ MarkPayment(x) \/ MarkInvoice(x)
  BY <1>1, DoneTo DEF PostPaymentJournal, RetryPosting, RecordReceipt, SalesInvoiceIssued,
                      SalesPaymentAdvance, MarkPayment, MarkInvoice, ProcAt
<1>2. CASE CheckAllocation(x)
  BY <1>0, <1>2, DoneTo DEF CheckAllocation, ProcAt, Handlers
<1>3. CASE CommitSalesReceipt(x)
  BY <1>3, DoneTo, GoesTo DEF CommitSalesReceipt, ProcAt
<1>4. CASE CheckCredit(x)
  <2>1. proc[x].pc = "credit"
    BY <1>4 DEF CheckCredit, ProcAt
  <2>2. CASE MayCredit(proc[x].inv)
    BY <1>0, <1>4, <2>1, <2>2 DEF CheckCredit, Handlers
  <2>3. CASE ~MayCredit(proc[x].inv)
    BY <1>4, <2>1, <2>3, DoneTo DEF CheckCredit
  <2> QED BY <2>2, <2>3
<1>5. CASE CreateCreditNote(x)
  BY <1>5, DoneTo DEF CreateCreditNote, Credited, ProcAt
<1>6. CASE CheckVoid(x) \/ VoidPayment(x)
  BY <1>6, DoneTo, GoesTo DEF CheckVoid, VoidPayment, Voided, ProcAt
<1>7. CASE SalesPaymentRecorded(x)
  <2>1. proc[x].pc = "receive"
    BY <1>7 DEF SalesPaymentRecorded, ProcAt
  <2>2. \/ Done(x) \/ Nak(x) \/ Goes(x, "advance")
        \/ \E n : proc' = [proc EXCEPT ![x].pc = "insert", ![x].amount = n]
    BY <1>7 DEF SalesPaymentRecorded
  <2>3. ASSUME NEW n, proc' = [proc EXCEPT ![x].pc = "insert", ![x].amount = n] PROVE proc'[x].pc = "insert"
    BY <1>0, <2>1, <2>3 DEF Handlers
  <2> QED BY <2>1, <2>2, <2>3, DoneTo, GoesTo
<1>8. CASE SalesPaymentDeleted(x)
  BY <1>8, DoneTo, GoesTo DEF SalesPaymentDeleted, NotYetHere, ProcAt
<1>9. CASE SalesInvoiceCancelled(x)
  BY <1>9 DEF SalesInvoiceCancelled, ProcAt, DeliveryInv, DeskMeans
<1> QED BY <1>1, <1>2, <1>3, <1>4, <1>5, <1>6, <1>7, <1>8, <1>9
        DEF FinanceStep, PostingStep, AutoPostStep, NextList, NextItem, ProcAt
\* What starts: a run starts with postings, a request at a desk marks nothing.
LEMMA StartsMean ==
  ASSUME TypeOK, NEW x \in Processes, NEW h, proc' = [proc EXCEPT ![x] = h],
         \/ h.run = "postings" /\ h.pc = "next"
         \/ h.run = "none" /\ (h.pc \notin {"mark", "look", "settle"} \/ h.msg # 0)
  PROVE RunMeans(x)' /\ DeskMeans(x)'
<1>1. proc'[x] = h
  BY OneMoves
<1> QED BY <1>1 DEF RunMeans, DeskMeans, AtDesk, ByMessage

LEMMA RunMeansWell ==
  ASSUME TypeOK, NEW x \in Processes, RunSchedules(x) \/ RunDue(x) PROVE RunMeans(x)' /\ DeskMeans(x)'
<1>1. Run.run = "postings" /\ Run.pc = "next"
  BY IdleTyped DEF Run, AnyHandler
<1>2. proc' = [proc EXCEPT ![x] = Run]
  BY DEF RunSchedules, RunDue, Starts
<1> QED BY <1>1, <1>2, StartsMean

LEMMA DeskMeansWell ==
  ASSUME TypeOK, NEW c \in Clerks, DeskRequest(c) PROVE RunMeans(c)' /\ DeskMeans(c)'
<1>0. c \in Processes
  BY DEF Processes
<1>1. ASSUME NEW op, NEW h, Starts(c, op, h), h.run = "none", h.pc \in {"insert", "credit", "void", "post"}
      PROVE RunMeans(c)' /\ DeskMeans(c)'
  BY <1>0, <1>1, StartsMean DEF Starts
<1>2. ASSUME NEW i, NEW n, NEW op, Starts(c, op, [Idle EXCEPT !.pc = "insert", !.inv = i, !.amount = n])
      PROVE RunMeans(c)' /\ DeskMeans(c)'
  <2> DEFINE h == [Idle EXCEPT !.pc = "insert", !.inv = i, !.amount = n]
  <2>1. h.run = "none" /\ h.pc = "insert"
    BY IdleTyped DEF AnyHandler
  <2> HIDE DEF h
  <2> QED BY <1>1, <1>2, <2>1 DEF h
<1>3. ASSUME NEW i, NEW method, NEW op,
             Starts(c, op, [Idle EXCEPT !.pc = "credit", !.inv = i, !.method = method])
      PROVE RunMeans(c)' /\ DeskMeans(c)'
  <2> DEFINE h == [Idle EXCEPT !.pc = "credit", !.inv = i, !.method = method]
  <2>1. h.run = "none" /\ h.pc = "credit"
    BY IdleTyped DEF AnyHandler
  <2> HIDE DEF h
  <2> QED BY <1>1, <1>3, <2>1 DEF h
<1>4. ASSUME NEW pc \in {"void", "post"}, NEW d, NEW op, Starts(c, op, [Idle EXCEPT !.pc = pc, !.doc = d])
      PROVE RunMeans(c)' /\ DeskMeans(c)'
  <2> DEFINE h == [Idle EXCEPT !.pc = pc, !.doc = d]
  <2>1. h.run = "none" /\ h.pc = pc
    BY IdleTyped DEF AnyHandler
  <2> HIDE DEF h
  <2> QED BY <1>1, <1>4, <2>1 DEF h
<1> QED BY <1>2, <1>3, <1>4 DEF DeskRequest

LEMMA ReceiveMeans ==
  ASSUME TypeOK, NEW w \in Workers, NEW k \in DOMAIN stream, Receive(w, k)
  PROVE RunMeans(w)' /\ DeskMeans(w)'
<1> DEFINE m == stream[k].msg
           h == [Idle EXCEPT !.pc = Handler[m.kind], !.msg = k, !.doc = m.pay, !.inv = m.inv]
<1>1. h.run = "none" /\ h.msg = k
  BY IdleTyped DEF AnyHandler
<1>2. proc' = [proc EXCEPT ![w] = h] /\ w \in Processes
  BY DEF Receive, Processes
<1>3. k # 0
  BY DEF TypeOK, StreamTyped
<1> HIDE DEF h
<1> QED BY <1>1, <1>2, <1>3, StartsMean

\* A run goes on to what it is to post, and then to what it is to reverse.
LEMMA NextListMeans ==
  ASSUME TypeOK, DeliveryInv, SalesFinal, NEW x \in Processes, NextList(x)
  PROVE RunMeans(x)' /\ DeskMeans(x)'
<1> DEFINE again == [Idle EXCEPT !.pc = "next", !.run = "reversals", !.todo = PendingReversals]
<1>1. /\ again.pc = "next" /\ again.run = "reversals" /\ again.todo = PendingReversals
      /\ Idle.pc = "idle" /\ Idle.run = "none"
  BY IdleTyped DEF AnyHandler
<1>2. \E h \in {again, Idle} : proc' = [proc EXCEPT ![x] = h]
  BY DEF NextList
<1> HIDE DEF again
<1>3. \A d \in PendingReversals : Reversible(d)
  BY NotBoth, ReceivablesAssumption DEF PendingReversals, DeliveryInv, TakenBackInv, Reversible, DeletedForGood,
     CancelledForGood, Overwritten, Docs
<1>4. proc'[x] = Idle \/ proc'[x] = again
  BY <1>2, OneMoves
<1>5. CASE proc'[x] = Idle
  BY <1>1, <1>5 DEF RunMeans, DeskMeans
<1>6. CASE proc'[x] = again
  <2>1. /\ proc'[x].pc = "next" /\ proc'[x].run = "reversals"
        /\ \A d \in proc'[x].todo : Reversible(d)
    BY <1>1, <1>3, <1>6
  <2> QED BY <2>1 DEF RunMeans, DeskMeans, SalesFinal
<1> QED BY <1>4, <1>5, <1>6

LEMMA NextItemMeans ==
  ASSUME TypeOK, DeliveryInv, SalesFinal, NEW x \in Processes, NEW d \in proc[x].todo, NextItem(x, d)
  PROVE RunMeans(x)' /\ DeskMeans(x)'
<1> DEFINE rest == [proc[x] EXCEPT !.todo = proc[x].todo \ {d}]
           post == [rest EXCEPT !.pc = "post", !.doc = d]
           void == [rest EXCEPT !.pc = "void", !.doc = d]
           look == [rest EXCEPT !.pc = "look", !.inv = d]
           r == IF proc[x].run = "postings" THEN IF d \in drafts THEN post ELSE rest
                ELSE IF d \in Docs THEN void ELSE look
<1>0. PICK g : g = proc[x]
  OBVIOUS
<1>1. g \in Handlers /\ g.pc = "next" /\ g.run \in {"postings", "reversals"} /\ d \in g.todo
  BY <1>0, AtHand DEF NextItem, ProcAt, Handling, Handlers
<1>2. /\ rest.pc = "next" /\ post.pc = "post" /\ void.pc = "void" /\ look.pc = "look"
      /\ \A h \in {rest, post, void, look} : h.run = g.run /\ h.todo = g.todo \ {d}
      /\ void.doc = d /\ look.inv = d
  BY <1>0, <1>1 DEF Handlers
<1>3. proc' = [proc EXCEPT ![x] = r]
  BY DEF NextItem
<1> HIDE DEF rest, post, void, look
<1>4. /\ g.run = "postings" => r = post \/ r = rest
      /\ g.run = "reversals" => r = void \/ r = look
  BY <1>0
<1> HIDE DEF r
<1>5. proc'[x] = r
  BY <1>3, OneMoves
<1>6. g.run = "reversals" => \A e \in g.todo : Reversible(e)
  BY <1>0 DEF DeliveryInv, RunMeans
<1>7. CASE g.run = "postings"
  <2>1. proc'[x].run = "postings" /\ proc'[x].pc \in {"next", "post"}
    BY <1>2, <1>4, <1>5, <1>7
  <2> QED BY <2>1 DEF RunMeans, DeskMeans
<1>8. CASE g.run = "reversals"
  <2>1. /\ proc'[x].run = "reversals" /\ \A e \in proc'[x].todo : Reversible(e)'
        /\ Reversible(d)'
        /\ \/ proc'[x].pc = "void" /\ proc'[x].doc = d
           \/ proc'[x].pc = "look" /\ proc'[x].inv = d
    BY <1>1, <1>2, <1>4, <1>5, <1>6, <1>8 DEF SalesFinal
  <2> QED BY <2>1 DEF RunMeans, DeskMeans, AtDesk, InRun
<1> QED BY <1>1, <1>7, <1>8
\* Any step that moves no process and no book.
LEMMA DeliveryStill ==
  ASSUME TypeOK, DeliveryInv, LettersMean', SalesFinal, UNCHANGED <<ar, doc, adv>>,
         \A y \in Processes : RunMeans(y)' /\ DeskMeans(y)'
  PROVE DeliveryInv'
<1>1. TakenBackInv'
  BY NotBoth DEF DeliveryInv, TakenBackInv, SalesFinal, Reversible, DeletedForGood, CancelledForGood, Overwritten
<1> QED BY <1>1 DEF DeliveryInv

\* One process moves.
LEMMA DeliveryMoves ==
  ASSUME TypeOK, CarriesInv, DeliveryInv, LettersMean', SalesFinal, NEW x \in Processes, Marks(x),
         NEW h, proc' = [proc EXCEPT ![x] = h], RunMeans(x)' /\ DeskMeans(x)'
  PROVE DeliveryInv'
<1>1. ASSUME NEW y \in Processes, y # x PROVE proc'[y] = proc[y]
  BY <1>1 DEF TypeOK, ProcsTyped
<1> QED BY <1>1, OthersMean, TakenBackKept DEF DeliveryInv

\* The books stay.
LEMMA DeliveryTurns ==
  ASSUME TypeOK, CarriesInv, DeliveryInv, LettersMean', SalesFinal, NEW x \in Processes,
         UNCHANGED <<ar, doc, adv>>, NEW h, proc' = [proc EXCEPT ![x] = h], RunMeans(x)' /\ DeskMeans(x)'
  PROVE DeliveryInv'
BY StillGrows, DeliveryMoves

LEMMA FinanceDelivers ==
  ASSUME TypeOK, CarriesInv, DeliveryInv, LettersMean', SalesFinal, NEW x \in Processes, FinanceStep(x)
  PROVE DeliveryInv'
<1>1. PICK h : proc' = [proc EXCEPT ![x] = h] /\ StaysWith(x, h)
  BY FinanceApart DEF Apart
<1>2. RunMeans(x)' /\ DeskMeans(x)'
  <2>1. CASE proc[x].pc = "next"
    <3>1. NextList(x) \/ \E d \in proc[x].todo : NextItem(x, d)
      BY <2>1 DEF FinanceStep, PostingStep, AutoPostStep, PostPaymentJournal, RetryPosting, CheckAllocation,
         CommitSalesReceipt, RecordReceipt, CheckCredit, CreateCreditNote, CheckVoid, VoidPayment,
         SalesInvoiceIssued, SalesPaymentRecorded, SalesPaymentAdvance, SalesPaymentDeleted, MarkPayment,
         SalesInvoiceCancelled, MarkInvoice, ProcAt
    <3> QED BY <3>1, NextListMeans, NextItemMeans
  <2>2. CASE proc[x].pc # "next"
    <3>1. proc[x].pc # "idle"
      BY DEF FinanceStep, PostingStep, AutoPostStep, PostPaymentJournal, RetryPosting, CheckAllocation,
         CommitSalesReceipt, RecordReceipt, CheckCredit, CreateCreditNote, CheckVoid, VoidPayment,
         SalesInvoiceIssued, SalesPaymentRecorded, SalesPaymentAdvance, SalesPaymentDeleted, MarkPayment,
         SalesInvoiceCancelled, MarkInvoice, NextList, NextItem, ProcAt
    <3>2. Ends(x, h) \/ GoesOnWith(x, h)
      BY <1>1, <2>2, <3>1 DEF StaysWith, Begins
    <3>3. proc'[x] = h
      BY <1>1, OneMoves
    <3>4. h.pc \in {"mark", "look", "settle"} => ~AtDesk(x)
      BY <2>2, <3>3, DeskMarksNothing
    <3> QED BY <1>1, <3>2, <3>4, StaysMean
  <2> QED BY <2>1, <2>2
<1> QED BY <1>1, <1>2, BooksMove, DeliveryMoves

LEMMA DeliveryKept ==
  ASSUME TypeOK, BillingInv, ProofInv, CarriesInv, DeliveryInv, [Next]_vars PROVE DeliveryInv'
<1>1. SalesFinal
  BY SalesStaysFinal
<1>2. LettersMean'
  BY <1>1, LettersKept DEF DeliveryInv
<1>3. ASSUME UNCHANGED <<ar, doc, adv, proc>> PROVE DeliveryInv'
  BY <1>1, <1>2, <1>3, OthersMean, DeliveryStill
<1>4. CASE SalesNext
  <2>1. UNCHANGED <<ar, doc, adv, proc>>
    BY <1>4 DEF SalesNext, SalesRequest, SalesStep, SubmitInvoice, SubmitProof, RejectProof, LoadInvoice,
                RecordPayment, ApproveProof, RemovePayment, WriteInvoice, InsertPayment, DecideProof,
                DeletePayment, Publish, RequestFails, Elsewhere, books
  <2> QED BY <1>3, <2>1
<1>5. CASE (\E w \in Workers : AckLate(w)) \/ (\E to \in {"OPEN", "CLOSED"} : SetPeriod(to)) \/ UNCHANGED vars
  <2>1. UNCHANGED <<ar, doc, adv, proc>>
    BY <1>5 DEF AckLate, SetPeriod, vars, books
  <2> QED BY <1>3, <2>1
<1>6. \A x \in Workers \cup Clerks : x \in Processes
  BY DEF Processes
<1>7. ASSUME NEW x \in Processes, RunSchedules(x) \/ (x \in Workers /\ RunDue(x)) PROVE DeliveryInv'
  <2>1. UNCHANGED <<ar, doc, adv>> /\ proc' = [proc EXCEPT ![x] = Run]
    BY <1>7 DEF RunSchedules, RunDue, Starts, books
  <2> QED BY <1>1, <1>2, <1>7, <2>1, RunMeansWell, DeliveryTurns
<1>8. ASSUME NEW c \in Clerks, DeskRequest(c) PROVE DeliveryInv'
  <2>1. UNCHANGED <<ar, doc, adv>> /\ \E h : proc' = [proc EXCEPT ![c] = h]
    BY <1>8 DEF DeskRequest, Starts, books
  <2> QED BY <1>1, <1>2, <1>6, <1>8, <2>1, DeskMeansWell, DeliveryTurns
<1>9. ASSUME NEW w \in Workers, NEW k \in DOMAIN stream, Receive(w, k) PROVE DeliveryInv'
  <2>1. UNCHANGED <<ar, doc, adv>> /\ \E h : proc' = [proc EXCEPT ![w] = h]
    BY <1>9 DEF Receive, books
  <2> QED BY <1>1, <1>2, <1>6, <1>9, <2>1, ReceiveMeans, DeliveryTurns
<1>10. ASSUME NEW x \in Processes, FinanceFails(x) PROVE DeliveryInv'
  <2>1. UNCHANGED <<ar, doc, adv>> /\ proc[x].pc # "idle"
    BY <1>10 DEF FinanceFails, books, ProcAt
  <2>2. PICK h : proc' = [proc EXCEPT ![x] = h] /\ Ends(x, h)
    BY <1>10, <2>1, RestEnds DEF FinanceFails
  <2>3. h.pc \notin {"mark", "look", "settle"}
    BY <2>2 DEF Ends
  <2> QED BY <1>1, <1>2, <2>1, <2>2, <2>3, StaysMean, DeliveryTurns
<1>11. ASSUME NEW x \in Processes, FinanceStep(x) PROVE DeliveryInv'
  BY <1>1, <1>2, <1>11, FinanceDelivers
<1> QED BY <1>4, <1>5, <1>6, <1>7, <1>8, <1>9, <1>10, <1>11, SidesOfNext DEF FinanceNext
LEMMA InitDelivery == Init => DeliveryInv
<1> SUFFICES ASSUME Init PROVE DeliveryInv
  OBVIOUS
<1>1. \A a \in Staff : req[a].step = "idle"
  BY NoReqTyped DEF Init
<1>2. LettersMean
  BY <1>1 DEF Init, BusInit, LettersMean, SentOrToSend
<1>3. TakenBackInv
  <2>1. \A d \in Docs : ~doc[d].flagged
    BY DEF Init
  <2>2. \A i \in Invoices : ~ar[i].cancelled
    BY DEF Init
  <2> QED BY <2>1, <2>2 DEF TakenBackInv, Docs
<1>4. ASSUME NEW x \in Processes PROVE RunMeans(x) /\ DeskMeans(x)
  BY <1>4, IdleTyped DEF Init, RunMeans, DeskMeans
<1> QED BY <1>2, <1>3, <1>4 DEF DeliveryInv

\* Finance takes back only what sales took back: a receipt on record as to be reversed
\* is of a payment that was deleted, a receivable as cancelled of an invoice that was -
\* or that was written twice at a time.
THEOREM TakenBackHolds == Spec => []TakenBackInv
<1>1. DeliveryInv => TakenBackInv
  BY DEF DeliveryInv
<1>2. [](TypeOK) /\ [][Next]_vars /\ BillingInv /\ CarriesInv => [](BillingInv /\ CarriesInv)
  BY BillsKept, CarriesHeld, PTL
<1>3. [](TypeOK) /\ [][Next]_vars /\ ProofInv => []ProofInv
  BY ProofsHeld, PTL
<1>4. [](TypeOK) /\ [][Next]_vars /\ [](BillingInv /\ CarriesInv) /\ []ProofInv /\ DeliveryInv
        => []DeliveryInv
  BY DeliveryKept, PTL
<1> QED BY <1>1, <1>2, <1>3, <1>4, Typing, InitBilling, InitProofs, InitDelivery, PTL DEF Spec
-----------------------------------------------------------------------------
(***************************************************************************)
(* What finance acknowledged.                                              *)
(***************************************************************************)
\* What makes AckedIsDone inductive: a handler that is at the receipt of a deleted
\* payment found one.
AtItsReceipt(x) ==
  proc[x].msg # 0 /\ proc[x].pc \in {"void", "reverse", "mark"} => doc[proc[x].doc].status # "NONE"

AckedInv == AckedIsDone /\ \A x \in Processes : AtItsReceipt(x)

\* The effect of a message stays: what it made is never undone, and a payment that
\* was deleted is not received later.
LEMMA EffectStays ==
  ASSUME TypeOK, NEW m \in Messages, Addressed(m), Effected(m), Grows, Remembered PROVE Effected(m)'
<1>1. CASE m.kind = "issued" \/ m.kind = "cancelled"
  BY <1>1 DEF Effected, Addressed, Grows
<1>2. CASE m.kind \in {"recorded", "deleted"}
  <2>1. m.pay \in Payments /\ m.pay \in Docs
    BY <1>2 DEF Addressed, Docs
  <2>2. /\ doc[m.pay].status # "NONE" => doc'[m.pay].status # "NONE"
        /\ doc[m.pay].status # "NONE" /\ doc[m.pay].flagged => doc'[m.pay].flagged
        /\ doc'[m.pay].status = "POSTED" => doc[m.pay].status \in {"NONE", "POSTED"}
        /\ adv[m.pay] # "NONE" => adv'[m.pay] # "NONE"
        /\ adv'[m.pay] = "POSTED" => adv[m.pay] \in {"NONE", "POSTED"}
        /\ incidents[m.pay] \subseteq incidents'[m.pay]
    BY <2>1 DEF Grows, Remembered
  <2>3. CASE m.kind = "recorded"
    BY <2>2, <2>3 DEF Effected
  <2>4. CASE m.kind = "deleted"
    BY <2>2, <2>4 DEF Effected
  <2> QED BY <1>2, <2>3, <2>4
<1> QED BY <1>1, <1>2 DEF Messages, Kinds

LEMMA LetterIs ==
  ASSUME TypeOK, NEW k \in DOMAIN stream
  PROVE stream[k] \in Letters /\ Letter(k) \in Messages /\ Addressed(Letter(k))
<1>1. stream[k] \in Letters /\ Addressed(stream[k].msg)
  BY DEF TypeOK, StreamTyped
<1> QED BY <1>1 DEF Letters, Letter

\* A message that comes back is not acknowledged.
NewlyAcked(k) == stream[k].state # "acked" /\ stream'[k].state = "acked"

LEMMA ReturnAcksNothing ==
  ASSUME TypeOK, NEW k \in DOMAIN stream, NEW j \in DOMAIN stream, Return(k) \/ Deliver(k) \/ UNCHANGED stream
  PROVE ~NewlyAcked(j)
<1>1. CASE Return(k)
  BY <1>1, LetterIs DEF Return, NewlyAcked, Letters
<1>2. CASE Deliver(k)
  BY <1>2, LetterIs DEF Deliver, NewlyAcked, Letters
<1>3. CASE UNCHANGED stream
  BY <1>3 DEF NewlyAcked
<1> QED BY <1>1, <1>2, <1>3

\* No step of sales acknowledges anything.
LEMMA SalesAcksNothing ==
  ASSUME TypeOK, SalesNext
  PROVE \A k \in DOMAIN stream' :
          stream'[k].state = "acked" => k \in DOMAIN stream /\ stream'[k] = stream[k]
<1>1. ASSUME NEW a \in Staff, Publish(a)
      PROVE \A k \in DOMAIN stream' :
              stream'[k].state = "acked" => k \in DOMAIN stream /\ stream'[k] = stream[k]
  <2>1. req[a].letter \in Messages /\ Addressed(req[a].letter)
    BY <1>1, Asking DEF Publish, Requests, Requested
  <2> QED BY <1>1, <2>1, StreamGrows DEF Publish, TypeOK
<1>2. SalesRequest => UNCHANGED stream
  BY DEF SalesRequest, SubmitInvoice, SubmitProof, RejectProof, LoadInvoice, RecordPayment, ApproveProof,
         RemovePayment
<1>3. ASSUME NEW a \in Staff, SalesStep(a) \/ RequestFails(a), ~Publish(a) PROVE UNCHANGED stream
  BY <1>3 DEF SalesStep, WriteInvoice, InsertPayment, DecideProof, DeletePayment, RequestFails
<1> QED BY <1>1, <1>2, <1>3 DEF SalesNext, SalesStep

\* Who acknowledges: a handler that is done with its message.
LEMMA AckedKept ==
  ASSUME TypeOK, AckedIsDone, Grows, Remembered, SameMessages,
         \A k \in DOMAIN stream : NewlyAcked(k) => \A m : m = Letter(k) => Effected(m)'
  PROVE AckedIsDone'
<1>1. ASSUME NEW k \in DOMAIN stream, stream'[k].state = "acked" PROVE Effected(stream[k].msg)'
  <2>1. PICK m : m = Letter(k)
    OBVIOUS
  <2>2. m \in Messages /\ Addressed(m)
    BY <2>1, LetterIs
  <2>3. stream[k].state = "acked" => Effected(m)
    BY <2>1 DEF AckedIsDone
  <2>4. Effected(m)'
    BY <1>1, <2>1, <2>2, <2>3, EffectStays DEF NewlyAcked
  <2>5. stream'[k].msg = m
    BY <2>1 DEF SameMessages, Letter
  <2> QED BY <2>4, <2>5 DEF Effected
<1> QED BY <1>1 DEF AckedIsDone, SameMessages, Letter
\* A handler that acknowledges its message: it is at hand, and the message says so.
Acknowledges(x, m) == x \in Processes /\ ByMessage(x) /\ m = Letter(proc[x].msg)

LEMMA Acknowledging ==
  ASSUME TypeOK, CarriesInv, NEW x, NEW m, Acknowledges(x, m)
  PROVE /\ proc[x].msg \in DOMAIN stream /\ proc[x].run = "none" /\ ~AtDesk(x) /\ ~InRun(x)
        /\ m \in Messages /\ Addressed(m)
        /\ proc[x].pc = "book" => m.kind = "issued" /\ proc[x].inv = m.inv
        /\ proc[x].pc \in {"receive", "advance", "insert", "commit", "journal"} =>
             m.kind = "recorded" /\ proc[x].doc = m.pay /\ m.pay \in Payments /\ m.pay \in Docs
        /\ proc[x].pc \in {"find", "void", "reverse", "mark"} =>
             m.kind = "deleted" /\ proc[x].doc = m.pay /\ m.pay \in Payments /\ m.pay \in Docs
        /\ proc[x].pc \in {"look", "credit", "note", "settle"} =>
             m.kind = "cancelled" /\ proc[x].inv = m.inv
        /\ proc[x].pc \notin {"post", "next"}
<1>1. x \in Processes /\ proc[x].msg # 0
  BY DEF Acknowledges, ByMessage
<1>2. proc[x].msg \in DOMAIN stream /\ proc[x].run = "none"
  <2>1. proc[x] # Idle
    BY <1>1, IdleTyped
  <2> QED BY <1>1, <2>1 DEF TypeOK, ProcsTyped, Handling
<1>3. m \in Messages /\ Addressed(m)
  BY <1>2, LetterIs DEF Acknowledges
<1>4. m = stream[proc[x].msg].msg /\ Carries(x)
  BY <1>1 DEF Acknowledges, Letter, CarriesInv
<1>5. ~AtDesk(x) /\ ~InRun(x)
  BY <1>1, <1>2 DEF AtDesk, InRun, ByMessage
<1> QED BY <1>1, <1>2, <1>3, <1>4, <1>5 DEF Carries, Addressed, Docs

\* A step that does not acknowledge.
LEMMA Silent ==
  ASSUME TypeOK, CarriesInv, NEW x, NEW m, Acknowledges(x, m), Nak(x) \/ UNCHANGED stream
  PROVE ~NewlyAcked(proc[x].msg)
BY Acknowledging, ReturnAcksNothing DEF Nak

LEMMA VoidAcksNothing ==
  ASSUME TypeOK, CarriesInv, NEW x, NEW m, Acknowledges(x, m),
         CheckVoid(x) \/ VoidPayment(x) \/ CreateCreditNote(x) \/ CheckCredit(x)
           \/ SalesInvoiceCancelled(x) \/ NextList(x) \/ \E d \in proc[x].todo : NextItem(x, d)
  PROVE ~NewlyAcked(proc[x].msg)
<1>1. Nak(x) \/ UNCHANGED stream
  BY Acknowledging DEF CheckVoid, VoidPayment, Voided, Goes, CreateCreditNote, Credited, CheckCredit,
     SalesInvoiceCancelled, NotYetBooked, NextList, NextItem
<1> QED BY <1>1, Silent

LEMMA RecordedAcks ==
  ASSUME TypeOK, CarriesInv, LedgerInv, NEW x, NEW m, Acknowledges(x, m), NewlyAcked(proc[x].msg),
         \/ PostPaymentJournal(x) \/ CheckAllocation(x) \/ CommitSalesReceipt(x)
         \/ SalesPaymentRecorded(x) \/ SalesPaymentAdvance(x)
  PROVE Effected(m)'
<1>1. proc[x].pc \in {"journal", "insert", "commit", "receive", "advance"} /\ x \in Processes
  BY DEF PostPaymentJournal, CheckAllocation, CommitSalesReceipt, SalesPaymentRecorded, SalesPaymentAdvance,
         ProcAt, Acknowledges
<1>2. m.kind = "recorded" /\ proc[x].doc = m.pay /\ m.pay \in Payments /\ m.pay \in Docs
  BY <1>1, Acknowledging
<1>3. ~(Nak(x) \/ UNCHANGED stream)
  BY Silent
<1>4. doc'[m.pay].status # "NONE" \/ adv'[m.pay] # "NONE" \/ "refused" \in incidents'[m.pay]
  <2>1. CASE PostPaymentJournal(x)
    <3>1. doc[m.pay].status # "NONE"
      BY <1>1, <1>2, <2>1 DEF LedgerInv, BooksIInv, Postable, PostPaymentJournal, ProcAt
    <3> QED BY <2>1, <3>1 DEF PostPaymentJournal
  <2>2. CASE CheckAllocation(x)
    <3>1. incidents' = Noted(proc[x].doc, {"refused"})
      BY <1>3, <2>2 DEF CheckAllocation, Acknowledges
    <3> QED BY <1>2, <3>1 DEF Noted, TypeOK, CountsTyped
  <2>3. CASE CommitSalesReceipt(x)
    BY <1>2, <1>3, <2>3 DEF CommitSalesReceipt, Goes
  <2>4. CASE SalesPaymentRecorded(x)
    BY <1>2, <1>3, <2>4 DEF SalesPaymentRecorded, Goes, books
  <2>5. CASE SalesPaymentAdvance(x)
    BY <1>2, <2>5 DEF SalesPaymentAdvance, Noted, TypeOK, BooksTyped, CountsTyped
  <2> QED BY <2>1, <2>2, <2>3, <2>4, <2>5
<1> QED BY <1>2, <1>4 DEF Effected

LEMMA DeletedAcks ==
  ASSUME TypeOK, CarriesInv, AckedInv, NEW x, NEW m, Acknowledges(x, m), NewlyAcked(proc[x].msg),
         SalesPaymentDeleted(x) \/ MarkPayment(x)
  PROVE Effected(m)'
<1>1. proc[x].pc \in {"find", "mark"} /\ x \in Processes /\ proc[x].msg # 0
  BY DEF SalesPaymentDeleted, MarkPayment, ProcAt, Acknowledges, ByMessage
<1>2. m.kind = "deleted" /\ proc[x].doc = m.pay /\ m.pay \in Payments /\ m.pay \in Docs
  BY <1>1, Acknowledging
<1>3. ~(Nak(x) \/ UNCHANGED stream)
  BY Silent
<1>4. PICK p : p = m.pay
  OBVIOUS
<1>5. /\ doc'[p].status # "NONE" \/ adv'[p] # "NONE"
      /\ doc'[p].status = "POSTED" => doc'[p].flagged \/ adv'[p] # "NONE"
      /\ adv'[p] = "POSTED" => doc'[p].status # "NONE" \/ "told" \in incidents'[p]
  <2>1. CASE SalesPaymentDeleted(x)
    <3>1. /\ doc[p].status # "POSTED" /\ (doc[p].status # "NONE" \/ adv[p] # "NONE")
          /\ UNCHANGED doc
          /\ IF doc[p].status = "NONE" /\ adv[p] = "POSTED"
             THEN adv' = [adv EXCEPT ![p] = "VOID"] \/ (incidents' = Noted(p, {"told"}) /\ UNCHANGED adv)
             ELSE UNCHANGED adv
      BY <1>2, <1>3, <1>4, <2>1 DEF SalesPaymentDeleted, NotYetHere, Goes
    <3> QED BY <1>2, <1>4, <3>1 DEF Noted, TypeOK, BooksTyped, CountsTyped
  <2>2. CASE MarkPayment(x)
    <3>1. doc[p].status # "NONE"
      BY <1>1, <1>2, <1>4, <2>2 DEF AckedInv, AtItsReceipt, MarkPayment, ProcAt
    <3>2. doc' = [doc EXCEPT ![p].flagged = TRUE] /\ UNCHANGED adv
      BY <1>2, <1>4, <2>2 DEF MarkPayment
    <3>3. doc'[p].status = doc[p].status /\ doc'[p].flagged = TRUE
      BY <1>2, <1>4, <3>2 DEF TypeOK, BooksTyped, Documents
    <3> QED BY <3>1, <3>3
  <2> QED BY <2>1, <2>2
<1> QED BY <1>2, <1>4, <1>5 DEF Effected

LEMMA InvoiceAcks ==
  ASSUME TypeOK, CarriesInv, NEW x, NEW m, Acknowledges(x, m), SalesInvoiceIssued(x) \/ MarkInvoice(x)
  PROVE Effected(m)'
<1>1. PICK i : i = proc[x].inv
  OBVIOUS
<1>2. proc[x].pc \in {"book", "settle"} /\ x \in Processes
  BY DEF SalesInvoiceIssued, MarkInvoice, ProcAt, Acknowledges
<1>3. m.inv = i /\ m \in Messages /\ Addressed(m) /\ m.kind \in {"issued", "cancelled"}
  BY <1>1, <1>2, Acknowledging
<1>4. i \in Invoices
  BY <1>3 DEF Addressed
<1>5. CASE SalesInvoiceIssued(x)
  <2>1. ASSUME ar[i].booked PROVE ar'[i].booked
    BY <1>1, <1>5, <2>1 DEF SalesInvoiceIssued
  <2>2. ASSUME ~ar[i].booked PROVE ar'[i].booked
    <3>1. PICK r : r = [ar[i] EXCEPT !.booked = TRUE, !.total = Message(x).amount]
      OBVIOUS
    <3>2. ar' = [ar EXCEPT ![i] = r]
      BY <1>1, <1>5, <2>2, <3>1 DEF SalesInvoiceIssued
    <3>3. ar'[i] = r /\ r.booked
      BY <1>4, <3>1, <3>2 DEF TypeOK, BooksTyped, Receivables
    <3> QED BY <3>3
  <2>3. m.kind = "issued"
    BY <1>5, Acknowledging DEF SalesInvoiceIssued, ProcAt
  <2>4. ar'[i].booked
    BY <2>1, <2>2
  <2> QED BY <1>3, <2>3, <2>4 DEF Effected
<1>6. CASE MarkInvoice(x)
  <2>1. ar' = [ar EXCEPT ![i].cancelled = TRUE, ![i].settled = proc[x].ok]
    BY <1>1, <1>6 DEF MarkInvoice
  <2>2. ar'[i].cancelled = TRUE
    BY <1>4, <2>1 DEF TypeOK, BooksTyped, Receivables
  <2>3. m.kind = "cancelled"
    BY <1>6, <1>2, Acknowledging DEF MarkInvoice, ProcAt
  <2> QED BY <1>3, <2>2, <2>3 DEF Effected
<1> QED BY <1>5, <1>6
LEMMA HandlerAcks ==
  ASSUME TypeOK, CarriesInv, LedgerInv, AckedInv, NEW x \in Processes, NEW m, Acknowledges(x, m),
         NewlyAcked(proc[x].msg), FinanceStep(x)
  PROVE Effected(m)'
<1>1. ~RetryPosting(x) /\ ~RecordReceipt(x)
  BY Acknowledging DEF RetryPosting, RecordReceipt, ProcAt, Acknowledges
<1> QED BY <1>1, VoidAcksNothing, RecordedAcks, DeletedAcks, InvoiceAcks
        DEF FinanceStep, PostingStep, AutoPostStep

\* Only its own message.
LEMMA OthersAckNothing ==
  ASSUME TypeOK, NEW x \in Processes, proc[x].pc # "idle",
         Done(x) \/ (proc[x].msg # 0 /\ Nak(x)) \/ UNCHANGED stream
  PROVE \A k \in DOMAIN stream : NewlyAcked(k) => ByMessage(x) /\ k = proc[x].msg
<1>1. CASE UNCHANGED stream
  BY <1>1 DEF NewlyAcked
<1>2. CASE ~UNCHANGED stream
  <2>1. proc[x].msg # 0 /\ (Ack(proc[x].msg) \/ Return(proc[x].msg))
    BY <1>2 DEF Done, Nak, ByMessage
  <2>2. proc[x].msg \in DOMAIN stream
    BY <2>1, AtHand DEF Handling
  <2> QED BY <2>1, <2>2, StreamMoves DEF TypeOK, NewlyAcked, ByMessage
<1> QED BY <1>1, <1>2

LEMMA StepAcksItsOwn ==
  ASSUME TypeOK, NEW x \in Processes, FinanceStep(x)
  PROVE \A k \in DOMAIN stream : NewlyAcked(k) => ByMessage(x) /\ k = proc[x].msg
<1>1. proc[x].pc # "idle"
  BY DEF FinanceStep, PostingStep, AutoPostStep, PostPaymentJournal, RetryPosting, CheckAllocation,
     CommitSalesReceipt, RecordReceipt, CheckCredit, CreateCreditNote, CheckVoid, VoidPayment,
     SalesInvoiceIssued, SalesPaymentRecorded, SalesPaymentAdvance, SalesPaymentDeleted, MarkPayment,
     SalesInvoiceCancelled, MarkInvoice, NextList, NextItem, ProcAt
<1>2. Done(x) \/ (proc[x].msg # 0 /\ Nak(x)) \/ UNCHANGED stream
  <2>1. CASE SalesPaymentRecorded(x) \/ SalesPaymentDeleted(x)
    <3>1. proc[x].pc \in {"receive", "find"}
      BY <2>1 DEF SalesPaymentRecorded, SalesPaymentDeleted, ProcAt
    <3>2. proc[x].msg # 0
      BY <3>1, AtHand DEF Handling
    <3> QED BY <2>1, <3>2 DEF SalesPaymentRecorded, SalesPaymentDeleted, NotYetHere, Goes
  <2>2. CASE SalesInvoiceCancelled(x)
    BY <2>2 DEF SalesInvoiceCancelled, ByMessage, NotYetBooked
  <2>3. CASE ~(SalesPaymentRecorded(x) \/ SalesPaymentDeleted(x) \/ SalesInvoiceCancelled(x))
    BY <2>3 DEF FinanceStep, PostingStep, AutoPostStep, PostPaymentJournal, RetryPosting, CheckAllocation,
       CommitSalesReceipt, RecordReceipt, CheckCredit, CreateCreditNote, Credited, CheckVoid, VoidPayment,
       Voided, Goes, SalesInvoiceIssued, SalesPaymentAdvance, MarkPayment, MarkInvoice, NextList, NextItem
  <2> QED BY <2>1, <2>2, <2>3
<1> QED BY <1>1, <1>2, OthersAckNothing

\* Who is at a receipt stays at one.
LEMMA StillAtReceipt ==
  ASSUME TypeOK, AckedInv, Grows, NEW y \in Processes,
         \/ proc'[y] = proc[y]
         \/ proc'[y].msg = 0
         \/ /\ GoesOnWith(y, proc'[y])
            /\ proc[y].pc = "find" /\ proc'[y].pc \in {"void", "reverse", "mark"} =>
                 doc[proc[y].doc].status # "NONE"
         \/ proc'[y].pc \notin {"void", "reverse", "mark"}
  PROVE AtItsReceipt(y)'
<1> SUFFICES ASSUME proc'[y].msg # 0, proc'[y].pc \in {"void", "reverse", "mark"}
             PROVE doc'[proc'[y].doc].status # "NONE"
  BY DEF AtItsReceipt
<1>1. PICK d : d = proc'[y].doc
  OBVIOUS
<1>2. d = proc[y].doc /\ proc[y].msg # 0 /\ proc[y].pc \in {"find", "void", "reverse", "mark"}
  BY <1>1 DEF GoesOnWith, SameStage, Stages
<1>3. doc[d].status # "NONE"
  BY <1>2 DEF AckedInv, AtItsReceipt
<1>4. d \in Docs
  BY <1>2, AtHand DEF Handling, Docs
<1> QED BY <1>1, <1>3, <1>4 DEF Grows
LEMMA DoneAtNothing ==
  ASSUME TypeOK, NEW x \in Processes, proc[x].pc # "idle", Done(x) \/ Nak(x)
  PROVE proc'[x].pc \in {"idle", "next"}
<1>1. Ends(x, Rest(x)) /\ Ends(x, Idle)
  BY RestEnds
<1>2. proc'[x] = Rest(x) \/ proc'[x] = Idle
  BY OneMoves DEF Done, Nak
<1> QED BY <1>1, <1>2 DEF Ends

LEMMA AckLateAcksNothing ==
  ASSUME TypeOK, NEW w \in Workers, AckLate(w) PROVE \A k \in DOMAIN stream : ~NewlyAcked(k)
<1>1. proc[w].msg # 0 /\ w \in Processes
  BY DEF AckLate, ByMessage, Processes
<1>2. proc[w] # Idle
  BY <1>1, IdleTyped
<1>3. proc[w].msg \in DOMAIN stream
  BY <1>1, <1>2 DEF TypeOK, ProcsTyped, Handling
<1> QED BY <1>3, ReturnAcksNothing DEF AckLate

LEMMA ReceivesNoReceipt ==
  ASSUME TypeOK, NEW w \in Workers, NEW k \in DOMAIN stream, Receive(w, k) PROVE AtItsReceipt(w)'
<1> DEFINE m == stream[k].msg
           h == [Idle EXCEPT !.pc = Handler[m.kind], !.msg = k, !.doc = m.pay, !.inv = m.inv]
<1>1. m.kind \in Kinds
  BY LetterIs DEF Letter, Messages
<1>2. h.pc = Handler[m.kind]
  BY IdleTyped DEF AnyHandler
<1>3. proc' = [proc EXCEPT ![w] = h] /\ w \in Processes
  BY DEF Receive, Processes
<1>4. Handler[m.kind] \in {"book", "receive", "find", "look"}
  BY <1>1 DEF Handler, Kinds
<1> HIDE DEF h, m
<1>5. proc'[w].pc \in {"book", "receive", "find", "look"}
  BY <1>2, <1>3, <1>4, OneMoves
<1> QED BY <1>5 DEF AtItsReceipt

LEMMA StepsStayAtReceipt ==
  ASSUME TypeOK, AckedInv, Grows, NEW x \in Processes, FinanceStep(x) PROVE AtItsReceipt(x)'
<1>1. PICK h : proc' = [proc EXCEPT ![x] = h] /\ StaysWith(x, h)
  BY FinanceApart DEF Apart
<1>2. proc'[x] = h
  BY <1>1, OneMoves
<1>3. CASE GoesOnWith(x, h)
  <2>1. ASSUME proc[x].pc = "find", h.pc \in {"void", "reverse", "mark"}
        PROVE doc[proc[x].doc].status # "NONE"
    <3>1. SalesPaymentDeleted(x)
      BY <2>1 DEF FinanceStep, PostingStep, AutoPostStep, PostPaymentJournal, RetryPosting, CheckAllocation,
         CommitSalesReceipt, RecordReceipt, CheckCredit, CreateCreditNote, CheckVoid, VoidPayment,
         SalesInvoiceIssued, SalesPaymentRecorded, SalesPaymentAdvance, MarkPayment, SalesInvoiceCancelled,
         MarkInvoice, NextList, NextItem, ProcAt
    <3>2. ~(Done(x) \/ Nak(x))
      BY <1>2, <2>1, DoneAtNothing
    <3> QED BY <3>1, <3>2 DEF SalesPaymentDeleted, NotYetHere
  <2> QED BY <1>2, <1>3, <2>1, StillAtReceipt
<1>4. CASE Ends(x, h) \/ Begins(x, h)
  BY <1>2, <1>4, StillAtReceipt DEF Ends, Begins
<1> QED BY <1>1, <1>3, <1>4 DEF StaysWith

LEMMA AckedStill ==
  ASSUME TypeOK, AckedInv, Grows, Remembered, SameMessages, NEW x \in Processes, NEW h,
         proc' = [proc EXCEPT ![x] = h], AtItsReceipt(x)',
         \A k \in DOMAIN stream : NewlyAcked(k) => \A m : m = Letter(k) => Effected(m)'
  PROVE AckedInv'
<1>1. ASSUME NEW y \in Processes, y # x PROVE AtItsReceipt(y)'
  BY <1>1, OneMoves, StillAtReceipt
<1>2. AckedIsDone'
  BY AckedKept DEF AckedInv
<1> QED BY <1>1, <1>2 DEF AckedInv

LEMMA AckedHeld ==
  ASSUME TypeOK, CarriesInv, LedgerInv, AckedInv, [Next]_vars PROVE AckedInv'
<1>1. ASSUME UNCHANGED <<ar, doc, adv>> PROVE Grows
  BY <1>1 DEF Grows
<1>2. CASE SalesNext
  <2>1. UNCHANGED <<ar, doc, adv, proc>> /\ Remembered
    <3>1. UNCHANGED <<ar, doc, adv, proc>>
      BY <1>2 DEF SalesNext, SalesRequest, SalesStep, SubmitInvoice, SubmitProof, RejectProof, LoadInvoice,
                  RecordPayment, ApproveProof, RemovePayment, WriteInvoice, InsertPayment, DecideProof,
                  DeletePayment, Publish, RequestFails, Elsewhere, books
    <3>2. Remembered
      BY <1>2, SalesQuiet DEF SalesNext, Quiet, QuietInvoices
    <3> QED BY <3>1, <3>2
  <2>2. ASSUME NEW k \in DOMAIN stream', stream'[k].state = "acked" PROVE Effected(stream[k].msg)'
    <3>1. k \in DOMAIN stream /\ stream'[k] = stream[k]
      BY <1>2, <2>2, SalesAcksNothing
    <3>2. PICK m : m = Letter(k)
      OBVIOUS
    <3>3. m \in Messages /\ Addressed(m) /\ Effected(m)
      BY <2>2, <3>1, <3>2, LetterIs DEF AckedInv, AckedIsDone
    <3>4. Effected(m)'
      BY <1>1, <2>1, <3>3, EffectStays
    <3> QED BY <3>1, <3>2, <3>4 DEF Effected, Letter
  <2>3. AckedIsDone'
    BY <2>2 DEF AckedIsDone, Letter
  <2> QED BY <1>1, <2>1, <2>3, StillAtReceipt DEF AckedInv
<1>3. CASE (\E w \in Workers : AckLate(w)) \/ (\E to \in {"OPEN", "CLOSED"} : SetPeriod(to)) \/ UNCHANGED vars
  <2>1. UNCHANGED <<ar, doc, adv, proc>> /\ SameMessages /\ Remembered
    BY <1>3, OtherFinance DEF AckLate, SetPeriod, vars, books
  <2>2. \A k \in DOMAIN stream : ~NewlyAcked(k)
    BY <1>3, AckLateAcksNothing DEF SetPeriod, vars, NewlyAcked
  <2> QED BY <1>1, <2>1, <2>2, AckedKept, StillAtReceipt DEF AckedInv
<1>4. \A x \in Workers \cup Clerks : x \in Processes
  BY DEF Processes
<1>5. ASSUME NEW x \in Processes, FinanceStep(x) PROVE AckedInv'
  <2>1. \A k \in DOMAIN stream : NewlyAcked(k) => \A m : m = Letter(k) => Effected(m)'
    BY <1>5, StepAcksItsOwn, HandlerAcks DEF Acknowledges
  <2>2. SameMessages /\ Remembered /\ \E h : proc' = [proc EXCEPT ![x] = h]
    BY <1>5, FinanceApart DEF Apart
  <2>3. Grows /\ AtItsReceipt(x)'
    BY <1>5, BooksMove, StepsStayAtReceipt
  <2> QED BY <2>1, <2>2, <2>3, AckedStill
<1>6. ASSUME NEW x \in Processes, UNCHANGED <<ar, doc, adv, stream>>, Apart(x), AtItsReceipt(x)' PROVE AckedInv'
  <2>1. \A k \in DOMAIN stream : ~NewlyAcked(k)
    BY <1>6 DEF NewlyAcked
  <2> QED BY <1>1, <1>6, <2>1, AckedStill DEF Apart
<1>7. ASSUME NEW x \in Processes, RunSchedules(x) \/ (x \in Workers /\ RunDue(x)) PROVE AckedInv'
  <2>1. UNCHANGED <<ar, doc, adv, stream>> /\ proc' = [proc EXCEPT ![x] = Run]
    BY <1>7 DEF RunSchedules, RunDue, Starts, books
  <2>2. proc'[x].pc = "next"
    <3>1. Run.pc = "next"
      BY IdleTyped DEF Run, AnyHandler
    <3> QED BY <2>1, <3>1, OneMoves
  <2> QED BY <1>6, <1>7, <2>1, <2>2, RunApart DEF AtItsReceipt
<1>8. ASSUME NEW c \in Clerks, DeskRequest(c) PROVE AckedInv'
  <2>1. UNCHANGED <<ar, doc, adv, stream>> /\ proc[c].pc = "idle"
    BY <1>8 DEF DeskRequest, Starts, books, ProcAt
  <2>2. PICK h : proc' = [proc EXCEPT ![c] = h] /\ StaysWith(c, h)
    BY <1>8, DeskApart DEF Apart
  <2>3. proc'[c].msg = 0
    BY <1>4, <2>1, <2>2, OneMoves DEF StaysWith, Ends, GoesOnWith, Begins, SameStage, Stages
  <2> QED BY <1>4, <1>6, <1>8, <2>1, <2>3, DeskApart DEF AtItsReceipt
<1>9. ASSUME NEW w \in Workers, NEW k \in DOMAIN stream, Receive(w, k) PROVE AckedInv'
  <2>1. UNCHANGED <<ar, doc, adv>> /\ Deliver(k) /\ \E h : proc' = [proc EXCEPT ![w] = h]
    BY <1>9 DEF Receive, books
  <2>2. \A j \in DOMAIN stream : ~NewlyAcked(j)
    BY <1>9, <2>1, ReturnAcksNothing
  <2>3. AtItsReceipt(w)'
    BY <1>9, ReceivesNoReceipt
  <2> QED BY <1>1, <1>4, <1>9, <2>1, <2>2, <2>3, ReceiveCarries, AckedStill
<1>10. ASSUME NEW x \in Processes, FinanceFails(x) PROVE AckedInv'
  <2>1. UNCHANGED <<ar, doc, adv>> /\ proc[x].pc # "idle"
    BY <1>10 DEF FinanceFails, books, ProcAt
  <2>2. PICK h : proc' = [proc EXCEPT ![x] = h] /\ Ends(x, h)
    BY <1>10, <2>1, RestEnds DEF FinanceFails
  <2>3. AtItsReceipt(x)'
    BY <2>2, OneMoves DEF Ends, AtItsReceipt
  <2>4. \A j \in DOMAIN stream : ~NewlyAcked(j)
    <3>1. proc[x].msg # 0 => proc[x].msg \in DOMAIN stream
      BY <2>1, AtHand DEF Handling
    <3> QED BY <1>10, <3>1, ReturnAcksNothing DEF FinanceFails, ByMessage, NewlyAcked
  <2> QED BY <1>1, <1>10, <2>1, <2>2, <2>3, <2>4, FailsApart, AckedStill DEF Apart
<1> QED BY <1>2, <1>3, <1>4, <1>5, <1>7, <1>8, <1>9, <1>10, SidesOfNext DEF FinanceNext
LEMMA InitAcked == Init => AckedInv
<1> SUFFICES ASSUME Init PROVE AckedInv
  OBVIOUS
<1>1. DOMAIN stream = {}
  BY DEF Init, BusInit
<1>2. \A x \in Processes : proc[x].msg = 0
  BY IdleTyped DEF Init
<1> QED BY <1>1, <1>2 DEF AckedInv, AckedIsDone, AtItsReceipt

\* A message finance has acknowledged has had its effect, in whatever order the
\* messages came, however often, and whatever failed in between.
THEOREM AckedHolds == Spec => []AckedIsDone
<1>1. AckedInv => AckedIsDone
  BY DEF AckedInv
<1>2. [](TypeOK) /\ [][Next]_vars /\ BillingInv /\ CarriesInv => [](BillingInv /\ CarriesInv)
  BY BillsKept, CarriesHeld, PTL
<1>3. [](TypeOK) /\ [][Next]_vars /\ LedgerInv => []LedgerInv
  BY LedgerKept, PTL
<1>4. [](TypeOK) /\ [][Next]_vars /\ [](BillingInv /\ CarriesInv) /\ []LedgerInv /\ AckedInv => []AckedInv
  BY AckedHeld, PTL
<1> QED BY <1>1, <1>2, <1>3, <1>4, Typing, InitBilling, InitLedger, InitAcked, PTL DEF Spec
=============================================================================
