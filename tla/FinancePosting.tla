--------------------------- MODULE FinancePosting ---------------------------
(***************************************************************************)
(* What finance does with a document in its books (internal/finance/app/   *)
(* ledger.go, journals.go, tax_depth.go, period_end.go, fiscal.go): it     *)
(* allocates an amount to an invoice, posts its journal or leaves a draft  *)
(* in the posting log, and voids it with a reversing journal. People in    *)
(* finance ask for it at their desk; the handlers of sales' messages and   *)
(* the daily run of the next module take the same steps.                   *)
(*                                                                         *)
(* A transaction reads what is committed when it reads (READ COMMITTED)    *)
(* and takes no lock on the invoice, so a check and the commit after it    *)
(* are two steps.                                                          *)
(***************************************************************************)
EXTENDS ReceivablesStore

\* domain.InvoiceOutstanding, over the allocations of POSTED payments.
Outstanding(i) ==
  IF ar[i].total > ar[i].allocated THEN ar[i].total - ar[i].allocated ELSE 0

ProcAt(x, pc) == proc[x].pc = pc
InRun(x) == proc[x].run # "none"
ByMessage(x) == proc[x].msg # 0
AtDesk(x) == ~InRun(x) /\ ~ByMessage(x)

\* Mutant: whatever is done, a run goes on.
AlwaysNext(x) == [Idle EXCEPT !.pc = "next", !.run = proc[x].run, !.todo = proc[x].todo]

\* The process is done with what it has at hand: the rest of the run, or idle.
Rest(x) ==
  IF InRun(x) THEN [Idle EXCEPT !.pc = "next", !.run = proc[x].run, !.todo = proc[x].todo]
  ELSE Idle

\* A handler ends without an error: the ack goes out, or it is lost.
Done(x) ==
  /\ proc' = [proc EXCEPT ![x] = Rest(x)]
  /\ \/ /\ IF ByMessage(x) THEN Ack(proc[x].msg) ELSE UNCHANGED stream
        /\ UNCHANGED faults
     \/ ByMessage(x) /\ Return(proc[x].msg) /\ Fault

Goes(x, pc) ==
  /\ proc' = [proc EXCEPT ![x].pc = pc]
  /\ UNCHANGED <<stream, faults>>

SalesIdle == UNCHANGED <<sales, ops, desk>>

-----------------------------------------------------------------------------
(***************************************************************************)
(* Journals.                                                               *)
(***************************************************************************)
\* PostFromMapping: nothing for what has its journal already; a journal in an
\* open period; else a draft in the posting log.
PostJournal(d) ==
  IF d \in entries THEN UNCHANGED <<entries, drafts>>
  ELSE IF period = "OPEN" THEN entries' = entries \cup {d} /\ drafts' = drafts \ {d}
  ELSE drafts' = drafts \cup {d} /\ UNCHANGED entries

\* The journal of a receipt from sales, posted after the receipt is committed.
PostPaymentJournal(x) ==
  LET d == proc[x].doc
  IN  /\ ProcAt(x, "journal")
      /\ PostJournal(d)
      /\ incidents' = Noted(d, If("late", doc[d].status = "VOID"))
      /\ Done(x)
      /\ SalesIdle /\ UNCHANGED <<ar, doc, adv, reversals, period>>

\* RetryPosting, after it has read the draft: whatever became of its document.
RetryPosting(x) ==
  LET d == proc[x].doc
  IN  /\ ProcAt(x, "post")
      /\ PostJournal(d)
      /\ incidents' = Noted(d, If("late", d \in Docs /\ doc[d].status = "VOID"))
      /\ Done(x)
      /\ SalesIdle /\ UNCHANGED <<ar, doc, adv, reversals, period>>

-----------------------------------------------------------------------------
(***************************************************************************)
(* Allocating: insertPayment and the checks before a credit note or a      *)
(* write-off.                                                              *)
(***************************************************************************)
\* Mutant: a receipt may be larger than what is open.
AnyAmount(i, n) == n > 0

Fits(i, n) == n > 0 /\ n <= Outstanding(i)

\* What was allocated at the check, for the commit to be told apart from it.
CheckAllocation(x) ==
  LET i == proc[x].inv
  IN  /\ ProcAt(x, "insert")
      /\ IF Fits(i, proc[x].amount)
         THEN /\ proc' = [proc EXCEPT ![x].pc = "commit", ![x].seen = ar[i].allocated]
              /\ UNCHANGED <<stream, faults, incidents>>
         ELSE /\ incidents' = IF ByMessage(x) THEN Noted(proc[x].doc, {"refused"}) ELSE incidents
              /\ Done(x)
      /\ SalesIdle /\ UNCHANGED <<books, period>>

Document(i, n, method) ==
  [status |-> "POSTED", inv |-> i, amount |-> n, method |-> method, flagged |-> FALSE]

Allocate(x, d) ==
  LET i == proc[x].inv
      n == proc[x].amount
  IN  /\ doc' = [doc EXCEPT ![d] = Document(i, n, proc[x].method)]
      /\ ar' = [ar EXCEPT ![i].allocated = @ + n]
      /\ incidents' = Noted(i, If("crossed", ar[i].allocated > proc[x].seen))

\* A receipt from sales is committed without a journal (recordSalesPayment);
\* payments_sales_live lets in one per sales payment.
CommitSalesReceipt(x) ==
  LET d == proc[x].doc
  IN  /\ ProcAt(x, "commit") /\ ByMessage(x)
      /\ IF doc[d].status = "NONE"
         THEN Allocate(x, d) /\ Goes(x, "journal")
         ELSE Done(x) /\ UNCHANGED <<ar, doc, incidents>>
      /\ SalesIdle /\ UNCHANGED <<adv, entries, reversals, drafts, period>>

\* What finance records of its own commits with its journal or not at all: a
\* receipt of a clerk, a credit note, a write-off.
CommitVoucher(x, d) ==
  /\ d \in Vouchers /\ doc[d].status = "NONE"
  /\ period = "OPEN"
  /\ Allocate(x, d)
  /\ entries' = entries \cup {d}
  /\ SalesIdle /\ UNCHANGED <<adv, reversals, drafts, period>>

RecordReceipt(x) ==
  /\ ProcAt(x, "commit") /\ ~ByMessage(x)
  /\ \/ \E d \in Vouchers : CommitVoucher(x, d) /\ Done(x)
     \/ /\ period = "CLOSED" /\ Done(x)
        /\ SalesIdle /\ UNCHANGED <<books, period, incidents>>

\* CreateCreditNote and WriteOffInvoice read the invoice: it needs its journal
\* and something open, all of which is credited.
MayCredit(i) == i \in entries /\ Outstanding(i) > 0

CheckCredit(x) ==
  LET i == proc[x].inv
  IN  /\ ProcAt(x, "credit")
      /\ IF MayCredit(i)
         THEN /\ proc' = [proc EXCEPT ![x].pc = "note", ![x].amount = Outstanding(i),
                                      ![x].seen = ar[i].allocated]
              /\ UNCHANGED <<stream, faults>>
         ELSE IF AtDesk(x) THEN Done(x) ELSE Goes(x, "settle")
      /\ SalesIdle /\ UNCHANGED <<books, period, incidents>>

\* For a reversal the outcome is recorded next (SetInvoiceSalesReversal).
Credited(x, ok) ==
  IF AtDesk(x) THEN Done(x)
  ELSE /\ proc' = [proc EXCEPT ![x].pc = "settle", ![x].ok = ok]
       /\ UNCHANGED <<stream, faults>>

CreateCreditNote(x) ==
  /\ ProcAt(x, "note")
  /\ \/ \E d \in Vouchers : CommitVoucher(x, d) /\ Credited(x, TRUE)
     \/ /\ period = "CLOSED" /\ Credited(x, FALSE)
        /\ SalesIdle /\ UNCHANGED <<books, period, incidents>>

-----------------------------------------------------------------------------
(***************************************************************************)
(* Voiding.                                                                *)
(***************************************************************************)
\* Mutant: every void leaves the mark of a reversal for sales.
AlwaysMarks(x) == Goes(x, "mark")

\* Where a void goes when it is over: a reversal for sales leaves a mark.
Voided(x) == IF AtDesk(x) THEN Done(x) ELSE Goes(x, "mark")

MayVoid(d) == doc[d].status = "POSTED" /\ doc[d].method # "credit note"

\* VoidPayment reads the document and evaluates the void.
CheckVoid(x) ==
  /\ ProcAt(x, "void")
  /\ IF MayVoid(proc[x].doc) THEN Goes(x, "reverse") ELSE Voided(x)
  /\ SalesIdle /\ UNCHANGED <<books, period, incidents>>

\* Mutant: a receipt without a journal keeps its draft in the posting log.
DraftStays(d) == drafts

\* reversePaymentJournal drops the pending posting of what never had a journal.
DraftDropped(d) == drafts \ {d}

\* Mutant: what does not wait for its journal is taken to have it.
NotWaiting(d) == d \notin drafts

\* FindEntryBySource.
Journaled(d) == d \in entries

\* The transaction: the document is VOID and stops counting, its journal gets a
\* reversing one - or all is rolled back when that cannot be posted.
VoidPayment(x) ==
  LET d      == proc[x].doc
      posted == Journaled(d)
  IN  /\ ProcAt(x, "reverse")
      /\ IF posted /\ (period = "CLOSED" \/ d \in reversals)
         THEN UNCHANGED <<ar, doc, reversals, drafts>>
         ELSE /\ doc' = [doc EXCEPT ![d].status = "VOID"]
              /\ ar' = IF doc[d].status = "POSTED"
                       THEN [ar EXCEPT ![doc[d].inv].allocated = @ - doc[d].amount] ELSE ar
              /\ reversals' = IF posted THEN reversals \cup {d} ELSE reversals
              /\ drafts' = IF posted THEN drafts ELSE DraftDropped(d)
      /\ Voided(x)
      /\ SalesIdle /\ UNCHANGED <<adv, entries, period, incidents>>

-----------------------------------------------------------------------------
(***************************************************************************)
(* At the desk.                                                            *)
(***************************************************************************)
Starts(c, op, p) ==
  /\ ProcAt(c, "idle") /\ op \in Menu /\ desk < MaxDesk
  /\ desk' = desk + 1
  /\ proc' = [proc EXCEPT ![c] = p]
  /\ UNCHANGED <<sales, ops, books, period, stream, faults, incidents>>

DeskRequest(c) ==
  \/ \E i \in Invoices, n \in Amounts :
       i \in entries /\ Starts(c, "receipt", [Idle EXCEPT !.pc = "insert", !.inv = i, !.amount = n])
  \/ \E i \in Invoices, method \in {"credit note", "write-off"} :
       ar[i].booked /\ Starts(c, method, [Idle EXCEPT !.pc = "credit", !.inv = i, !.method = method])
  \/ \E d \in Docs : doc[d].status # "NONE" /\ Starts(c, "void", [Idle EXCEPT !.pc = "void", !.doc = d])
  \/ \E d \in drafts : Starts(c, "retry", [Idle EXCEPT !.pc = "post", !.doc = d])

\* OpenPeriod and ClosePeriod; nothing may wait for its journal at the close.
SetPeriod(to) ==
  /\ to \in Menu /\ desk < MaxDesk
  /\ IF to = "CLOSED" THEN period = "OPEN" /\ drafts = {} ELSE period = "CLOSED"
  /\ period' = to
  /\ desk' = desk + 1
  /\ UNCHANGED <<sales, ops, books, proc, stream, faults, incidents>>

PostingStep(x) ==
  \/ PostPaymentJournal(x) \/ RetryPosting(x)
  \/ CheckAllocation(x) \/ CommitSalesReceipt(x) \/ RecordReceipt(x)
  \/ CheckCredit(x) \/ CreateCreditNote(x)
  \/ CheckVoid(x) \/ VoidPayment(x)
=============================================================================
