--------------------------- MODULE FinanceAutoPost ---------------------------
(***************************************************************************)
(* The consumer "finance-events" (internal/finance/app/autopost.go,        *)
(* controls.go, service.go): what finance makes of the four messages of    *)
(* sales, and the daily run (recurring.go) that gives another try to what  *)
(* waits for its journal and to reversals that could not be done.          *)
(*                                                                         *)
(* An error the code knows to be permanent or a validation failure is      *)
(* acknowledged; any other error is a NAK.                                 *)
(***************************************************************************)
EXTENDS FinancePosting

Message(w) == stream[proc[w].msg].msg

\* The handler fails for now: the message comes again.
Nak(w) ==
  /\ proc' = [proc EXCEPT ![w] = Idle]
  /\ Return(proc[w].msg)
  /\ UNCHANGED faults

\* The first step of the handler of each message.
Handler == [issued |-> "book", recorded |-> "receive", deleted |-> "find", cancelled |-> "look"]

Receive(w, k) ==
  LET m == stream[k].msg
  IN  /\ ProcAt(w, "idle") /\ Waiting(k)
      /\ Deliver(k)
      /\ proc' = [proc EXCEPT ![w] = [Idle EXCEPT !.pc = Handler[m.kind], !.msg = k,
                                       !.doc = m.pay, !.inv = m.inv]]
      /\ SalesIdle /\ UNCHANGED <<books, period, faults, incidents>>

-----------------------------------------------------------------------------
\* SalesInvoiceIssued: an AR invoice, posted, once, with its journal or a draft
\* in the same transaction.
SalesInvoiceIssued(w) ==
  LET i == proc[w].inv
  IN  /\ ProcAt(w, "book")
      /\ IF ar[i].booked THEN UNCHANGED <<ar, entries, drafts>>
         ELSE /\ ar' = [ar EXCEPT ![i] = [@ EXCEPT !.booked = TRUE, !.total = Message(w).amount]]
              /\ PostJournal(i)
      /\ Done(w)
      /\ SalesIdle /\ UNCHANGED <<doc, adv, reversals, period, incidents>>

\* SalesPaymentRecorded: no more than what is open is allocated. (What exceeds
\* it, the bank fee and the tax withheld are accounts of the same journal.)
SalesPaymentRecorded(w) ==
  LET p    == proc[w].doc
      i    == proc[w].inv
      open == Outstanding(i)
  IN  /\ ProcAt(w, "receive")
      /\ IF doc[p].status # "NONE" THEN Done(w)
         ELSE IF ~ar[i].booked THEN Nak(w)
         ELSE IF open = 0 THEN Goes(w, "advance")
         ELSE /\ proc' = [proc EXCEPT ![w].pc = "insert",
                            ![w].amount = IF Amount[p] < open THEN Amount[p] ELSE open]
              /\ UNCHANGED <<stream, faults>>
      /\ SalesIdle /\ UNCHANGED <<books, period, incidents>>

\* salesPaymentAdvance: nothing is open, the money waits as an advance, once per
\* sales payment. Its journal is part of it; in a closed period it is refused.
SalesPaymentAdvance(w) ==
  LET p == proc[w].doc
  IN  /\ ProcAt(w, "advance")
      /\ IF adv[p] # "NONE" THEN UNCHANGED <<adv, incidents>>
         ELSE IF period = "OPEN" THEN adv' = [adv EXCEPT ![p] = "POSTED"] /\ UNCHANGED incidents
         ELSE incidents' = Noted(p, {"refused"}) /\ UNCHANGED adv
      /\ Done(w)
      /\ SalesIdle /\ UNCHANGED <<ar, doc, entries, reversals, drafts, period>>

\* Mutant: nothing is known of the payment, so there is nothing to take back.
NothingToVoid(w) == Done(w)

\* The payment's own message may still be on its way.
NotYetHere(w) == Nak(w)

\* SalesPaymentDeleted: the receipt is voided, or the advance. An advance that
\* cannot be voided is left to people (tellFinance).
SalesPaymentDeleted(w) ==
  LET p == proc[w].doc
  IN  /\ ProcAt(w, "find")
      /\ IF doc[p].status = "POSTED" THEN Goes(w, "void") /\ UNCHANGED <<adv, incidents>>
         ELSE IF doc[p].status = "NONE" /\ adv[p] = "NONE"
         THEN NotYetHere(w) /\ UNCHANGED <<adv, incidents>>
         ELSE /\ Done(w)
              /\ IF doc[p].status = "NONE" /\ adv[p] = "POSTED"
                 THEN IF period = "OPEN"
                      THEN adv' = [adv EXCEPT ![p] = "VOID"] /\ UNCHANGED incidents
                      ELSE incidents' = Noted(p, {"told"}) /\ UNCHANGED adv
                 ELSE UNCHANGED <<adv, incidents>>
      /\ SalesIdle /\ UNCHANGED <<ar, doc, entries, reversals, drafts, period>>

\* SetPaymentSalesReversal: sales has deleted it, whether or not it is VOID.
MarkPayment(x) ==
  LET d == proc[x].doc
  IN  /\ ProcAt(x, "mark")
      /\ doc' = [doc EXCEPT ![d].flagged = TRUE]
      /\ Done(x)
      /\ SalesIdle /\ UNCHANGED <<ar, adv, entries, reversals, drafts, period, incidents>>

\* Mutant: nothing is booked, so there is nothing to take back.
NothingBooked(x) == Done(x)

\* The invoice's own message may still be on its way.
NotYetBooked(x) == Nak(x)

\* SalesInvoiceCancelled, reverseSalesInvoice: what is open is credited. The run
\* has the invoice in its list.
SalesInvoiceCancelled(x) ==
  LET i == proc[x].inv
  IN  /\ ProcAt(x, "look")
      /\ IF ByMessage(x) /\ ~ar[i].booked THEN NotYetBooked(x)
         ELSE /\ proc' = [proc EXCEPT ![x].pc = IF Outstanding(i) = 0 THEN "settle" ELSE "credit",
                                      ![x].ok = Outstanding(i) = 0, ![x].method = "credit note"]
              /\ UNCHANGED <<stream, faults>>
      /\ SalesIdle /\ UNCHANGED <<books, period, incidents>>

\* SetInvoiceSalesReversal.
MarkInvoice(x) ==
  LET i == proc[x].inv
  IN  /\ ProcAt(x, "settle")
      /\ ar' = [ar EXCEPT ![i].cancelled = TRUE, ![i].settled = proc[x].ok]
      /\ Done(x)
      /\ SalesIdle /\ UNCHANGED <<doc, adv, entries, reversals, drafts, period, incidents>>

-----------------------------------------------------------------------------
(***************************************************************************)
(* RunDue: the drafts of the posting log first, then the pending reversals. *)
(* What fails is recorded, and the run goes on.                            *)
(***************************************************************************)
\* Mutant: only what has no reversal on record is tried again.
UnmarkedReversals == {d \in Docs : doc[d].status = "POSTED" /\ ~doc[d].flagged}

\* PendingSalesReversals.
PendingReversals ==
  {d \in Docs : doc[d].flagged /\ doc[d].status = "POSTED"}
    \cup {i \in Invoices : ar[i].cancelled /\ ~ar[i].settled}

Run == [Idle EXCEPT !.pc = "next", !.run = "postings", !.todo = drafts]

\* On the tick.
RunDue(w) ==
  /\ ProcAt(w, "idle")
  /\ drafts \cup PendingReversals # {}
  /\ proc' = [proc EXCEPT ![w] = Run]
  /\ SalesIdle /\ UNCHANGED <<books, period, stream, faults, incidents>>

\* A draft is read again before it is retried: it may be gone.
NextItem(x, d) ==
  /\ ProcAt(x, "next")
  /\ d \in proc[x].todo
  /\ LET rest == [proc[x] EXCEPT !.todo = @ \ {d}]
     IN  proc' = [proc EXCEPT ![x] =
           IF proc[x].run = "postings"
           THEN IF d \in drafts THEN [rest EXCEPT !.pc = "post", !.doc = d] ELSE rest
           ELSE IF d \in Docs THEN [rest EXCEPT !.pc = "void", !.doc = d]
                              ELSE [rest EXCEPT !.pc = "look", !.inv = d]]
  /\ SalesIdle /\ UNCHANGED <<books, period, stream, faults, incidents>>

\* The list of reversals is read when the postings are done.
NextList(x) ==
  /\ ProcAt(x, "next") /\ proc[x].todo = {}
  /\ proc' = [proc EXCEPT ![x] =
       IF proc[x].run = "postings" /\ PendingReversals # {}
       THEN [Idle EXCEPT !.pc = "next", !.run = "reversals", !.todo = PendingReversals]
       ELSE Idle]
  /\ SalesIdle /\ UNCHANGED <<books, period, stream, faults, incidents>>

AutoPostStep(x) ==
  \/ SalesInvoiceIssued(x) \/ SalesPaymentRecorded(x) \/ SalesPaymentAdvance(x)
  \/ SalesPaymentDeleted(x) \/ MarkPayment(x)
  \/ SalesInvoiceCancelled(x) \/ MarkInvoice(x)
  \/ NextList(x) \/ \E d \in proc[x].todo : NextItem(x, d)

FinanceStep(x) == PostingStep(x) \/ AutoPostStep(x)

\* A call fails or the process dies. Of a run only the item at hand is lost when
\* it fails, all that is left when the process dies.
FinanceFails(x) ==
  /\ ~ProcAt(x, "idle")
  /\ Fault
  /\ proc' = [proc EXCEPT ![x] = Idle] \/ (InRun(x) /\ proc' = [proc EXCEPT ![x] = Rest(x)])
  /\ IF ByMessage(x) THEN Return(proc[x].msg) ELSE UNCHANGED stream
  /\ incidents' = IF ProcAt(x, "journal") THEN Noted(proc[x].doc, {"crashed"}) ELSE incidents
  /\ SalesIdle /\ UNCHANGED <<books, period>>

\* A handler is slow: its message is delivered again while it goes on (AckWait).
AckLate(w) ==
  /\ ByMessage(w) /\ Fault
  /\ stream[proc[w].msg].state = "out"
  /\ Return(proc[w].msg)
  /\ SalesIdle /\ UNCHANGED <<books, period, proc, incidents>>

\* RunSchedules at the desk.
RunSchedules(c) == Starts(c, "run", Run)
=============================================================================
