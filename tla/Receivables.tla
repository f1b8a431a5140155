---------------------------- MODULE Receivables ----------------------------
(***************************************************************************)
(* Sales and finance together: requests of people on either side, the      *)
(* messages from sales to finance, finance's handlers and its daily run,   *)
(* interleaved over the same invoices and payments.                        *)
(***************************************************************************)
EXTENDS SalesBilling, FinanceAutoPost

Init ==
  /\ bill = [i \in Invoices |-> [status |-> "NONE", amount |-> 0]]
  /\ pay = [p \in Payments |-> [status |-> "none", inv |-> NoInvoice, proof |-> NoProof]]
  /\ proof = [x \in Proofs |-> [status |-> "NONE", inv |-> NoInvoice, pay |-> NoDoc]]
  /\ req = [a \in Staff |-> NoReq]
  /\ ar = [i \in Invoices |-> [booked |-> FALSE, total |-> 0, allocated |-> 0,
                               cancelled |-> FALSE, settled |-> FALSE]]
  /\ doc = [d \in Docs |-> [status |-> "NONE", inv |-> NoInvoice, amount |-> 0,
                            method |-> "receipt", flagged |-> FALSE]]
  /\ adv = [p \in Payments |-> "NONE"]
  /\ entries = {}
  /\ reversals = {}
  /\ drafts = {}
  /\ period \in {"OPEN", "CLOSED"}
  /\ proc = [x \in Processes |-> Idle]
  /\ BusInit
  /\ ops = 0
  /\ desk = 0
  /\ faults = 0
  /\ incidents = [x \in Invoices \cup Docs \cup Proofs |-> {}]

Next ==
  \/ SalesRequest
  \/ \E a \in Staff : SalesStep(a) \/ RequestFails(a)
  \/ \E w \in Workers : RunDue(w) \/ \E k \in DOMAIN stream : Receive(w, k)
  \/ \E c \in Clerks : DeskRequest(c) \/ RunSchedules(c)
  \/ \E to \in {"OPEN", "CLOSED"} : SetPeriod(to)
  \/ \E x \in Processes : FinanceStep(x) \/ FinanceFails(x)
  \/ \E w \in Workers : AckLate(w)

Spec == Init /\ [][Next]_vars

\* Requests and handlers run to their end, messages are delivered, and the
\* daily tick comes.
Fairness ==
  /\ \A a \in Staff : WF_vars(SalesStep(a))
  /\ \A x \in Processes : WF_vars(FinanceStep(x))
  /\ \A w \in Workers : WF_vars(\E k \in DOMAIN stream : Receive(w, k)) /\ SF_vars(RunDue(w))

FairSpec == Spec /\ Fairness

-----------------------------------------------------------------------------
Letters == [msg : Messages, state : LetterStates, tries : Nat]

Requests == [op : RowOps \cup {"record", "approve", "remove"},
             step : {"write", "insert", "publish", "decide", "delete"},
             inv : Invoices \cup {NoInvoice}, row : Bills \cup {NoRow}, amount : Amounts \cup {0},
             pay : Payments \cup {NoDoc}, proof : Proofs \cup {NoProof}, letter : Messages]

Pcs == {"book", "receive", "advance", "insert", "commit", "journal", "find", "void", "reverse",
        "mark", "look", "credit", "note", "settle", "next", "post"}

Handlers == [pc : Pcs, msg : Nat, run : {"none", "postings", "reversals"},
             todo : SUBSET (Docs \cup Invoices), doc : Docs \cup Invoices \cup {NoDoc},
             inv : Invoices \cup {NoInvoice}, amount : Nat, seen : Int, method : Methods,
             ok : BOOLEAN]

\* A message says which invoice or payment it is about.
Addressed(m) ==
  /\ m.kind \in {"issued", "cancelled", "recorded"} => m.inv \in Invoices
  /\ m.kind \in {"recorded", "deleted"} => m.pay \in Payments

\* What a request in flight has read and is about to publish.
Requested(r) ==
  /\ r.step = "write" => r.op \in RowOps /\ r.inv \in Invoices /\ r.row \in Bills
  /\ r.op = "revise" => r.amount \in Amounts
  /\ r.op \in {"record", "approve", "remove"} => r.pay \in Payments
  /\ r.step \in {"insert", "decide", "delete"} => r.op \in {"record", "approve", "remove"}
  /\ r.step = "insert" => r.inv \in Invoices
  /\ r.op = "approve" => r.proof \in Proofs
  /\ r.step = "publish" => Addressed(r.letter)

\* What a handler has at hand where it is: the steps on an invoice have one, the
\* steps on a receipt have a receipt, and a message is in the stream.
Handling(x, h, messages) ==
  /\ h.msg \in {0} \cup messages
  /\ h.msg # 0 => x \in Workers /\ h.run = "none"
  /\ h.pc \in {"book", "receive", "advance", "insert", "commit", "look", "credit", "note",
               "settle"} => h.inv \in Invoices
  /\ h.pc \in {"receive", "advance", "find"} => h.doc \in Payments
  /\ h.pc \in {"journal", "void", "reverse", "mark"} => h.doc \in Docs
  /\ h.pc = "post" => h.doc \in Docs \cup Invoices
  /\ h.pc \in {"insert", "commit"} /\ h.msg # 0 => h.doc \in Payments
  /\ h.pc \in {"book", "receive", "advance", "find", "journal"} => h.msg # 0
  /\ h.pc = "next" => h.run # "none"

SalesTyped ==
  /\ bill \in [Invoices -> Bills]
  /\ pay \in [Payments -> PaymentRows]
  /\ proof \in [Proofs -> ProofRows]
  /\ req \in [Staff -> Requests \cup {NoReq}]
  /\ \A p \in Payments : pay[p].status = "live" => pay[p].inv \in Invoices
  /\ \A x \in Proofs : proof[x].status # "NONE" => proof[x].inv \in Invoices
  /\ \A a \in Staff : req[a] # NoReq => Requested(req[a])

BooksTyped ==
  /\ ar \in [Invoices -> Receivables]
  /\ doc \in [Docs -> Documents]
  /\ adv \in [Payments -> {"NONE", "POSTED", "VOID"}]
  /\ entries \subseteq Docs \cup Invoices
  /\ reversals \subseteq Docs
  /\ drafts \subseteq Docs \cup Invoices
  /\ \A d \in Docs : doc[d].status = "POSTED" => doc[d].inv \in Invoices

ProcsTyped ==
  /\ proc \in [Processes -> Handlers \cup {Idle}]
  /\ \A x \in Processes : proc[x] # Idle => Handling(x, proc[x], DOMAIN stream)

StreamTyped ==
  /\ stream \in Seq(Letters)
  /\ \A k \in DOMAIN stream : Addressed(stream[k].msg)

CountsTyped ==
  /\ period \in {"OPEN", "CLOSED"}
  /\ ops \in 0..MaxOps /\ desk \in 0..MaxDesk /\ faults \in 0..MaxFaults
  /\ incidents \in [Invoices \cup Docs \cup Proofs -> SUBSET Incidents]

TypeOK == SalesTyped /\ BooksTyped /\ ProcsTyped /\ StreamTyped /\ CountsTyped

-----------------------------------------------------------------------------
(***************************************************************************)
(* Sales.                                                                  *)
(***************************************************************************)
Letter(k) == stream[k].msg
SentOrToSend(m) == \/ \E k \in DOMAIN stream : Letter(k) = m
                   \/ \E a \in Staff : req[a].step = "publish" /\ req[a].letter = m

\* billing.go: "Finance booked it when it was issued, so finance has to take it
\* back out". Of an invoice that is cancelled in sales and that finance was told
\* of, finance is told the cancellation - unless that message was lost, or the
\* invoice written by two requests at a time.
CancelledIsTold ==
  \A i \in Invoices :
    /\ bill[i].status = "batal"
    /\ incidents[i] \cap {"overwritten", "unsent"} = {}
    /\ \E k \in DOMAIN stream : Letter(k).kind = "issued" /\ Letter(k).inv = i
    => SentOrToSend(Cancelled(i))

\* billing.go: "An issued invoice is already booked as a receivable ... neither
\* can change": what finance booked is what the invoice says.
BookedAsBilled ==
  \A i \in Invoices :
    ar[i].booked /\ "overwritten" \notin incidents[i] =>
      bill[i].status # "diajukan" /\ ar[i].total = bill[i].amount

\* Finance takes back only what sales has taken back: a receipt it has marked is of
\* a payment that was deleted, an invoice it has marked was cancelled - unless the
\* invoice was written by two requests at a time.
TakenBackInv ==
  /\ \A p \in Payments : doc[p].flagged => pay[p].status = "deleted"
  /\ \A i \in Invoices : ar[i].cancelled =>
       bill[i].status = "batal" \/ "overwritten" \in incidents[i]

\* portal.go: "undo this payment so it is not counted twice". A proof has one
\* payment, the one it was approved with, whoever decides it at the same time.
\* Others are about to be deleted - unless an approval was cut short.
ProofCountedOnce ==
  \A p \in Payments :
    LET x == pay[p].proof
    IN  Live(p) /\ x # NoProof =>
          \/ proof[x].status = "APPROVED" /\ proof[x].pay = p
          \/ "left" \in incidents[x]
          \/ \E a \in Staff : req[a].op = "approve" /\ req[a].pay = p

-----------------------------------------------------------------------------
(***************************************************************************)
(* Finance.                                                                *)
(***************************************************************************)
\* A message finance has acknowledged has had its effect, in whatever order the
\* messages came and however often: an invoice is booked, a payment received or
\* kept as an advance or refused, a deleted payment's receipt or advance VOID or
\* on record as to be, a cancelled invoice marked.
Effected(m) ==
  CASE m.kind = "issued"    -> ar[m.inv].booked
    [] m.kind = "recorded"  -> \/ doc[m.pay].status # "NONE" \/ adv[m.pay] # "NONE"
                               \/ "refused" \in incidents[m.pay]
    [] m.kind = "deleted"   -> /\ doc[m.pay].status # "NONE" \/ adv[m.pay] # "NONE"
                               /\ doc[m.pay].status = "POSTED" =>
                                    doc[m.pay].flagged \/ adv[m.pay] # "NONE"
                               /\ adv[m.pay] = "POSTED" =>
                                    doc[m.pay].status # "NONE" \/ "told" \in incidents[m.pay]
    [] m.kind = "cancelled" -> ar[m.inv].cancelled

AckedIsDone == \A k \in DOMAIN stream : stream[k].state = "acked" => Effected(Letter(k))

\* The books agree with the documents: a document that counts has its journal,
\* waits for it in the posting log, or is about to - unless the handler died in
\* between; one that is VOID has its journal reversed and nothing waiting,
\* unless it was voided before its journal was posted. So a receivable.
BooksInv ==
  /\ entries \cap drafts = {}
  /\ \A d \in Docs :
       /\ d \in reversals => d \in entries /\ doc[d].status = "VOID"
       /\ d \in entries \cup drafts => doc[d].status # "NONE"
       /\ doc[d].status = "POSTED" =>
            \/ d \in entries \cup drafts \/ "crashed" \in incidents[d]
            \/ \E x \in Processes : ProcAt(x, "journal") /\ proc[x].doc = d
       /\ doc[d].status = "VOID" =>
            d \in reversals \/ d \notin entries \cup drafts \/ "late" \in incidents[d]
  /\ \A i \in Invoices : ar[i].booked <=> i \in entries \cup drafts

\* No more is allocated to an invoice than it is worth, unless two allocations
\* crossed between the check of one and its commit.
AllocInv ==
  \A i \in Invoices : "crossed" \in incidents[i] \/ ar[i].allocated <= ar[i].total

\* controls.go: "stays pending: approvers get told and the daily run tries
\* again". Once the period stays open, what waits for its journal gets it, the
\* receipt of a deleted payment becomes VOID, a cancelled invoice is settled.
DailyRunCatchesUp ==
  <>[](period = "OPEN") =>
    /\ \A d \in Payments \cup Invoices : d \in drafts ~> d \notin drafts
    /\ \A p \in Payments : doc[p].flagged ~> doc[p].status = "VOID"
    /\ \A i \in Invoices : ar[i].cancelled ~> ar[i].settled

-----------------------------------------------------------------------------
\* migrations/00013: "Sales already removed these. Finance reverses them and keeps
\* trying until it can": once the period stays open, nothing is left open for
\* good on an invoice that was cancelled.
CancelledIsClosed ==
  <>[](period = "OPEN") =>
    \A i \in Invoices : ar[i].cancelled ~> [](Outstanding(i) = 0)
=============================================================================
