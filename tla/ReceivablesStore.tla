-------------------------- MODULE ReceivablesStore --------------------------
(***************************************************************************)
(* What the sales service keeps of its invoices, payments and transfer     *)
(* proofs (schema "sales"), what finance keeps of the same in its books    *)
(* (schema "finance"), the messages between the two, and the local state   *)
(* of the requests and handlers on either side.                            *)
(*                                                                         *)
(* Every document is dated in one fiscal period and the journal mappings   *)
(* are active, so a journal can be posted exactly when the period is open. *)
(***************************************************************************)
EXTENDS Integers, EventBus

CONSTANTS
  Invoices,      \* ids of sales invoices, and of the AR invoices finance makes of them
  Payments,      \* ids of sales payments, and of the receipts finance makes of them
  Vouchers,      \* ids of what finance allocates of its own: receipts, credit notes, write-offs
  Proofs,        \* ids of transfer proofs a client uploads
  Staff,         \* people at work in sales
  Workers,       \* finance processes consuming "finance-events"
  Clerks,        \* people at work in finance
  Amount,        \* Amount[p]: what payment p brings
  Amounts,       \* what an invoice or a receipt of a clerk may amount to
  NoInvoice, NoDoc, NoProof, NoRow,   \* SQL NULL or "none"
  Menu,          \* bound: the kinds of request people make
  MaxOps,        \* bound: requests in sales
  MaxDesk,       \* bound: requests in finance
  MaxFaults      \* bound: crashes, failing calls and lost acks

Docs == Payments \cup Vouchers
Processes == Workers \cup Clerks

ASSUME ReceivablesAssumption ==
  /\ Amounts \subseteq Nat \ {0}
  /\ Amount \in [Payments -> Amounts]
  /\ NoDoc \notin Docs /\ NoInvoice \notin Invoices /\ NoProof \notin Proofs
  /\ Payments \cap Vouchers = {} /\ Invoices \cap Docs = {}
  /\ Proofs \cap (Invoices \cup Docs) = {}
  /\ Workers \cap Clerks = {}
  /\ MaxOps \in Nat /\ MaxDesk \in Nat /\ MaxFaults \in Nat

VARIABLES
  \* sales
  bill,        \* sales.invoices: the row of each invoice
  pay,         \* sales.payments
  proof,       \* sales.payment_proofs
  req,         \* req[a]: the request a has in flight
  \* finance
  ar,          \* finance.invoices, with what is allocated to them
  doc,         \* finance.payments
  adv,         \* finance.advances made of a sales payment: their status
  entries,     \* the documents and invoices with a posted journal entry
  reversals,   \* the documents whose entry has a reversing entry
  drafts,      \* posting_logs with status draft: what waits for its journal
  period,      \* the status of the fiscal period
  proc,        \* proc[x]: the handler or request x runs
  \* bounds
  ops, desk, faults,
  \* history, read by properties only
  incidents    \* incidents[x]: what went wrong around x

sales == <<bill, pay, proof, req>>
books == <<ar, doc, adv, entries, reversals, drafts>>
vars  == <<bill, pay, proof, req, ar, doc, adv, entries, reversals, drafts, period, proc,
           stream, ops, desk, faults, incidents>>

\* sales.invoices; "NONE" before the insert.
BillStates == {"NONE", "diajukan", "terkirim", "batal"}
Bills == [status : BillStates, amount : Amounts \cup {0}]

PaymentRows == [status : {"none", "live", "deleted"}, inv : Invoices \cup {NoInvoice},
                proof : Proofs \cup {NoProof}]
ProofRows == [status : {"NONE", "PENDING", "APPROVED", "REJECTED"},
              inv : Invoices \cup {NoInvoice}, pay : Payments \cup {NoDoc}]

Receivables == [booked : BOOLEAN, total : Nat, allocated : Int,
                cancelled : BOOLEAN, settled : BOOLEAN]
Methods == {"receipt", "credit note", "write-off"}
Documents == [status : {"NONE", "POSTED", "VOID"}, inv : Invoices \cup {NoInvoice},
              amount : Nat, method : Methods, flagged : BOOLEAN]

\* The messages between the two: white.sales.invoice.issued and .cancelled,
\* white.sales.payment.recorded and .deleted.
Kinds == {"issued", "cancelled", "recorded", "deleted"}
Messages == [kind : Kinds, inv : Invoices \cup {NoInvoice}, pay : Payments \cup {NoDoc},
             amount : Amounts \cup {0}]

NoLetter == [kind |-> "issued", inv |-> NoInvoice, pay |-> NoDoc, amount |-> 0]
Issued(i, n) == [kind |-> "issued", inv |-> i, pay |-> NoDoc, amount |-> n]
Cancelled(i) == [kind |-> "cancelled", inv |-> i, pay |-> NoDoc, amount |-> 0]
Recorded(p, i) == [kind |-> "recorded", inv |-> i, pay |-> p, amount |-> 0]
Deleted(p) == [kind |-> "deleted", inv |-> NoInvoice, pay |-> p, amount |-> 0]

Subject(m) == IF m.kind \in {"issued", "cancelled"} THEN m.inv ELSE m.pay

(***************************************************************************)
(* Local state.                                                            *)
(***************************************************************************)
\* A request in sales: the step it is at, the invoice as it read it, what it
\* was asked for, and the message it is about to publish.
NoReq == [op |-> "none", step |-> "idle", inv |-> NoInvoice, row |-> NoRow, amount |-> 0,
          pay |-> NoDoc, proof |-> NoProof, letter |-> NoLetter]

\* A finance process: where it is, the message it handles (0: none), the daily
\* run it is in with what is left to do, the document, invoice, amount and
\* method at hand, what was allocated when it looked, and how a credit went.
Idle == [pc |-> "idle", msg |-> 0, run |-> "none", todo |-> {}, doc |-> NoDoc,
         inv |-> NoInvoice, amount |-> 0, seen |-> 0, method |-> "receipt", ok |-> FALSE]

(***************************************************************************)
(* Incidents, recorded for the properties:                                 *)
(*   overwritten  an invoice was written over a change its writer missed   *)
(*   unsent       a request ended before it told finance what it had done   *)
(*   left         an approval ended before the proof was decided            *)
(*   refused      finance dropped a payment for good                        *)
(*   crossed      something else was allocated to the invoice between the   *)
(*                check of an allocation and its commit                     *)
(*   crashed      a handler ended between a receipt and its journal         *)
(*   late         a document was voided before its journal was posted       *)
(*   told         an advance could not be voided, finance was told          *)
(***************************************************************************)
Incidents == {"overwritten", "unsent", "left", "refused", "crossed", "crashed", "late", "told"}

If(kind, happened) == IF happened THEN {kind} ELSE {}
Noted(x, kinds) == [incidents EXCEPT ![x] = @ \cup kinds]

Fault == faults < MaxFaults /\ faults' = faults + 1
=============================================================================
