---------------------------- MODULE SalesBilling ----------------------------
(***************************************************************************)
(* Invoices, payments and transfer proofs in sales (internal/sales/app/    *)
(* billing.go, portal.go). A request reads an invoice and checks it, then  *)
(* writes the whole row back by id, then tells finance: three steps with   *)
(* no lock and no transaction around them.                                 *)
(***************************************************************************)
EXTENDS ReceivablesStore

Exists(i) == bill[i].status # "NONE"
Live(p) == pay[p].status = "live"

\* PaidTotal = 0.
Unpaid(i) == \A p \in Payments : ~(Live(p) /\ pay[p].inv = i)

Free(a) == req[a].step = "idle"
At(a, op, step) == req[a].op = op /\ req[a].step = step

\* The id of a payment is fresh.
Fresh(p) == pay[p].status = "none" /\ \A a \in Staff : req[a].pay # p

Begin(op) == op \in Menu /\ ops < MaxOps /\ ops' = ops + 1

Elsewhere == UNCHANGED <<books, period, proc, desk>>

-----------------------------------------------------------------------------
(***************************************************************************)
(* Requests of one step.                                                   *)
(***************************************************************************)
SubmitInvoice(i, n) ==
  /\ Begin("submit")
  /\ ~Exists(i)
  /\ bill' = [bill EXCEPT ![i] = [status |-> "diajukan", amount |-> n]]
  /\ Elsewhere /\ UNCHANGED <<pay, proof, req, stream, faults, incidents>>

\* The client uploads a proof on the share page, for an invoice that was sent.
SubmitProof(x, i) ==
  /\ Begin("proof")
  /\ proof[x].status = "NONE" /\ bill[i].status = "terkirim"
  /\ proof' = [proof EXCEPT ![x] = [status |-> "PENDING", inv |-> i, pay |-> NoDoc]]
  /\ Elsewhere /\ UNCHANGED <<bill, pay, req, stream, faults, incidents>>

\* The check and DecidePaymentProof's own condition are the same.
RejectProof(x) ==
  /\ Begin("reject")
  /\ proof[x].status = "PENDING"
  /\ proof' = [proof EXCEPT ![x].status = "REJECTED"]
  /\ Elsewhere /\ UNCHANGED <<bill, pay, req, stream, faults, incidents>>

-----------------------------------------------------------------------------
(***************************************************************************)
(* Requests that read an invoice, write its row, and tell finance.         *)
(***************************************************************************)
RowOps == {"revise", "issue", "cancel", "attach", "detach"}

\* Mutant: an invoice that was issued may still be revised.
AdmitsLate(op, i) ==
  /\ Exists(i)
  /\ op = "issue" => bill[i].status = "diajukan"
  /\ op \in {"cancel", "attach"} => bill[i].status # "batal"
  /\ op \in {"revise", "cancel"} => Unpaid(i)

\* attach and detach: the tax invoice (faktur pajak) of an invoice.
Admits(op, i) ==
  /\ Exists(i)
  /\ op \in {"revise", "issue"} => bill[i].status = "diajukan"
  /\ op \in {"cancel", "attach"} => bill[i].status # "batal"
  /\ op \in {"revise", "cancel"} => Unpaid(i)

LoadInvoice(a, op, i, n) ==
  /\ Free(a) /\ Begin(op)
  /\ op \in RowOps /\ Admits(op, i)
  /\ req' = [req EXCEPT ![a] = [NoReq EXCEPT !.op = op, !.step = "write", !.inv = i,
                                             !.row = bill[i], !.amount = n]]
  /\ Elsewhere /\ UNCHANGED <<bill, pay, proof, stream, faults, incidents>>

Revised(op) == IF op = "revise" THEN Amounts ELSE {0}

\* Mutant: a cancelled invoice keeps its status.
StatusKept(r) ==
  CASE r.op = "revise" -> [r.row EXCEPT !.amount = r.amount]
    [] r.op = "issue"  -> [r.row EXCEPT !.status = "terkirim"]
    [] OTHER           -> r.row

NewRow(r) ==
  CASE r.op = "revise" -> [r.row EXCEPT !.amount = r.amount]
    [] r.op = "issue"  -> [r.row EXCEPT !.status = "terkirim"]
    [] r.op = "cancel" -> [r.row EXCEPT !.status = "batal"]
    [] OTHER           -> r.row

\* Mutant: finance is told of a cancelled invoice only if it never was issued.
TellsUnissued(r) == r.op = "issue" \/ (r.op = "cancel" /\ r.row.status = "diajukan")

\* Finance is told of an issued invoice, and of a cancelled one if it was issued.
Tells(r) == r.op = "issue" \/ (r.op = "cancel" /\ r.row.status # "diajukan")

LetterOf(r) == IF r.op = "issue" THEN Issued(r.inv, r.row.amount) ELSE Cancelled(r.inv)

WriteInvoice(a) ==
  LET r == req[a]
  IN  /\ r.op \in RowOps /\ r.step = "write"
      /\ bill' = [bill EXCEPT ![r.inv] = NewRow(r)]
      /\ incidents' = Noted(r.inv, If("overwritten", bill[r.inv] # r.row))
      /\ req' = [req EXCEPT ![a] =
           IF Tells(r) THEN [r EXCEPT !.step = "publish", !.letter = LetterOf(r)] ELSE NoReq]
      /\ Elsewhere /\ UNCHANGED <<pay, proof, stream, ops, faults>>

-----------------------------------------------------------------------------
(***************************************************************************)
(* Payments. An approval (ApproveProof) records a payment, and then decides *)
(* the proof unless somebody else has: its payment is deleted again.       *)
(***************************************************************************)
Payable(i) == bill[i].status \in {"diajukan", "terkirim"}

RecordPayment(a, p, i) ==
  /\ Free(a) /\ Begin("record")
  /\ Fresh(p) /\ Payable(i)
  /\ req' = [req EXCEPT ![a] = [NoReq EXCEPT !.op = "record", !.step = "insert", !.inv = i,
                                             !.pay = p]]
  /\ Elsewhere /\ UNCHANGED <<bill, pay, proof, stream, faults, incidents>>

ApproveProof(a, x, p) ==
  /\ Free(a) /\ Begin("approve")
  /\ proof[x].status = "PENDING"
  /\ Fresh(p) /\ Payable(proof[x].inv)
  /\ req' = [req EXCEPT ![a] = [NoReq EXCEPT !.op = "approve", !.step = "insert",
                                             !.inv = proof[x].inv, !.pay = p, !.proof = x]]
  /\ Elsewhere /\ UNCHANGED <<bill, pay, proof, stream, faults, incidents>>

InsertPayment(a) ==
  LET r == req[a]
  IN  /\ r.step = "insert"
      /\ pay' = [pay EXCEPT ![r.pay] = [status |-> "live", inv |-> r.inv, proof |-> r.proof]]
      /\ req' = [req EXCEPT ![a].step = "publish", ![a].letter = Recorded(r.pay, r.inv)]
      /\ Elsewhere /\ UNCHANGED <<bill, proof, stream, ops, faults, incidents>>

\* Mutant: the proof is decided whatever became of it meanwhile.
ApprovesAnyway(x) == TRUE

StillPending(x) == proof[x].status = "PENDING"

\* DecidePaymentProof. The payment of who loses is looked up to be deleted.
DecideProof(a) ==
  LET r == req[a]
  IN  /\ At(a, "approve", "decide")
      /\ IF StillPending(r.proof)
         THEN /\ proof' = [proof EXCEPT ![r.proof].status = "APPROVED", ![r.proof].pay = r.pay]
              /\ req' = [req EXCEPT ![a] = NoReq]
         ELSE /\ req' = [req EXCEPT ![a] = IF Live(r.pay) THEN [r EXCEPT !.step = "delete"]
                                                           ELSE NoReq]
              /\ UNCHANGED proof
      /\ Elsewhere /\ UNCHANGED <<bill, pay, stream, ops, faults, incidents>>

\* DeletePayment reads the payment first; the delete itself may find it gone.
RemovePayment(a, p) ==
  /\ Free(a) /\ Begin("remove")
  /\ Live(p)
  /\ req' = [req EXCEPT ![a] = [NoReq EXCEPT !.op = "remove", !.step = "delete", !.pay = p]]
  /\ Elsewhere /\ UNCHANGED <<bill, pay, proof, stream, faults, incidents>>

DeletePayment(a) ==
  LET r == req[a]
  IN  /\ r.step = "delete"
      /\ pay' = [pay EXCEPT ![r.pay].status = "deleted"]
      /\ req' = [req EXCEPT ![a].step = "publish", ![a].letter = Deleted(r.pay)]
      /\ Elsewhere /\ UNCHANGED <<bill, proof, stream, ops, faults, incidents>>

-----------------------------------------------------------------------------
\* The message goes out; an approval goes on to decide its proof.
Publish(a) ==
  LET r == req[a]
  IN  /\ r.step = "publish"
      /\ Emit(r.letter)
      /\ req' = [req EXCEPT ![a] = IF r.op = "approve" /\ r.letter.kind = "recorded"
                                   THEN [r EXCEPT !.step = "decide"] ELSE NoReq]
      /\ Elsewhere /\ UNCHANGED <<bill, pay, proof, ops, faults, incidents>>

\* A call or a write fails, or the process dies: what is done stays done.
RequestFails(a) ==
  LET r == req[a]
  IN  /\ ~Free(a) /\ Fault
      /\ req' = [req EXCEPT ![a] = NoReq]
      /\ incidents' = [x \in DOMAIN incidents |->
           incidents[x] \cup If("unsent", r.step = "publish" /\ x = Subject(r.letter))
                        \cup If("left", r.op = "approve" /\ r.step # "insert" /\ x = r.proof)]
      /\ Elsewhere /\ UNCHANGED <<bill, pay, proof, stream, ops>>

SalesStep(a) ==
  \/ WriteInvoice(a) \/ InsertPayment(a) \/ DecideProof(a) \/ DeletePayment(a) \/ Publish(a)

SalesRequest ==
  \/ \E i \in Invoices, n \in Amounts : SubmitInvoice(i, n)
  \/ \E x \in Proofs : RejectProof(x) \/ \E i \in Invoices : SubmitProof(x, i)
  \/ \E a \in Staff :
       \/ \E op \in RowOps, i \in Invoices : \E n \in Revised(op) : LoadInvoice(a, op, i, n)
       \/ \E p \in Payments :
            \/ \E i \in Invoices : RecordPayment(a, p, i)
            \/ \E x \in Proofs : ApproveProof(a, x, p)
            \/ RemovePayment(a, p)
=============================================================================
