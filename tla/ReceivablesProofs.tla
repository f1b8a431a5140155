-------------------------- MODULE ReceivablesProofs --------------------------
(***************************************************************************)
(* Proofs about Receivables, for every value of its constants: the types   *)
(* of its variables, with what requests and handlers have at hand.         *)
(***************************************************************************)
EXTENDS Receivables, SequenceTheorems, TLAPS

-----------------------------------------------------------------------------
(***************************************************************************)
(* Messages.                                                               *)
(***************************************************************************)
LEMMA AmountsAreNumbers ==
  /\ Amounts \subseteq Nat /\ \A n \in Amounts \cup {0} : n \in Nat
  /\ \A p \in Payments : Amount[p] \in Nat
  /\ Payments \subseteq Docs /\ Vouchers \subseteq Docs
<1>1. Amounts \subseteq Nat
  BY ReceivablesAssumption
<1>2. Amount \in [Payments -> Amounts]
  BY ReceivablesAssumption
<1>3. ASSUME NEW p \in Payments PROVE Amount[p] \in Nat
  BY <1>1, <1>2
<1>4. ASSUME NEW n \in Amounts \cup {0} PROVE n \in Nat
  BY <1>1
<1> QED BY <1>1, <1>3, <1>4 DEF Docs

LEMMA LetterTypes ==
  ASSUME NEW i \in Invoices
  PROVE /\ \A n \in Amounts \cup {0} : Issued(i, n) \in Messages /\ Addressed(Issued(i, n))
        /\ Cancelled(i) \in Messages /\ Addressed(Cancelled(i))
        /\ \A p \in Payments : Recorded(p, i) \in Messages /\ Addressed(Recorded(p, i))
BY DEF Messages, Kinds, Addressed, Issued, Cancelled, Recorded

LEMMA DeletedTypes ==
  ASSUME NEW p \in Payments PROVE Deleted(p) \in Messages /\ Addressed(Deleted(p))
BY DEF Messages, Kinds, Addressed, Deleted

\* What becomes of the stream.
LEMMA StreamPut ==
  ASSUME NEW s \in Seq(Letters), NEW k \in DOMAIN s, NEW e \in Letters
  PROVE [s EXCEPT ![k] = e] \in Seq(Letters) /\ DOMAIN [s EXCEPT ![k] = e] = DOMAIN s
<1>1. k \in 1..Len(s)
  OBVIOUS
<1> QED BY <1>1, ExceptSeq

LEMMA StreamGrows ==
  ASSUME StreamTyped, NEW msg \in Messages, Addressed(msg), Emit(msg)
  PROVE /\ StreamTyped'
        /\ DOMAIN stream' = DOMAIN stream \cup {Len(stream) + 1}
        /\ \A k \in DOMAIN stream : stream'[k] = stream[k]
        /\ stream'[Len(stream) + 1].msg = msg
        /\ stream'[Len(stream) + 1].state = "waiting"
<1> DEFINE e == [msg |-> msg, state |-> "waiting", tries |-> 0]
<1>1. e \in Letters
  BY DEF Letters, LetterStates
<1>2. stream' = Append(stream, e) /\ stream \in Seq(Letters)
  BY DEF Emit, StreamTyped
<1> HIDE DEF e
<1>3. /\ stream' \in Seq(Letters)
      /\ DOMAIN stream' = DOMAIN stream \cup {Len(stream) + 1}
      /\ \A k \in DOMAIN stream : stream'[k] = stream[k]
      /\ stream'[Len(stream) + 1] = e
  BY <1>1, <1>2
<1>4. e.msg = msg /\ e.state = "waiting"
  BY DEF e
<1> QED BY <1>3, <1>4 DEF StreamTyped

LEMMA StreamMoves ==
  ASSUME StreamTyped, NEW k \in DOMAIN stream, Deliver(k) \/ Ack(k) \/ Return(k)
  PROVE /\ StreamTyped'
        /\ DOMAIN stream' = DOMAIN stream
        /\ \A m \in DOMAIN stream : stream'[m].msg = stream[m].msg
        /\ \A m \in DOMAIN stream : stream'[m].state = "acked" =>
             stream[m].state = "acked" \/ (Ack(k) /\ m = k)
<1>1. stream[k] \in Letters /\ stream \in Seq(Letters)
  BY DEF StreamTyped
<1>2. \E e \in Letters : /\ e.msg = stream[k].msg /\ stream' = [stream EXCEPT ![k] = e]
                         /\ e.state = "acked" => stream[k].state = "acked" \/ Ack(k)
  <2>1. CASE Deliver(k)
    <3> DEFINE e == [stream[k] EXCEPT !.state = "out", !.tries = stream[k].tries + 1]
    <3>0. stream[k].tries + 1 \in Nat
      BY <1>1 DEF Letters
    <3>1. e \in Letters /\ e.msg = stream[k].msg /\ e.state # "acked"
      BY <1>1, <3>0 DEF Letters, LetterStates
    <3>2. stream' = [stream EXCEPT ![k] = e]
      BY <2>1 DEF Deliver
    <3> QED BY <3>1, <3>2
  <2>2. CASE Ack(k)
    <3> DEFINE e == [stream[k] EXCEPT !.state = "acked"]
    <3>1. e \in Letters /\ e.msg = stream[k].msg
      BY <1>1 DEF Letters, LetterStates
    <3>2. stream' = [stream EXCEPT ![k] = e]
      BY <2>2 DEF Ack
    <3> QED BY <2>2, <3>1, <3>2
  <2>3. CASE Return(k)
    <3> DEFINE e == [stream[k] EXCEPT !.state =
                  IF @ # "out" THEN @
                  ELSE IF stream[k].tries < MaxDeliver THEN "waiting" ELSE "dropped"]
    <3>1. /\ e \in Letters /\ e.msg = stream[k].msg
          /\ e.state = "acked" => stream[k].state = "acked"
      BY <1>1 DEF Letters, LetterStates
    <3>2. stream' = [stream EXCEPT ![k] = e]
      BY <2>3 DEF Return
    <3> HIDE DEF e
    <3> QED BY <3>1, <3>2
  <2> QED BY <2>1, <2>2, <2>3
<1>3. PICK e \in Letters : /\ e.msg = stream[k].msg /\ stream' = [stream EXCEPT ![k] = e]
                           /\ e.state = "acked" => stream[k].state = "acked" \/ Ack(k)
  BY <1>2
<1>4. stream' \in Seq(Letters) /\ DOMAIN stream' = DOMAIN stream
  BY <1>1, <1>3, StreamPut
<1>5. ASSUME NEW m \in DOMAIN stream
      PROVE /\ stream'[m].msg = stream[m].msg
            /\ stream'[m].state = "acked" => stream[m].state = "acked" \/ (Ack(k) /\ m = k)
  BY <1>3
<1> QED BY <1>4, <1>5 DEF StreamTyped

-----------------------------------------------------------------------------
(***************************************************************************)
(* What a step keeps.                                                      *)
(***************************************************************************)
LEMMA FaultsCount ==
  ASSUME CountsTyped, Fault PROVE faults' \in 0..MaxFaults
BY ReceivablesAssumption DEF CountsTyped, Fault

LEMMA IncidentsNoted ==
  ASSUME CountsTyped, NEW x, NEW kinds \in SUBSET Incidents
  PROVE Noted(x, kinds) \in [Invoices \cup Docs \cup Proofs -> SUBSET Incidents]
BY DEF CountsTyped, Noted

LEMMA ProcPut ==
  ASSUME ProcsTyped, NEW x \in Processes, NEW h \in Handlers \cup {Idle},
         proc' = [proc EXCEPT ![x] = h], DOMAIN stream \subseteq DOMAIN stream',
         h # Idle => Handling(x, h, DOMAIN stream')
  PROVE ProcsTyped'
<1>1. proc' \in [Processes -> Handlers \cup {Idle}]
  BY DEF ProcsTyped
<1>2. ASSUME NEW y \in Processes, proc'[y] # Idle
      PROVE Handling(y, proc'[y], DOMAIN stream')
  <2>1. CASE y = x
    BY <1>2, <2>1 DEF ProcsTyped
  <2>2. CASE y # x
    <3>1. proc'[y] = proc[y] /\ Handling(y, proc[y], DOMAIN stream)
      BY <1>2, <2>2 DEF ProcsTyped
    <3> QED BY <3>1 DEF Handling
  <2> QED BY <2>1, <2>2
<1> QED BY <1>1, <1>2 DEF ProcsTyped

LEMMA ProcsStay ==
  ASSUME ProcsTyped, UNCHANGED proc, DOMAIN stream \subseteq DOMAIN stream'
  PROVE ProcsTyped'
<1>1. ASSUME NEW y \in Processes, proc[y] # Idle
      PROVE Handling(y, proc[y], DOMAIN stream')
  BY <1>1 DEF ProcsTyped, Handling
<1> QED BY <1>1 DEF ProcsTyped

\* A process at work.
LEMMA AtWork ==
  ASSUME ProcsTyped, NEW x \in Processes, proc[x].pc # "idle"
  PROVE proc[x] \in Handlers /\ Handling(x, proc[x], DOMAIN stream)
BY DEF ProcsTyped, Idle

\* A process that starts: what it is given is put into Idle.
AnyHandler ==
  [pc : Pcs \cup {"idle"}, msg : Nat, run : {"none", "postings", "reversals"},
   todo : SUBSET (Docs \cup Invoices), doc : Docs \cup Invoices \cup {NoDoc},
   inv : Invoices \cup {NoInvoice}, amount : Nat, seen : Int, method : Methods, ok : BOOLEAN]

LEMMA IdleTyped ==
  /\ Idle \in AnyHandler
  /\ Idle.pc = "idle" /\ Idle.msg = 0 /\ Idle.run = "none" /\ Idle.todo = {}
BY DEF Idle, AnyHandler, Pcs, Methods

LEMMA RestTyped ==
  ASSUME ProcsTyped, NEW x \in Processes, proc[x].pc # "idle", NEW messages
  PROVE /\ Rest(x) \in Handlers \cup {Idle}
        /\ Rest(x) # Idle => Handling(x, Rest(x), messages)
        /\ Rest(x).pc \in {"idle", "next"} /\ Rest(x).msg = 0
<1>1. proc[x] \in Handlers
  BY AtWork
<1>2. CASE InRun(x)
  <2> DEFINE h == [Idle EXCEPT !.pc = "next", !.run = proc[x].run, !.todo = proc[x].todo]
  <2>1. Rest(x) = h
    BY <1>2 DEF Rest
  <2>2. proc[x].run \in {"none", "postings", "reversals"} /\ proc[x].todo \in SUBSET (Docs \cup Invoices)
    BY <1>1 DEF Handlers
  <2>3. h \in Handlers /\ h.pc = "next" /\ h.msg = 0 /\ h.run # "none"
    BY <1>2, <2>2, IdleTyped DEF Handlers, AnyHandler, Pcs, InRun
  <2> HIDE DEF h
  <2> QED BY <2>1, <2>3 DEF Handling
<1>3. CASE ~InRun(x)
  BY <1>3 DEF Rest, Idle
<1> QED BY <1>2, <1>3

LEMMA DoneTyped ==
  ASSUME ProcsTyped, StreamTyped, CountsTyped, NEW x \in Processes, proc[x].pc # "idle", Done(x)
  PROVE ProcsTyped' /\ StreamTyped' /\ faults' \in 0..MaxFaults
<1>1. Handling(x, proc[x], DOMAIN stream)
  BY AtWork
<1>2. /\ StreamTyped' /\ DOMAIN stream' = DOMAIN stream
      /\ faults' \in 0..MaxFaults
  <2>1. CASE ByMessage(x)
    <3>1. proc[x].msg \in DOMAIN stream
      BY <1>1, <2>1 DEF Handling, ByMessage
    <3>2. Ack(proc[x].msg) \/ Return(proc[x].msg)
      BY <2>1 DEF Done
    <3>3. UNCHANGED faults \/ Fault
      BY <2>1 DEF Done
    <3> QED BY <3>1, <3>2, <3>3, StreamMoves, FaultsCount DEF CountsTyped
  <2>2. CASE ~ByMessage(x)
    BY <2>2 DEF Done, StreamTyped, CountsTyped
  <2> QED BY <2>1, <2>2
<1>3. proc' = [proc EXCEPT ![x] = Rest(x)]
  BY DEF Done
<1>4. Rest(x) \in Handlers \cup {Idle} /\ (Rest(x) # Idle => Handling(x, Rest(x), DOMAIN stream'))
  BY RestTyped
<1>5. ProcsTyped'
  BY <1>2, <1>3, <1>4, ProcPut
<1> QED BY <1>2, <1>5

-----------------------------------------------------------------------------
(***************************************************************************)
(* Requests in sales.                                                      *)
(***************************************************************************)
LEMMA InitTyped == Init => TypeOK
<1> SUFFICES ASSUME Init PROVE TypeOK
  OBVIOUS
<1> USE DEF Init
<1>1. SalesTyped
  BY DEF SalesTyped, Bills, BillStates, PaymentRows, ProofRows
<1>2. BooksTyped
  BY DEF BooksTyped, Receivables, Documents, Methods
<1>3. ProcsTyped
  BY DEF ProcsTyped
<1>4. StreamTyped
  BY DEF StreamTyped, BusInit
<1>5. CountsTyped
  BY ReceivablesAssumption DEF CountsTyped
<1> QED BY <1>1, <1>2, <1>3, <1>4, <1>5 DEF TypeOK

LEMMA InHand ==
  ASSUME SalesTyped, NEW a \in Staff, req[a].step # "idle"
  PROVE req[a] \in Requests /\ Requested(req[a])
BY DEF SalesTyped, NoReq

\* A request goes on or ends, with what it has written.
LEMMA ReqPut ==
  ASSUME SalesTyped, NEW a \in Staff, NEW r \in Requests \cup {NoReq}, r # NoReq => Requested(r),
         req' = [req EXCEPT ![a] = r],
         bill' \in [Invoices -> Bills], pay' \in [Payments -> PaymentRows],
         proof' \in [Proofs -> ProofRows],
         \A p \in Payments : pay'[p].status = "live" => pay'[p].inv \in Invoices,
         \A x \in Proofs : proof'[x].status # "NONE" => proof'[x].inv \in Invoices
  PROVE SalesTyped'
<1>1. req' \in [Staff -> Requests \cup {NoReq}]
  BY DEF SalesTyped
<1>2. ASSUME NEW b \in Staff, req'[b] # NoReq PROVE Requested(req'[b])
  BY <1>2 DEF SalesTyped
<1> QED BY <1>1, <1>2 DEF SalesTyped

LEMMA ReqGoes ==
  ASSUME SalesTyped, NEW a \in Staff, NEW r \in Requests \cup {NoReq}, r # NoReq => Requested(r),
         req' = [req EXCEPT ![a] = r], UNCHANGED <<bill, pay, proof>>
  PROVE SalesTyped'
BY ReqPut DEF SalesTyped

LEMMA SalesFrame ==
  ASSUME TypeOK, Elsewhere, SalesTyped', StreamTyped', DOMAIN stream \subseteq DOMAIN stream',
         ops' \in 0..MaxOps, faults' \in 0..MaxFaults,
         incidents' \in [Invoices \cup Docs \cup Proofs -> SUBSET Incidents]
  PROVE TypeOK'
<1>1. ProcsTyped'
  BY ProcsStay DEF TypeOK, Elsewhere
<1>2. BooksTyped'
  BY DEF TypeOK, Elsewhere, BooksTyped, books
<1>3. CountsTyped'
  BY DEF TypeOK, Elsewhere, CountsTyped
<1> QED BY <1>1, <1>2, <1>3 DEF TypeOK

\* A request that begins; nothing but sales is touched.
LEMMA BeginFrame ==
  ASSUME TypeOK, NEW op, Begin(op), Elsewhere, SalesTyped', UNCHANGED <<stream, faults, incidents>>
  PROVE TypeOK'
<1>1. ops' \in 0..MaxOps
  BY ReceivablesAssumption DEF TypeOK, CountsTyped, Begin
<1>2. StreamTyped' /\ DOMAIN stream \subseteq DOMAIN stream'
  BY DEF TypeOK, StreamTyped
<1> QED BY <1>1, <1>2, SalesFrame DEF TypeOK, CountsTyped

LEMMA RequestTyped ==
  ASSUME TypeOK, SalesRequest PROVE TypeOK'
<1>0. SalesTyped
  BY DEF TypeOK
<1> USE DEF SalesTyped
<1>1. ASSUME NEW i \in Invoices, NEW n \in Amounts, SubmitInvoice(i, n) PROVE TypeOK'
  <2>1. bill' \in [Invoices -> Bills]
    BY <1>0, <1>1 DEF SubmitInvoice, Bills, BillStates
  <2>2. SalesTyped'
    BY <1>0, <1>1, <2>1 DEF SubmitInvoice
  <2> QED BY <1>1, <2>2, BeginFrame DEF SubmitInvoice
<1>2. ASSUME NEW x \in Proofs, NEW i \in Invoices, SubmitProof(x, i) PROVE TypeOK'
  <2>1. proof' \in [Proofs -> ProofRows]
    BY <1>0, <1>2 DEF SubmitProof, ProofRows
  <2>2. SalesTyped'
    BY <1>0, <1>2, <2>1 DEF SubmitProof
  <2> QED BY <1>2, <2>2, BeginFrame DEF SubmitProof
<1>3. ASSUME NEW x \in Proofs, RejectProof(x) PROVE TypeOK'
  <2>1. proof' \in [Proofs -> ProofRows] /\ \A y \in Proofs : proof'[y].inv = proof[y].inv
    BY <1>0, <1>3 DEF RejectProof, ProofRows
  <2>2. \A y \in Proofs : proof'[y].status # "NONE" => proof[y].status # "NONE"
    BY <1>0, <1>3 DEF RejectProof
  <2>3. SalesTyped'
    BY <1>0, <1>3, <2>1, <2>2 DEF RejectProof
  <2> QED BY <1>3, <2>3, BeginFrame DEF RejectProof
<1>4. ASSUME NEW a \in Staff, NEW op \in RowOps, NEW i \in Invoices, NEW n \in Revised(op),
             LoadInvoice(a, op, i, n)
      PROVE TypeOK'
  <2> DEFINE r == [NoReq EXCEPT !.op = op, !.step = "write", !.inv = i, !.row = bill[i], !.amount = n]
  <2>1. n \in Amounts \cup {0} /\ (op = "revise" => n \in Amounts)
    BY DEF Revised
  <2>2. r \in Requests
    BY <1>0, <2>1 DEF Requests, NoReq, RowOps, Messages, NoLetter, Kinds
  <2>3. Requested(r)
    BY <1>0, <2>1 DEF Requested, NoReq, RowOps
  <2>4. req' = [req EXCEPT ![a] = r] /\ UNCHANGED <<bill, pay, proof>>
    BY <1>4 DEF LoadInvoice
  <2> HIDE DEF r
  <2>5. SalesTyped'
    BY <1>0, <2>2, <2>3, <2>4, ReqGoes
  <2> QED BY <1>4, <2>5, BeginFrame DEF LoadInvoice
<1>5. ASSUME NEW a \in Staff, NEW p \in Payments, NEW i \in Invoices, RecordPayment(a, p, i)
      PROVE TypeOK'
  <2> DEFINE r == [NoReq EXCEPT !.op = "record", !.step = "insert", !.inv = i, !.pay = p]
  <2>1. r \in Requests /\ Requested(r)
    BY DEF Requests, Requested, NoReq, RowOps, Messages, NoLetter, Kinds
  <2>2. req' = [req EXCEPT ![a] = r] /\ UNCHANGED <<bill, pay, proof>>
    BY <1>5 DEF RecordPayment
  <2> HIDE DEF r
  <2>3. SalesTyped'
    BY <1>0, <2>1, <2>2, ReqGoes
  <2> QED BY <1>5, <2>3, BeginFrame DEF RecordPayment
<1>6. ASSUME NEW a \in Staff, NEW p \in Payments, NEW x \in Proofs, ApproveProof(a, x, p)
      PROVE TypeOK'
  <2> DEFINE r == [NoReq EXCEPT !.op = "approve", !.step = "insert", !.inv = proof[x].inv,
                                !.pay = p, !.proof = x]
  <2>0. proof[x].inv \in Invoices
    BY <1>0, <1>6 DEF ApproveProof
  <2>1. r \in Requests /\ Requested(r)
    BY <2>0 DEF Requests, Requested, NoReq, RowOps, Messages, NoLetter, Kinds
  <2>2. req' = [req EXCEPT ![a] = r] /\ UNCHANGED <<bill, pay, proof>>
    BY <1>6 DEF ApproveProof
  <2> HIDE DEF r
  <2>3. SalesTyped'
    BY <1>0, <2>1, <2>2, ReqGoes
  <2> QED BY <1>6, <2>3, BeginFrame DEF ApproveProof
<1>7. ASSUME NEW a \in Staff, NEW p \in Payments, RemovePayment(a, p) PROVE TypeOK'
  <2> DEFINE r == [NoReq EXCEPT !.op = "remove", !.step = "delete", !.pay = p]
  <2>1. r \in Requests /\ Requested(r)
    BY DEF Requests, Requested, NoReq, RowOps, Messages, NoLetter, Kinds
  <2>2. req' = [req EXCEPT ![a] = r] /\ UNCHANGED <<bill, pay, proof>>
    BY <1>7 DEF RemovePayment
  <2> HIDE DEF r
  <2>3. SalesTyped'
    BY <1>0, <2>1, <2>2, ReqGoes
  <2> QED BY <1>7, <2>3, BeginFrame DEF RemovePayment
<1> QED BY <1>1, <1>2, <1>3, <1>4, <1>5, <1>6, <1>7 DEF SalesRequest

LEMMA ToPublish ==
  ASSUME NEW q \in Requests, Requested(q), NEW l \in Messages, Addressed(l)
  PROVE LET r == [q EXCEPT !.step = "publish", !.letter = l] IN r \in Requests /\ Requested(r)
BY DEF Requests, Requested

\* A step of a request that tells nobody yet.
LEMMA SilentFrame ==
  ASSUME TypeOK, Elsewhere, SalesTyped', UNCHANGED <<stream, ops>>, faults' \in 0..MaxFaults,
         incidents' \in [Invoices \cup Docs \cup Proofs -> SUBSET Incidents]
  PROVE TypeOK'
<1>1. StreamTyped' /\ DOMAIN stream \subseteq DOMAIN stream' /\ ops' \in 0..MaxOps
  BY DEF TypeOK, StreamTyped, CountsTyped
<1> QED BY <1>1, SalesFrame

LEMMA NewRowTyped ==
  ASSUME NEW r \in Requests, Requested(r), r.step = "write"
  PROVE NewRow(r) \in Bills
<1>1. r.row \in Bills /\ r.op \in RowOps
  BY DEF Requested
<1>2. CASE r.op = "revise"
  BY <1>1, <1>2 DEF NewRow, Bills, Requested
<1>3. CASE r.op = "issue"
  BY <1>1, <1>3 DEF NewRow, Bills, BillStates
<1>4. CASE r.op = "cancel"
  BY <1>1, <1>4 DEF NewRow, Bills, BillStates
<1>5. CASE r.op \in {"attach", "detach"}
  BY <1>1, <1>5 DEF NewRow
<1> QED BY <1>1, <1>2, <1>3, <1>4, <1>5 DEF RowOps

LEMMA WriteTyped ==
  ASSUME TypeOK, NEW a \in Staff, WriteInvoice(a) PROVE TypeOK'
<1> DEFINE q == req[a]
           r == IF Tells(q) THEN [q EXCEPT !.step = "publish", !.letter = LetterOf(q)] ELSE NoReq
<1>0. SalesTyped /\ q.step = "write" /\ q.op \in RowOps
  BY DEF TypeOK, WriteInvoice
<1>1. q \in Requests /\ Requested(q) /\ q.inv \in Invoices /\ q.row \in Bills
  BY <1>0, InHand DEF Requested
<1>2. bill' \in [Invoices -> Bills]
  <2>1. NewRow(q) \in Bills
    BY <1>0, <1>1, NewRowTyped
  <2> QED BY <1>0, <2>1 DEF WriteInvoice, SalesTyped
<1>3. r \in Requests \cup {NoReq} /\ (r # NoReq => Requested(r))
  <2>1. LetterOf(q) \in Messages /\ Addressed(LetterOf(q))
    BY <1>1, LetterTypes DEF LetterOf, Bills
  <2> QED BY <1>1, <2>1, ToPublish
<1>4. req' = [req EXCEPT ![a] = r] /\ UNCHANGED <<pay, proof>>
  BY DEF WriteInvoice
<1>5. SalesTyped'
  <2> HIDE DEF r
  <2> QED BY <1>0, <1>2, <1>3, <1>4, ReqPut DEF SalesTyped
<1>6. incidents' \in [Invoices \cup Docs \cup Proofs -> SUBSET Incidents]
  <2>1. If("overwritten", bill[q.inv] # q.row) \in SUBSET Incidents
    BY DEF If, Incidents
  <2> QED BY <2>1, IncidentsNoted DEF WriteInvoice, TypeOK
<1> QED BY <1>5, <1>6, SilentFrame DEF WriteInvoice, TypeOK, CountsTyped

LEMMA InsertTyped ==
  ASSUME TypeOK, NEW a \in Staff, InsertPayment(a) PROVE TypeOK'
<1> DEFINE q == req[a]
           r == [q EXCEPT !.step = "publish", !.letter = Recorded(q.pay, q.inv)]
<1>0. SalesTyped /\ q.step = "insert"
  BY DEF TypeOK, InsertPayment
<1>1. /\ q \in Requests /\ Requested(q) /\ q.inv \in Invoices /\ q.pay \in Payments
      /\ q.proof \in Proofs \cup {NoProof}
  BY <1>0, InHand DEF Requested, Requests
<1>2. /\ pay' \in [Payments -> PaymentRows]
      /\ \A p \in Payments : pay'[p].status = "live" => pay'[p].inv \in Invoices
  <2> DEFINE row == [status |-> "live", inv |-> q.inv, proof |-> q.proof]
  <2>1. row \in PaymentRows /\ row.inv \in Invoices
    BY <1>1 DEF PaymentRows
  <2>2. pay' = [pay EXCEPT ![q.pay] = row]
    BY DEF InsertPayment
  <2> HIDE DEF row
  <2> QED BY <1>0, <2>1, <2>2 DEF SalesTyped
<1>3. r \in Requests /\ Requested(r)
  <2>1. Recorded(q.pay, q.inv) \in Messages /\ Addressed(Recorded(q.pay, q.inv))
    BY <1>1, LetterTypes
  <2> QED BY <1>1, <2>1, ToPublish
<1>4. req' = [req EXCEPT ![a] = r] /\ UNCHANGED <<bill, proof>>
  BY DEF InsertPayment
<1>5. SalesTyped'
  <2> HIDE DEF r
  <2> QED BY <1>0, <1>2, <1>3, <1>4, ReqPut DEF SalesTyped
<1> QED BY <1>5, SilentFrame DEF InsertPayment, TypeOK, CountsTyped

LEMMA DecideTyped ==
  ASSUME TypeOK, NEW a \in Staff, DecideProof(a) PROVE TypeOK'
<1> DEFINE q == req[a]
<1>0. SalesTyped /\ q.step = "decide" /\ q.op = "approve"
  BY DEF TypeOK, DecideProof, At
<1>1. q \in Requests /\ Requested(q) /\ q.pay \in Payments /\ q.proof \in Proofs
  BY <1>0, InHand DEF Requested
<1>2. CASE StillPending(q.proof)
  <2>1. proof' \in [Proofs -> ProofRows]
    BY <1>0, <1>1, <1>2 DEF DecideProof, SalesTyped, ProofRows
  <2>2. \A x \in Proofs : proof'[x].status # "NONE" => proof'[x].inv \in Invoices
    <3> TAKE x \in Proofs
    <3>1. proof[x].status # "NONE" => proof[x].inv \in Invoices
      BY <1>0 DEF SalesTyped
    <3>2. proof'[x].inv = proof[x].inv /\ (x # q.proof => proof'[x] = proof[x])
      BY <1>0, <1>1, <1>2 DEF DecideProof, SalesTyped, ProofRows
    <3> QED BY <1>2, <3>1, <3>2 DEF StillPending
  <2>3. req' = [req EXCEPT ![a] = NoReq] /\ UNCHANGED <<bill, pay>>
    BY <1>2 DEF DecideProof
  <2>4. SalesTyped'
    BY <1>0, <2>1, <2>2, <2>3, ReqPut DEF SalesTyped
  <2> QED BY <2>4, SilentFrame DEF DecideProof, TypeOK, CountsTyped
<1>3. CASE ~StillPending(q.proof)
  <2> DEFINE r == IF Live(q.pay) THEN [q EXCEPT !.step = "delete"] ELSE NoReq
  <2>1. r \in Requests \cup {NoReq} /\ (r # NoReq => Requested(r))
    BY <1>0, <1>1 DEF Requests, Requested
  <2>2. req' = [req EXCEPT ![a] = r] /\ UNCHANGED <<bill, pay, proof>>
    BY <1>3 DEF DecideProof
  <2> HIDE DEF r
  <2>3. SalesTyped'
    BY <1>0, <2>1, <2>2, ReqGoes
  <2> QED BY <2>3, SilentFrame DEF DecideProof, TypeOK, CountsTyped
<1> QED BY <1>2, <1>3

LEMMA DeleteTyped ==
  ASSUME TypeOK, NEW a \in Staff, DeletePayment(a) PROVE TypeOK'
<1> DEFINE q == req[a]
           r == [q EXCEPT !.step = "publish", !.letter = Deleted(q.pay)]
<1>0. SalesTyped /\ q.step = "delete"
  BY DEF TypeOK, DeletePayment
<1>1. q \in Requests /\ Requested(q) /\ q.pay \in Payments
  BY <1>0, InHand DEF Requested
<1>2. /\ pay' \in [Payments -> PaymentRows]
      /\ \A p \in Payments : pay'[p].status = "live" => pay'[p].inv \in Invoices
  <2>1. pay' = [pay EXCEPT ![q.pay].status = "deleted"]
    BY DEF DeletePayment
  <2> QED BY <1>0, <1>1, <2>1 DEF SalesTyped, PaymentRows
<1>3. r \in Requests /\ Requested(r)
  <2>1. Deleted(q.pay) \in Messages /\ Addressed(Deleted(q.pay))
    BY <1>1, DeletedTypes
  <2> QED BY <1>1, <2>1, ToPublish
<1>4. req' = [req EXCEPT ![a] = r] /\ UNCHANGED <<bill, proof>>
  BY DEF DeletePayment
<1>5. SalesTyped'
  <2> HIDE DEF r
  <2> QED BY <1>0, <1>2, <1>3, <1>4, ReqPut DEF SalesTyped
<1> QED BY <1>5, SilentFrame DEF DeletePayment, TypeOK, CountsTyped

LEMMA PublishTyped ==
  ASSUME TypeOK, NEW a \in Staff, Publish(a) PROVE TypeOK'
<1> DEFINE q == req[a]
           r == IF q.op = "approve" /\ q.letter.kind = "recorded"
                THEN [q EXCEPT !.step = "decide"] ELSE NoReq
<1>0. SalesTyped /\ StreamTyped /\ q.step = "publish"
  BY DEF TypeOK, Publish
<1>1. q \in Requests /\ Requested(q) /\ q.letter \in Messages /\ Addressed(q.letter)
  BY <1>0, InHand DEF Requested, Requests
<1>2. StreamTyped' /\ DOMAIN stream \subseteq DOMAIN stream'
  BY <1>0, <1>1, StreamGrows DEF Publish
<1>3. r \in Requests \cup {NoReq} /\ (r # NoReq => Requested(r))
  BY <1>0, <1>1 DEF Requests, Requested
<1>4. req' = [req EXCEPT ![a] = r] /\ UNCHANGED <<bill, pay, proof>>
  BY DEF Publish
<1>5. SalesTyped'
  <2> HIDE DEF r
  <2> QED BY <1>0, <1>3, <1>4, ReqGoes
<1> QED BY <1>2, <1>5, SalesFrame DEF Publish, TypeOK, CountsTyped

LEMMA RequestFailsTyped ==
  ASSUME TypeOK, NEW a \in Staff, RequestFails(a) PROVE TypeOK'
<1>1. SalesTyped'
  BY ReqGoes DEF TypeOK, RequestFails
<1>2. incidents' \in [Invoices \cup Docs \cup Proofs -> SUBSET Incidents]
  <2>1. ASSUME NEW x PROVE /\ If("unsent", req[a].step = "publish" /\ x = Subject(req[a].letter)) \in SUBSET Incidents
                           /\ If("left", req[a].op = "approve" /\ req[a].step # "insert" /\ x = req[a].proof) \in SUBSET Incidents
    BY DEF If, Incidents
  <2> QED BY <2>1 DEF RequestFails, TypeOK, CountsTyped
<1>3. faults' \in 0..MaxFaults
  BY FaultsCount DEF RequestFails, TypeOK
<1> QED BY <1>1, <1>2, <1>3, SilentFrame DEF RequestFails

LEMMA SalesTypedSteps ==
  ASSUME TypeOK, NEW a \in Staff, SalesStep(a) \/ RequestFails(a) PROVE TypeOK'
BY WriteTyped, InsertTyped, DecideTyped, DeleteTyped, PublishTyped, RequestFailsTyped DEF SalesStep

-----------------------------------------------------------------------------
(***************************************************************************)
(* Processes in finance.                                                   *)
(***************************************************************************)
\* A process ends, or goes on with something that fits where it goes.
GoesOn(x, h) ==
  /\ h \in Handlers /\ Handling(x, h, DOMAIN stream)
  /\ proc' = [proc EXCEPT ![x] = h]
  /\ UNCHANGED <<stream, faults>>

Turns(x) == Done(x) \/ \E h \in Handlers : GoesOn(x, h)

LEMMA FinanceFrame ==
  ASSUME TypeOK, NEW x \in Processes, proc[x].pc # "idle", Turns(x),
         SalesIdle, BooksTyped', UNCHANGED period,
         incidents' \in [Invoices \cup Docs \cup Proofs -> SUBSET Incidents]
  PROVE TypeOK'
<1>1. ProcsTyped' /\ StreamTyped' /\ faults' \in 0..MaxFaults
  <2>1. CASE Done(x)
    BY <2>1, DoneTyped DEF TypeOK
  <2>2. ASSUME NEW h \in Handlers, GoesOn(x, h) PROVE ProcsTyped' /\ StreamTyped' /\ faults' \in 0..MaxFaults
    BY <2>2, ProcPut DEF TypeOK, GoesOn, StreamTyped, CountsTyped
  <2> QED BY <2>1, <2>2 DEF Turns
<1>2. SalesTyped'
  BY DEF TypeOK, SalesTyped, SalesIdle, sales
<1>3. CountsTyped'
  BY <1>1 DEF TypeOK, CountsTyped, SalesIdle
<1> QED BY <1>1, <1>2, <1>3 DEF TypeOK

LEMMA BooksStay ==
  ASSUME TypeOK, UNCHANGED books PROVE BooksTyped'
BY DEF TypeOK, BooksTyped, books

LEMMA GoesTurns ==
  ASSUME TypeOK, NEW x \in Processes, proc[x].pc # "idle", NEW pc \in Pcs, Goes(x, pc),
         Handling(x, [proc[x] EXCEPT !.pc = pc], DOMAIN stream)
  PROVE Turns(x)
<1> DEFINE h == [proc[x] EXCEPT !.pc = pc]
<1>1. h \in Handlers
  BY AtWork DEF Handlers, TypeOK
<1>2. GoesOn(x, h)
  BY <1>1 DEF Goes, GoesOn
<1> HIDE DEF h
<1> QED BY <1>1, <1>2 DEF Turns

\* Who is at work on what.
LEMMA AtHand ==
  ASSUME TypeOK, NEW x \in Processes, proc[x].pc # "idle"
  PROVE /\ proc[x] \in Handlers /\ Handling(x, proc[x], DOMAIN stream)
        /\ proc[x].amount \in Nat /\ proc[x].seen \in Int /\ proc[x].method \in Methods
        /\ proc[x].todo \subseteq Docs \cup Invoices
BY AtWork DEF TypeOK, Handlers

LEMMA PostJournalTyped ==
  ASSUME TypeOK, NEW d \in Docs \cup Invoices, PostJournal(d)
  PROVE entries' \subseteq Docs \cup Invoices /\ drafts' \subseteq Docs \cup Invoices
BY DEF TypeOK, BooksTyped, PostJournal

LEMMA PostTyped ==
  ASSUME TypeOK, NEW x \in Processes, PostPaymentJournal(x) \/ RetryPosting(x) PROVE TypeOK'
<1> DEFINE d == proc[x].doc
<1>1. proc[x].pc \in {"journal", "post"} /\ d \in Docs \cup Invoices
  BY AtHand DEF PostPaymentJournal, RetryPosting, ProcAt, Handling
<1>2. PostJournal(d) /\ UNCHANGED <<ar, doc, adv, reversals, period>> /\ Done(x) /\ SalesIdle
  BY DEF PostPaymentJournal, RetryPosting
<1>3. BooksTyped'
  BY <1>1, <1>2, PostJournalTyped DEF TypeOK, BooksTyped
<1>4. incidents' \in [Invoices \cup Docs \cup Proofs -> SUBSET Incidents]
  <2>1. PICK k \in SUBSET Incidents : incidents' = Noted(d, k)
    <3>1. \A b \in BOOLEAN : If("late", b) \in SUBSET Incidents
      BY DEF If, Incidents
    <3> QED BY <3>1 DEF PostPaymentJournal, RetryPosting
  <2> QED BY <2>1, IncidentsNoted DEF TypeOK
<1> QED BY <1>1, <1>2, <1>3, <1>4, FinanceFrame DEF Turns

LEMMA OutstandingType ==
  ASSUME TypeOK, NEW i \in Invoices
  PROVE /\ Outstanding(i) \in Nat
        /\ Outstanding(i) > 0 => Outstanding(i) = ar[i].total - ar[i].allocated
BY DEF TypeOK, BooksTyped, Receivables, Outstanding

LEMMA CheckAllocationTyped ==
  ASSUME TypeOK, NEW x \in Processes, CheckAllocation(x) PROVE TypeOK'
<1> DEFINE i == proc[x].inv
           h == [proc[x] EXCEPT !.pc = "commit", !.seen = ar[i].allocated]
<1>1. proc[x].pc = "insert" /\ i \in Invoices /\ proc[x] \in Handlers /\ Handling(x, proc[x], DOMAIN stream)
  BY AtHand DEF CheckAllocation, ProcAt, Handling
<1>2. CASE Fits(i, proc[x].amount)
  <2>1. ar[i].allocated \in Int
    BY <1>1 DEF TypeOK, BooksTyped, Receivables
  <2>2. h \in Handlers /\ Handling(x, h, DOMAIN stream)
    BY <1>1, <2>1 DEF Handlers, Handling, Pcs
  <2>3. GoesOn(x, h)
    BY <1>2, <2>2 DEF CheckAllocation, GoesOn
  <2>4. Turns(x)
    <3> HIDE DEF h
    <3> QED BY <2>2, <2>3 DEF Turns
  <2> QED BY <1>1, <1>2, <2>4, FinanceFrame, BooksStay DEF CheckAllocation, TypeOK, CountsTyped
<1>3. CASE ~Fits(i, proc[x].amount)
  <2>1. incidents' \in [Invoices \cup Docs \cup Proofs -> SUBSET Incidents]
    <3>1. {"refused"} \in SUBSET Incidents
      BY DEF Incidents
    <3> QED BY <1>3, <3>1, IncidentsNoted DEF CheckAllocation, TypeOK, CountsTyped
  <2> QED BY <1>1, <1>3, <2>1, FinanceFrame, BooksStay DEF CheckAllocation, Turns
<1> QED BY <1>2, <1>3

\* Allocating puts a document where there was none.
LEMMA AllocateTyped ==
  ASSUME TypeOK, NEW x \in Processes, proc[x].pc \in {"commit", "note"}, NEW d \in Docs, Allocate(x, d)
  PROVE /\ ar' \in [Invoices -> Receivables] /\ doc' \in [Docs -> Documents]
        /\ \A e \in Docs : doc'[e].status = "POSTED" => doc'[e].inv \in Invoices
        /\ incidents' \in [Invoices \cup Docs \cup Proofs -> SUBSET Incidents]
<1> DEFINE i == proc[x].inv
           n == proc[x].amount
           new == Document(i, n, proc[x].method)
<1>1. i \in Invoices /\ n \in Nat /\ proc[x].method \in Methods
  BY AtHand DEF Handling
<1>2. new \in Documents /\ new.inv \in Invoices
  BY <1>1 DEF Documents, Document
<1>3. doc' = [doc EXCEPT ![d] = new] /\ ar' = [ar EXCEPT ![i].allocated = @ + n]
  BY DEF Allocate
<1>4. doc' \in [Docs -> Documents] /\ \A e \in Docs : doc'[e].status = "POSTED" => doc'[e].inv \in Invoices
  <2> HIDE DEF new
  <2> QED BY <1>2, <1>3 DEF TypeOK, BooksTyped
<1>5. ar' \in [Invoices -> Receivables]
  <2>1. ar[i].allocated + n \in Int
    BY <1>1 DEF TypeOK, BooksTyped, Receivables
  <2> QED BY <1>1, <1>3, <2>1 DEF TypeOK, BooksTyped, Receivables
<1>6. incidents' \in [Invoices \cup Docs \cup Proofs -> SUBSET Incidents]
  <2>1. If("crossed", ar[i].allocated > proc[x].seen) \in SUBSET Incidents
    BY DEF If, Incidents
  <2> QED BY <2>1, IncidentsNoted DEF Allocate, TypeOK
<1> QED BY <1>4, <1>5, <1>6

LEMMA CommitSalesTyped ==
  ASSUME TypeOK, NEW x \in Processes, CommitSalesReceipt(x) PROVE TypeOK'
<1> DEFINE d == proc[x].doc
<1>1. /\ proc[x].pc = "commit" /\ ByMessage(x) /\ d \in Docs
      /\ proc[x] \in Handlers /\ Handling(x, proc[x], DOMAIN stream)
  BY AtHand, AmountsAreNumbers DEF CommitSalesReceipt, ProcAt, Handling, ByMessage
<1>2. CASE doc[d].status = "NONE"
  <2>1. Allocate(x, d) /\ Goes(x, "journal")
    BY <1>2 DEF CommitSalesReceipt
  <2>2. Turns(x)
    <3>1. Handling(x, [proc[x] EXCEPT !.pc = "journal"], DOMAIN stream) /\ "journal" \in Pcs
      BY <1>1 DEF Handling, Handlers, ByMessage, Pcs
    <3> QED BY <1>1, <2>1, <3>1, GoesTurns
  <2>3. BooksTyped' /\ incidents' \in [Invoices \cup Docs \cup Proofs -> SUBSET Incidents]
    BY <1>1, <2>1, AllocateTyped DEF CommitSalesReceipt, TypeOK, BooksTyped
  <2> QED BY <1>1, <2>2, <2>3, FinanceFrame DEF CommitSalesReceipt
<1>3. CASE doc[d].status # "NONE"
  BY <1>1, <1>3, FinanceFrame, BooksStay DEF CommitSalesReceipt, Turns, TypeOK, CountsTyped, books
<1> QED BY <1>2, <1>3

LEMMA VoucherTyped ==
  ASSUME TypeOK, NEW x \in Processes, proc[x].pc \in {"commit", "note"}, NEW d, CommitVoucher(x, d)
  PROVE /\ BooksTyped' /\ SalesIdle /\ UNCHANGED period
        /\ incidents' \in [Invoices \cup Docs \cup Proofs -> SUBSET Incidents]
<1>1. d \in Docs /\ Allocate(x, d)
  BY AmountsAreNumbers DEF CommitVoucher
<1> QED BY <1>1, AllocateTyped DEF CommitVoucher, TypeOK, BooksTyped

LEMMA ReceiptTyped ==
  ASSUME TypeOK, NEW x \in Processes, RecordReceipt(x) PROVE TypeOK'
<1>1. proc[x].pc = "commit" /\ Done(x)
  BY DEF RecordReceipt, ProcAt
<1>2. ASSUME NEW d \in Vouchers, CommitVoucher(x, d) PROVE TypeOK'
  BY <1>1, <1>2, VoucherTyped, FinanceFrame DEF Turns
<1>3. CASE SalesIdle /\ UNCHANGED <<books, period, incidents>>
  BY <1>1, <1>3, FinanceFrame, BooksStay DEF Turns, TypeOK, CountsTyped
<1> QED BY <1>2, <1>3 DEF RecordReceipt

LEMMA CheckCreditTyped ==
  ASSUME TypeOK, NEW x \in Processes, CheckCredit(x) PROVE TypeOK'
<1> DEFINE i == proc[x].inv
           h == [proc[x] EXCEPT !.pc = "note", !.amount = Outstanding(i), !.seen = ar[i].allocated]
<1>1. proc[x].pc = "credit" /\ i \in Invoices /\ proc[x] \in Handlers /\ Handling(x, proc[x], DOMAIN stream)
  BY AtHand DEF CheckCredit, ProcAt, Handling
<1>2. Turns(x)
  <2>1. CASE MayCredit(i)
    <3>1. ar[i].allocated \in Int /\ Outstanding(i) \in Nat
      BY <1>1, OutstandingType DEF TypeOK, BooksTyped, Receivables
    <3>2. h \in Handlers /\ Handling(x, h, DOMAIN stream)
      BY <1>1, <3>1 DEF Handlers, Handling, Pcs
    <3>3. GoesOn(x, h)
      BY <2>1, <3>2 DEF CheckCredit, GoesOn
    <3> HIDE DEF h
    <3> QED BY <3>2, <3>3 DEF Turns
  <2>2. CASE ~MayCredit(i) /\ AtDesk(x)
    BY <2>2 DEF CheckCredit, Turns
  <2>3. CASE ~MayCredit(i) /\ ~AtDesk(x)
    <3>1. Goes(x, "settle")
      BY <2>3 DEF CheckCredit
    <3>2. Handling(x, [proc[x] EXCEPT !.pc = "settle"], DOMAIN stream) /\ "settle" \in Pcs
      BY <1>1 DEF Handling, Handlers, Pcs
    <3> QED BY <1>1, <3>1, <3>2, GoesTurns
  <2> QED BY <2>1, <2>2, <2>3
<1> QED BY <1>1, <1>2, FinanceFrame, BooksStay DEF CheckCredit, TypeOK, CountsTyped

LEMMA NoteTyped ==
  ASSUME TypeOK, NEW x \in Processes, CreateCreditNote(x) PROVE TypeOK'
<1>1. proc[x].pc = "note" /\ proc[x] \in Handlers /\ Handling(x, proc[x], DOMAIN stream)
  BY AtHand DEF CreateCreditNote, ProcAt
<1>2. ASSUME NEW ok \in BOOLEAN, Credited(x, ok) PROVE Turns(x)
  <2> DEFINE h == [proc[x] EXCEPT !.pc = "settle", !.ok = ok]
  <2>1. CASE AtDesk(x)
    BY <1>2, <2>1 DEF Credited, Turns
  <2>2. CASE ~AtDesk(x)
    <3>1. h \in Handlers /\ Handling(x, h, DOMAIN stream)
      BY <1>1 DEF Handlers, Handling, Pcs
    <3>2. GoesOn(x, h)
      BY <1>2, <2>2, <3>1 DEF Credited, GoesOn
    <3> HIDE DEF h
    <3> QED BY <3>1, <3>2 DEF Turns
  <2> QED BY <2>1, <2>2
<1>3. ASSUME NEW d \in Vouchers, CommitVoucher(x, d), Credited(x, TRUE) PROVE TypeOK'
  BY <1>1, <1>2, <1>3, VoucherTyped, FinanceFrame
<1>4. CASE Credited(x, FALSE) /\ SalesIdle /\ UNCHANGED <<books, period, incidents>>
  BY <1>1, <1>2, <1>4, FinanceFrame, BooksStay DEF TypeOK, CountsTyped
<1> QED BY <1>3, <1>4 DEF CreateCreditNote

LEMMA VoidedTurns ==
  ASSUME TypeOK, NEW x \in Processes, proc[x].pc \in {"void", "reverse"}, Voided(x)
  PROVE Turns(x)
<1>1. CASE AtDesk(x)
  BY <1>1 DEF Voided, Turns
<1>2. CASE ~AtDesk(x)
  <2>1. Goes(x, "mark") /\ "mark" \in Pcs
    BY <1>2 DEF Voided, Pcs
  <2>2. Handling(x, [proc[x] EXCEPT !.pc = "mark"], DOMAIN stream)
    BY AtHand DEF Handling, Handlers
  <2> QED BY <2>1, <2>2, GoesTurns
<1> QED BY <1>1, <1>2

LEMMA CheckVoidTyped ==
  ASSUME TypeOK, NEW x \in Processes, CheckVoid(x) PROVE TypeOK'
<1>1. proc[x].pc = "void"
  BY DEF CheckVoid, ProcAt
<1>2. Turns(x)
  <2>1. CASE MayVoid(proc[x].doc)
    <3>1. Goes(x, "reverse") /\ "reverse" \in Pcs
      BY <2>1 DEF CheckVoid, Pcs
    <3>2. Handling(x, [proc[x] EXCEPT !.pc = "reverse"], DOMAIN stream)
      BY <1>1, AtHand DEF Handling, Handlers
    <3> QED BY <1>1, <3>1, <3>2, GoesTurns
  <2>2. CASE ~MayVoid(proc[x].doc)
    BY <1>1, <2>2, VoidedTurns DEF CheckVoid
  <2> QED BY <2>1, <2>2
<1> QED BY <1>1, <1>2, FinanceFrame, BooksStay DEF CheckVoid, TypeOK, CountsTyped

LEMMA VoidTyped ==
  ASSUME TypeOK, NEW x \in Processes, VoidPayment(x) PROVE TypeOK'
<1> DEFINE d == proc[x].doc
<1>1. proc[x].pc = "reverse" /\ d \in Docs
  BY AtHand DEF VoidPayment, ProcAt, Handling
<1>2. Turns(x)
  BY <1>1, VoidedTurns DEF VoidPayment
<1>3. doc' \in [Docs -> Documents] /\ \A e \in Docs : doc'[e].inv = doc[e].inv
  BY <1>1 DEF VoidPayment, TypeOK, BooksTyped, Documents
<1>4. \A e \in Docs : doc'[e].status = "POSTED" => doc[e].status = "POSTED"
  <2>1. UNCHANGED doc \/ doc' = [doc EXCEPT ![d].status = "VOID"]
    BY DEF VoidPayment
  <2> QED BY <1>1, <2>1 DEF TypeOK, BooksTyped, Documents
<1>5. ar' \in [Invoices -> Receivables]
  <2>1. CASE doc[d].status = "POSTED"
    <3> DEFINE i == doc[d].inv
               n == ar[i].allocated - doc[d].amount
    <3>1. i \in Invoices /\ n \in Int
      BY <1>1, <2>1 DEF TypeOK, BooksTyped, Receivables, Documents
    <3>2. UNCHANGED ar \/ ar' = [ar EXCEPT ![i].allocated = n]
      BY <2>1 DEF VoidPayment
    <3> HIDE DEF n
    <3> QED BY <3>1, <3>2 DEF TypeOK, BooksTyped, Receivables
  <2>2. CASE doc[d].status # "POSTED"
    BY <2>2 DEF VoidPayment, TypeOK, BooksTyped
  <2> QED BY <2>1, <2>2
<1>6. BooksTyped'
  BY <1>1, <1>3, <1>4, <1>5 DEF VoidPayment, TypeOK, BooksTyped, DraftDropped
<1> QED BY <1>1, <1>2, <1>6, FinanceFrame DEF VoidPayment, TypeOK, CountsTyped

LEMMA PostingTyped ==
  ASSUME TypeOK, NEW x \in Processes, PostingStep(x) PROVE TypeOK'
BY PostTyped, CheckAllocationTyped, CommitSalesTyped, ReceiptTyped, CheckCreditTyped, NoteTyped,
   CheckVoidTyped, VoidTyped DEF PostingStep

-----------------------------------------------------------------------------
(***************************************************************************)
(* The handlers of messages and the daily run.                             *)
(***************************************************************************)
\* A handler that has failed for now, and a message that comes again.
LEMMA GivesBack ==
  ASSUME TypeOK, NEW x \in Processes, NEW h \in Handlers \cup {Idle}, proc[x].pc # "idle",
         proc' = [proc EXCEPT ![x] = h], h # Idle => Handling(x, h, DOMAIN stream),
         IF ByMessage(x) THEN Return(proc[x].msg) ELSE UNCHANGED stream
  PROVE ProcsTyped' /\ StreamTyped'
<1>1. StreamTyped' /\ DOMAIN stream' = DOMAIN stream
  <2>1. CASE ByMessage(x)
    <3>1. proc[x].msg \in DOMAIN stream
      BY <2>1, AtHand DEF Handling, ByMessage
    <3> QED BY <2>1, <3>1, StreamMoves DEF TypeOK
  <2>2. CASE ~ByMessage(x)
    BY <2>2 DEF TypeOK, StreamTyped
  <2> QED BY <2>1, <2>2
<1> QED BY <1>1, ProcPut DEF TypeOK

\* The same as FinanceFrame, for what is neither done nor goes on.
LEMMA OtherFrame ==
  ASSUME TypeOK, SalesIdle, UNCHANGED <<books, period>>, ProcsTyped', StreamTyped',
         faults' \in 0..MaxFaults,
         incidents' \in [Invoices \cup Docs \cup Proofs -> SUBSET Incidents]
  PROVE TypeOK'
<1>1. SalesTyped'
  BY DEF TypeOK, SalesTyped, SalesIdle, sales
<1>2. CountsTyped'
  BY DEF TypeOK, CountsTyped, SalesIdle
<1> QED BY <1>1, <1>2, BooksStay DEF TypeOK

LEMMA NakTyped ==
  ASSUME TypeOK, NEW w \in Processes, proc[w].pc # "idle", proc[w].msg # 0, Nak(w), SalesIdle,
         UNCHANGED <<books, period, incidents>>
  PROVE TypeOK'
<1>1. ProcsTyped' /\ StreamTyped'
  BY GivesBack DEF Nak, ByMessage
<1> QED BY <1>1, OtherFrame DEF Nak, TypeOK, CountsTyped

LEMMA IssuedTyped ==
  ASSUME TypeOK, NEW w \in Processes, SalesInvoiceIssued(w) PROVE TypeOK'
<1> DEFINE i == proc[w].inv
<1>1. proc[w].pc = "book" /\ i \in Invoices /\ proc[w].msg \in DOMAIN stream
  BY AtHand DEF SalesInvoiceIssued, ProcAt, Handling
<1>2. Message(w).amount \in Nat
  <2>1. stream[proc[w].msg] \in Letters
    BY <1>1 DEF TypeOK, StreamTyped
  <2> QED BY <2>1, AmountsAreNumbers DEF Message, Letters, Messages
<1>3. BooksTyped'
  <2>1. CASE ar[i].booked
    BY <1>1, <2>1 DEF SalesInvoiceIssued, TypeOK, BooksTyped
  <2>2. CASE ~ar[i].booked
    <3>1. ar' \in [Invoices -> Receivables]
      <4> DEFINE n == Message(w).amount
                 r == [ar[i] EXCEPT !.booked = TRUE, !.total = n]
      <4>1. r \in Receivables
        <5> HIDE DEF n
        <5> QED BY <1>1, <1>2 DEF n, TypeOK, BooksTyped, Receivables
      <4>2. ar' = [ar EXCEPT ![i] = r]
        BY <2>2 DEF SalesInvoiceIssued
      <4> HIDE DEF r
      <4> QED BY <4>1, <4>2 DEF TypeOK, BooksTyped
    <3>2. entries' \subseteq Docs \cup Invoices /\ drafts' \subseteq Docs \cup Invoices
      BY <1>1, <2>2, PostJournalTyped DEF SalesInvoiceIssued
    <3> QED BY <3>1, <3>2 DEF SalesInvoiceIssued, TypeOK, BooksTyped
  <2> QED BY <2>1, <2>2
<1> QED BY <1>1, <1>3, FinanceFrame DEF SalesInvoiceIssued, Turns, TypeOK, CountsTyped

LEMMA RecordedTyped ==
  ASSUME TypeOK, NEW w \in Processes, SalesPaymentRecorded(w) PROVE TypeOK'
<1> DEFINE p == proc[w].doc
           i == proc[w].inv
           open == Outstanding(i)
           n == IF Amount[p] < open THEN Amount[p] ELSE open
           h == [proc[w] EXCEPT !.pc = "insert", !.amount = n]
<1>1. /\ proc[w].pc = "receive" /\ i \in Invoices /\ p \in Payments /\ proc[w].msg # 0
      /\ proc[w] \in Handlers /\ Handling(w, proc[w], DOMAIN stream)
  BY AtHand DEF SalesPaymentRecorded, ProcAt, Handling
<1>2. CASE doc[p].status # "NONE"
  BY <1>1, <1>2, FinanceFrame, BooksStay DEF SalesPaymentRecorded, Turns, TypeOK, CountsTyped
<1>3. CASE doc[p].status = "NONE" /\ ~ar[i].booked
  BY <1>1, <1>3, NakTyped DEF SalesPaymentRecorded
<1>4. CASE doc[p].status = "NONE" /\ ar[i].booked
  <2>1. Turns(w)
    <3>1. CASE open = 0
      <4>1. Goes(w, "advance") /\ "advance" \in Pcs
        BY <1>4, <3>1 DEF SalesPaymentRecorded, Pcs
      <4>2. Handling(w, [proc[w] EXCEPT !.pc = "advance"], DOMAIN stream)
        BY <1>1 DEF Handling, Handlers
      <4> QED BY <1>1, <4>1, <4>2, GoesTurns
    <3>2. CASE open # 0
      <4>1. n \in Nat
        BY <1>1, OutstandingType, AmountsAreNumbers
      <4>2. h \in Handlers /\ Handling(w, h, DOMAIN stream)
        <5> HIDE DEF n
        <5> QED BY <1>1, <4>1 DEF Handlers, Handling, Pcs
      <4>3. GoesOn(w, h)
        BY <1>4, <3>2, <4>2 DEF SalesPaymentRecorded, GoesOn
      <4> HIDE DEF h
      <4> QED BY <4>2, <4>3 DEF Turns
    <3> QED BY <3>1, <3>2
  <2> QED BY <1>1, <2>1, FinanceFrame, BooksStay DEF SalesPaymentRecorded, TypeOK, CountsTyped
<1> QED BY <1>2, <1>3, <1>4

LEMMA AdvanceTyped ==
  ASSUME TypeOK, NEW w \in Processes, SalesPaymentAdvance(w) PROVE TypeOK'
<1>1. proc[w].pc = "advance" /\ Done(w) /\ proc[w].doc \in Payments
  BY AtHand DEF SalesPaymentAdvance, ProcAt, Handling
<1>2. BooksTyped'
  <2>1. adv' \in [Payments -> {"NONE", "POSTED", "VOID"}]
    BY DEF SalesPaymentAdvance, TypeOK, BooksTyped
  <2> QED BY <2>1 DEF SalesPaymentAdvance, TypeOK, BooksTyped
<1>3. incidents' \in [Invoices \cup Docs \cup Proofs -> SUBSET Incidents]
  <2>1. {"refused"} \in SUBSET Incidents
    BY DEF Incidents
  <2> QED BY <2>1, IncidentsNoted DEF SalesPaymentAdvance, TypeOK, CountsTyped
<1> QED BY <1>1, <1>2, <1>3, FinanceFrame DEF SalesPaymentAdvance, Turns

LEMMA DeletedTyped ==
  ASSUME TypeOK, NEW w \in Processes, SalesPaymentDeleted(w) PROVE TypeOK'
<1> DEFINE p == proc[w].doc
<1>1. /\ proc[w].pc = "find" /\ p \in Payments /\ p \in Docs /\ proc[w].msg # 0
      /\ proc[w] \in Handlers /\ Handling(w, proc[w], DOMAIN stream)
  BY AtHand, AmountsAreNumbers DEF SalesPaymentDeleted, ProcAt, Handling
<1>2. CASE doc[p].status = "NONE" /\ adv[p] = "NONE"
  BY <1>1, <1>2, NakTyped DEF SalesPaymentDeleted, NotYetHere, books
<1>3. CASE ~(doc[p].status = "NONE" /\ adv[p] = "NONE")
  <2>1. Turns(w)
    <3>1. CASE doc[p].status = "POSTED"
      <4>1. Goes(w, "void") /\ "void" \in Pcs
        BY <3>1 DEF SalesPaymentDeleted, Pcs
      <4>2. Handling(w, [proc[w] EXCEPT !.pc = "void"], DOMAIN stream)
        BY <1>1 DEF Handling, Handlers
      <4> QED BY <1>1, <4>1, <4>2, GoesTurns
    <3>2. CASE doc[p].status # "POSTED"
      BY <1>3, <3>2 DEF SalesPaymentDeleted, Turns
    <3> QED BY <3>1, <3>2
  <2>2. BooksTyped'
    <3>1. adv' \in [Payments -> {"NONE", "POSTED", "VOID"}]
      BY <1>3 DEF SalesPaymentDeleted, TypeOK, BooksTyped
    <3> QED BY <3>1 DEF SalesPaymentDeleted, TypeOK, BooksTyped
  <2>3. incidents' \in [Invoices \cup Docs \cup Proofs -> SUBSET Incidents]
    <3>1. {"told"} \in SUBSET Incidents
      BY DEF Incidents
    <3> QED BY <1>3, <3>1, IncidentsNoted DEF SalesPaymentDeleted, TypeOK, CountsTyped
  <2> QED BY <1>1, <2>1, <2>2, <2>3, FinanceFrame DEF SalesPaymentDeleted
<1> QED BY <1>2, <1>3

LEMMA MarkTyped ==
  ASSUME TypeOK, NEW x \in Processes, MarkPayment(x) \/ MarkInvoice(x) PROVE TypeOK'
<1>1. proc[x].pc \in {"mark", "settle"} /\ Done(x) /\ proc[x].ok \in BOOLEAN
  BY AtHand DEF MarkPayment, MarkInvoice, ProcAt, Handlers
<1>2. CASE MarkPayment(x)
  <2>1. doc' = [doc EXCEPT ![proc[x].doc].flagged = TRUE] /\ doc \in [Docs -> Documents]
    BY <1>2 DEF MarkPayment, TypeOK, BooksTyped
  <2>2. doc' \in [Docs -> Documents]
    BY <2>1 DEF Documents
  <2>3. \A d \in Docs : doc'[d].status = doc[d].status /\ doc'[d].inv = doc[d].inv
    BY <2>1 DEF Documents
  <2>4. BooksTyped'
    BY <1>2, <2>2, <2>3 DEF MarkPayment, TypeOK, BooksTyped
  <2> QED BY <1>1, <1>2, <2>4, FinanceFrame DEF MarkPayment, Turns, TypeOK, CountsTyped
<1>3. CASE MarkInvoice(x)
  <2>0. PICK i : i = proc[x].inv
    OBVIOUS
  <2>1. PICK r : r = [ar[i] EXCEPT !.cancelled = TRUE, !.settled = proc[x].ok]
    OBVIOUS
  <2>2. i \in Invoices => r \in Receivables
    BY <1>1, <2>1 DEF TypeOK, BooksTyped, Receivables
  <2>3. ar' = [ar EXCEPT ![i] = r]
    BY <1>3, <2>0, <2>1 DEF MarkInvoice
  <2>4. ar' \in [Invoices -> Receivables]
    BY <2>2, <2>3 DEF TypeOK, BooksTyped
  <2>5. BooksTyped'
    BY <1>3, <2>4 DEF MarkInvoice, TypeOK, BooksTyped
  <2> QED BY <1>1, <1>3, <2>5, FinanceFrame DEF MarkInvoice, Turns, TypeOK, CountsTyped
<1> QED BY <1>2, <1>3

LEMMA CancelledTyped ==
  ASSUME TypeOK, NEW x \in Processes, SalesInvoiceCancelled(x) PROVE TypeOK'
<1> DEFINE i == proc[x].inv
           pc == IF Outstanding(i) = 0 THEN "settle" ELSE "credit"
           ok == Outstanding(i) = 0
           h == [proc[x] EXCEPT !.pc = pc, !.ok = ok, !.method = "credit note"]
<1>1. /\ proc[x].pc = "look" /\ i \in Invoices
      /\ proc[x] \in Handlers /\ Handling(x, proc[x], DOMAIN stream)
  BY AtHand DEF SalesInvoiceCancelled, ProcAt, Handling
<1>2. CASE ByMessage(x) /\ ~ar[i].booked
  BY <1>1, <1>2, NakTyped DEF SalesInvoiceCancelled, ByMessage, NotYetBooked
<1>3. CASE ~(ByMessage(x) /\ ~ar[i].booked)
  <2>1. h \in Handlers /\ Handling(x, h, DOMAIN stream)
    <3>1. pc \in {"settle", "credit"} /\ ok \in BOOLEAN
      OBVIOUS
    <3> HIDE DEF pc, ok
    <3> QED BY <1>1, <3>1 DEF Handlers, Handling, Pcs, Methods
  <2>2. GoesOn(x, h)
    BY <1>3, <2>1 DEF SalesInvoiceCancelled, GoesOn
  <2>3. Turns(x)
    <3> HIDE DEF h
    <3> QED BY <2>1, <2>2 DEF Turns
  <2> QED BY <1>1, <2>3, FinanceFrame, BooksStay DEF SalesInvoiceCancelled, TypeOK, CountsTyped
<1> QED BY <1>2, <1>3

\* A process starts, or takes what is next.
LEMMA StartTyped ==
  ASSUME TypeOK, NEW x \in Processes, NEW h \in Handlers \cup {Idle},
         h # Idle => Handling(x, h, DOMAIN stream),
         proc' = [proc EXCEPT ![x] = h], desk' \in 0..MaxDesk,
         UNCHANGED <<sales, ops, books, period, stream, faults, incidents>>
  PROVE TypeOK'
<1>1. ProcsTyped'
  BY ProcPut DEF TypeOK
<1>2. SalesTyped'
  BY DEF TypeOK, SalesTyped, sales
<1>3. StreamTyped' /\ CountsTyped'
  BY DEF TypeOK, StreamTyped, CountsTyped
<1> QED BY <1>1, <1>2, <1>3, BooksStay DEF TypeOK

LEMMA RunTyped ==
  ASSUME TypeOK PROVE Run \in Handlers /\ Run.msg = 0 /\ Run.pc = "next" /\ Run.run # "none"
<1>1. drafts \in SUBSET (Docs \cup Invoices)
  BY DEF TypeOK, BooksTyped
<1> QED BY <1>1, IdleTyped DEF Run, Handlers, AnyHandler, Pcs

LEMMA RunDueTyped ==
  ASSUME TypeOK, NEW w \in Workers, RunDue(w) PROVE TypeOK'
<1>1. w \in Processes /\ Run \in Handlers /\ Handling(w, Run, DOMAIN stream)
  BY RunTyped DEF Processes, Handling
<1>2. proc' = [proc EXCEPT ![w] = Run] /\ desk' \in 0..MaxDesk
  BY DEF RunDue, SalesIdle, TypeOK, CountsTyped
<1> QED BY <1>1, <1>2, StartTyped DEF RunDue, SalesIdle

LEMMA NextItemTyped ==
  ASSUME TypeOK, NEW x \in Processes, NEW d \in proc[x].todo, NextItem(x, d) PROVE TypeOK'
<1> DEFINE h == proc[x]
           rest == [h EXCEPT !.todo = h.todo \ {d}]
           r == IF h.run = "postings"
                THEN IF d \in drafts THEN [rest EXCEPT !.pc = "post", !.doc = d] ELSE rest
                ELSE IF d \in Docs THEN [rest EXCEPT !.pc = "void", !.doc = d]
                                   ELSE [rest EXCEPT !.pc = "look", !.inv = d]
<1>1. /\ h.pc = "next" /\ h \in Handlers /\ Handling(x, h, DOMAIN stream)
      /\ d \in Docs \cup Invoices /\ h.todo \ {d} \in SUBSET (Docs \cup Invoices)
      /\ h.msg = 0
  BY AtHand DEF NextItem, ProcAt, Handling
<1>2. rest \in Handlers /\ rest.pc = "next" /\ rest.run = h.run /\ rest.msg = 0
  BY <1>1 DEF Handlers
<1>3. proc' = [proc EXCEPT ![x] = r]
  BY DEF NextItem
<1>4. r \in Handlers /\ Handling(x, r, DOMAIN stream)
  <2> HIDE DEF rest
  <2>1. CASE r = rest
    BY <1>1, <1>2, <2>1 DEF Handling
  <2>2. CASE r = [rest EXCEPT !.pc = "post", !.doc = d]
    BY <1>1, <1>2, <2>2 DEF Handling, Handlers, Pcs
  <2>3. CASE d \in Docs /\ r = [rest EXCEPT !.pc = "void", !.doc = d]
    BY <1>1, <1>2, <2>3 DEF Handling, Handlers, Pcs
  <2>4. CASE d \in Invoices /\ r = [rest EXCEPT !.pc = "look", !.inv = d]
    BY <1>1, <1>2, <2>4 DEF Handling, Handlers, Pcs
  <2> QED BY <1>1, <2>1, <2>2, <2>3, <2>4
<1>5. desk' \in 0..MaxDesk
  BY DEF NextItem, SalesIdle, TypeOK, CountsTyped
<1> HIDE DEF r
<1> QED BY <1>3, <1>4, <1>5, StartTyped DEF NextItem, SalesIdle

LEMMA NextListTyped ==
  ASSUME TypeOK, NEW x \in Processes, NextList(x) PROVE TypeOK'
<1> DEFINE again == [Idle EXCEPT !.pc = "next", !.run = "reversals", !.todo = PendingReversals]
           r == IF proc[x].run = "postings" /\ PendingReversals # {} THEN again ELSE Idle
<1>1. PendingReversals \in SUBSET (Docs \cup Invoices)
  BY DEF PendingReversals
<1>2. again \in Handlers /\ Handling(x, again, DOMAIN stream)
  <2>1. again \in Handlers /\ again.pc = "next" /\ again.msg = 0 /\ again.run # "none"
    BY <1>1, IdleTyped DEF Handlers, AnyHandler, Pcs
  <2> HIDE DEF again
  <2> QED BY <2>1 DEF Handling
<1>3. r \in Handlers \cup {Idle} /\ (r # Idle => Handling(x, r, DOMAIN stream))
  <2> HIDE DEF again
  <2> QED BY <1>2
<1>4. proc' = [proc EXCEPT ![x] = r]
  BY DEF NextList
<1>5. desk' \in 0..MaxDesk
  BY DEF NextList, SalesIdle, TypeOK, CountsTyped
<1> HIDE DEF r
<1> QED BY <1>3, <1>4, <1>5, StartTyped DEF NextList, SalesIdle

LEMMA FinanceStepTyped ==
  ASSUME TypeOK, NEW x \in Processes, FinanceStep(x) PROVE TypeOK'
BY PostingTyped, IssuedTyped, RecordedTyped, AdvanceTyped, DeletedTyped, MarkTyped, CancelledTyped,
   NextItemTyped, NextListTyped DEF FinanceStep, AutoPostStep

\* What a message says is what its handler has at hand.
LEMMA ReceiveTyped ==
  ASSUME TypeOK, NEW w \in Workers, NEW k \in DOMAIN stream, Receive(w, k) PROVE TypeOK'
<1> DEFINE m == stream[k].msg
           h == [Idle EXCEPT !.pc = Handler[m.kind], !.msg = k, !.doc = m.pay, !.inv = m.inv]
<1>0. stream \in Seq(Letters) /\ Addressed(m)
  BY DEF TypeOK, StreamTyped
<1>1. m \in Messages /\ Addressed(m) /\ k \in Nat /\ k # 0
  <2>1. stream[k] \in Letters /\ k \in 1..Len(stream)
    BY <1>0
  <2>2. stream[k].msg \in Messages
    BY <2>1 DEF Letters
  <2> QED BY <1>0, <2>1, <2>2
<1>2. Handler[m.kind] \in {"book", "receive", "find", "look"} /\ Handler[m.kind] \in Pcs
  BY <1>1 DEF Handler, Messages, Kinds, Pcs
<1>3. /\ Handler[m.kind] = "book" => m.kind = "issued"
      /\ Handler[m.kind] = "receive" => m.kind = "recorded"
      /\ Handler[m.kind] = "find" => m.kind = "deleted"
      /\ Handler[m.kind] = "look" => m.kind = "cancelled"
  BY <1>1 DEF Handler, Messages, Kinds
<1>4. m.inv \in Invoices \cup {NoInvoice} /\ m.pay \in Docs \cup Invoices \cup {NoDoc}
  BY <1>1, AmountsAreNumbers DEF Messages
<1>5. h \in Handlers /\ h.pc = Handler[m.kind] /\ h.msg = k /\ h.doc = m.pay /\ h.inv = m.inv /\ h.run = "none"
  BY <1>1, <1>2, <1>4, IdleTyped DEF AnyHandler, Handlers
<1>6. Handling(w, h, DOMAIN stream)
  <2> HIDE DEF h, m
  <2> QED BY <1>1, <1>2, <1>3, <1>5 DEF Handling, Addressed
<1>7. proc' = [proc EXCEPT ![w] = h] /\ w \in Processes
  BY DEF Receive, Processes
<1>8. StreamTyped' /\ DOMAIN stream' = DOMAIN stream
  BY StreamMoves DEF Receive, TypeOK
<1>9. ProcsTyped'
  <2> HIDE DEF h
  <2> QED BY <1>5, <1>6, <1>7, <1>8, ProcPut DEF TypeOK
<1> QED BY <1>8, <1>9, OtherFrame DEF Receive, TypeOK, CountsTyped

LEMMA FinanceFailsTyped ==
  ASSUME TypeOK, NEW x \in Processes, FinanceFails(x) PROVE TypeOK'
<1>1. PICK h \in {Idle, Rest(x)} : proc' = [proc EXCEPT ![x] = h]
  BY DEF FinanceFails
<1>2. proc[x].pc # "idle"
  BY DEF FinanceFails, ProcAt
<1>3. h \in Handlers \cup {Idle} /\ (h # Idle => Handling(x, h, DOMAIN stream))
  BY <1>2, RestTyped DEF TypeOK
<1>4. ProcsTyped' /\ StreamTyped'
  BY <1>1, <1>2, <1>3, GivesBack DEF FinanceFails
<1>5. incidents' \in [Invoices \cup Docs \cup Proofs -> SUBSET Incidents]
  <2>1. {"crashed"} \in SUBSET Incidents
    BY DEF Incidents
  <2> QED BY <2>1, IncidentsNoted DEF FinanceFails, TypeOK, CountsTyped
<1>6. faults' \in 0..MaxFaults
  BY FaultsCount DEF FinanceFails, TypeOK
<1> QED BY <1>4, <1>5, <1>6, OtherFrame DEF FinanceFails

LEMMA AckLateTyped ==
  ASSUME TypeOK, NEW w \in Workers, AckLate(w) PROVE TypeOK'
<1>1. w \in Processes /\ proc[w].msg # 0
  BY DEF AckLate, ByMessage, Processes
<1>2. proc[w].pc # "idle"
  <2>1. CASE proc[w] = Idle
    BY <1>1, <2>1, IdleTyped
  <2>2. CASE proc[w] # Idle
    BY <1>1, <2>2 DEF TypeOK, ProcsTyped, Handlers, Pcs
  <2> QED BY <2>1, <2>2
<1>3. proc[w].msg \in DOMAIN stream
  BY <1>1, <1>2, AtHand DEF Handling
<1>4. StreamTyped' /\ DOMAIN stream' = DOMAIN stream
  BY <1>3, StreamMoves DEF AckLate, TypeOK
<1>5. ProcsTyped'
  BY <1>4, ProcsStay DEF AckLate, TypeOK
<1>6. faults' \in 0..MaxFaults
  BY FaultsCount DEF AckLate, TypeOK
<1> QED BY <1>4, <1>5, <1>6, OtherFrame DEF AckLate, TypeOK, CountsTyped

LEMMA StartsTyped ==
  ASSUME TypeOK, NEW c \in Clerks, NEW op, NEW h \in Handlers, Handling(c, h, DOMAIN stream),
         Starts(c, op, h)
  PROVE TypeOK'
<1>1. c \in Processes /\ desk' \in 0..MaxDesk
  BY ReceivablesAssumption DEF Starts, Processes, TypeOK, CountsTyped
<1> QED BY <1>1, StartTyped DEF Starts

LEMMA DeskTyped ==
  ASSUME TypeOK, NEW c \in Clerks, DeskRequest(c) \/ RunSchedules(c) PROVE TypeOK'
<1>1. ASSUME NEW i \in Invoices, NEW n \in Amounts,
             Starts(c, "receipt", [Idle EXCEPT !.pc = "insert", !.inv = i, !.amount = n])
      PROVE TypeOK'
  <2> DEFINE h == [Idle EXCEPT !.pc = "insert", !.inv = i, !.amount = n]
  <2>1. n \in Nat
    BY AmountsAreNumbers
  <2>2. h \in Handlers /\ h.pc = "insert" /\ h.inv = i /\ h.msg = 0
    BY <2>1, IdleTyped DEF AnyHandler, Handlers, Pcs
  <2> HIDE DEF h
  <2>3. Handling(c, h, DOMAIN stream)
    BY <2>2 DEF Handling
  <2> QED BY <1>1, <2>2, <2>3, StartsTyped DEF h
<1>2. ASSUME NEW i \in Invoices, NEW method \in {"credit note", "write-off"},
             Starts(c, method, [Idle EXCEPT !.pc = "credit", !.inv = i, !.method = method])
      PROVE TypeOK'
  <2> DEFINE h == [Idle EXCEPT !.pc = "credit", !.inv = i, !.method = method]
  <2>1. method \in Methods
    BY DEF Methods
  <2>2. h \in Handlers /\ h.pc = "credit" /\ h.inv = i /\ h.msg = 0
    BY <2>1, IdleTyped DEF AnyHandler, Handlers, Pcs
  <2> HIDE DEF h
  <2>3. Handling(c, h, DOMAIN stream)
    BY <2>2 DEF Handling
  <2> QED BY <1>2, <2>2, <2>3, StartsTyped DEF h
<1>3. ASSUME NEW pc \in {"void", "post"}, NEW d \in Docs \cup Invoices, pc = "void" => d \in Docs,
             NEW op, Starts(c, op, [Idle EXCEPT !.pc = pc, !.doc = d])
      PROVE TypeOK'
  <2> DEFINE h == [Idle EXCEPT !.pc = pc, !.doc = d]
  <2>2. h \in Handlers /\ h.pc = pc /\ h.doc = d /\ h.msg = 0
    BY IdleTyped DEF AnyHandler, Handlers, Pcs
  <2> HIDE DEF h
  <2>3. Handling(c, h, DOMAIN stream)
    BY <1>3, <2>2 DEF Handling
  <2> QED BY <1>3, <2>2, <2>3, StartsTyped DEF h
<1>4. CASE RunSchedules(c)
  <2>1. Handling(c, Run, DOMAIN stream) /\ Run \in Handlers
    BY RunTyped DEF Handling
  <2> QED BY <1>4, <2>1, StartsTyped DEF RunSchedules
<1>5. drafts \subseteq Docs \cup Invoices
  BY DEF TypeOK, BooksTyped
<1> QED BY <1>1, <1>2, <1>3, <1>4, <1>5 DEF DeskRequest

LEMMA PeriodTyped ==
  ASSUME TypeOK, NEW to \in {"OPEN", "CLOSED"}, SetPeriod(to) PROVE TypeOK'
<1>1. SalesTyped' /\ StreamTyped' /\ DOMAIN stream \subseteq DOMAIN stream'
  BY DEF TypeOK, SalesTyped, SetPeriod, sales, StreamTyped
<1>2. CountsTyped'
  BY ReceivablesAssumption DEF TypeOK, CountsTyped, SetPeriod
<1> QED BY <1>1, <1>2, BooksStay, ProcsStay DEF TypeOK, SetPeriod

\* Every variable has its type, every request and every handler has at hand what
\* the step it is at works on, and a message in the stream says what it is about.
THEOREM Typing == Spec => []TypeOK
<1>1. TypeOK /\ Next => TypeOK'
  BY RequestTyped, SalesTypedSteps, RunDueTyped, ReceiveTyped, DeskTyped, PeriodTyped,
     FinanceStepTyped, FinanceFailsTyped, AckLateTyped DEF Next
<1>2. TypeOK /\ UNCHANGED vars => TypeOK'
  BY ProcsStay DEF vars, TypeOK, SalesTyped, BooksTyped, StreamTyped, CountsTyped
<1> QED BY <1>1, <1>2, InitTyped, PTL DEF Spec
=============================================================================
