---------------------------- MODULE BillingProofs ----------------------------
(***************************************************************************)
(* What sales and finance know of each other, for every value of the       *)
(* constants: finance books what an invoice says (BookedAsBilled), hears   *)
(* of its cancellation (CancelledIsTold), and a transfer proof counts once *)
(* (ProofCountedOnce). Finance's steps leave sales and what was said       *)
(* alone, so most of the work is in sales' own steps.                      *)
(***************************************************************************)
EXTENDS LedgerProofs

\* Nothing more is said, and nothing that was said is lost.
SameMessages ==
  DOMAIN stream' = DOMAIN stream /\ \A k \in DOMAIN stream : stream'[k].msg = stream[k].msg

\* The steps in which a message of each kind is handled.
Stages == {{"book"}, {"receive", "advance", "insert", "commit", "journal"},
           {"find", "void", "reverse", "mark"}, {"look", "credit", "note", "settle"}}

SameStage(p, q) == \E s \in Stages : p \in s /\ q \in s

\* A handler stays with its message or its run until it is done with it.
Ends(x, h) ==
  /\ h.msg = 0
  /\ \/ h.pc = "idle" /\ h.run = "none"
     \/ h.pc = "next" /\ h.run = proc[x].run /\ h.todo = proc[x].todo

GoesOnWith(x, h) ==
  /\ h.msg = proc[x].msg /\ h.run = proc[x].run /\ h.todo = proc[x].todo
  /\ h.doc = proc[x].doc /\ h.inv = proc[x].inv /\ SameStage(proc[x].pc, h.pc)

Begins(x, h) == proc[x].pc \in {"idle", "next"} /\ h.msg = 0

StaysWith(x, h) == Ends(x, h) \/ GoesOnWith(x, h) \/ Begins(x, h)

\* What a handler has at hand is what its message says.
Carries(x) ==
  LET h == proc[x]
      m == stream[h.msg].msg
  IN  h.msg # 0 =>
        /\ h.pc = "book" => m.kind = "issued" /\ h.inv = m.inv
        /\ h.pc \in {"receive", "advance", "insert", "commit", "journal"} =>
             m.kind = "recorded" /\ h.doc = m.pay /\ h.inv = m.inv
        /\ h.pc \in {"find", "void", "reverse", "mark"} => m.kind = "deleted" /\ h.doc = m.pay
        /\ h.pc \in {"look", "credit", "note", "settle"} => m.kind = "cancelled" /\ h.inv = m.inv
        /\ h.pc \notin {"post", "next"}

CarriesInv == \A x \in Processes : Carries(x)

-----------------------------------------------------------------------------
(***************************************************************************)
(* What finance's steps leave alone.                                       *)
(***************************************************************************)
LEMMA SameMessagesBy ==
  ASSUME TypeOK, NEW x \in Processes, proc[x].pc # "idle",
         Done(x) \/ (proc[x].msg # 0 /\ Nak(x)) \/ UNCHANGED stream
  PROVE SameMessages
<1>1. CASE UNCHANGED stream
  BY <1>1 DEF SameMessages
<1>2. CASE ~UNCHANGED stream
  <2>1. proc[x].msg # 0 /\ (Ack(proc[x].msg) \/ Return(proc[x].msg))
    BY <1>2 DEF Done, Nak, ByMessage
  <2>2. proc[x].msg \in DOMAIN stream
    BY <2>1, AtHand DEF Handling
  <2> QED BY <2>1, <2>2, StreamMoves DEF TypeOK, SameMessages
<1> QED BY <1>1, <1>2

LEMMA RestEnds ==
  ASSUME TypeOK, NEW x \in Processes, proc[x].pc # "idle" PROVE Ends(x, Rest(x)) /\ Ends(x, Idle)
<1>1. Idle.msg = 0 /\ Idle.pc = "idle" /\ Idle.run = "none"
  BY IdleTyped DEF AnyHandler
<1>2. CASE ~InRun(x)
  BY <1>1, <1>2 DEF Ends, Rest
<1>3. CASE InRun(x)
  <2> DEFINE r == [Idle EXCEPT !.pc = "next", !.run = proc[x].run, !.todo = proc[x].todo]
  <2>1. r.msg = 0 /\ r.pc = "next" /\ r.run = proc[x].run /\ r.todo = proc[x].todo
    BY IdleTyped DEF AnyHandler
  <2> HIDE DEF r
  <2> QED BY <1>1, <1>3, <2>1 DEF Ends, Rest, r
<1> QED BY <1>2, <1>3

LEMMA DoneStays ==
  ASSUME TypeOK, NEW x \in Processes, proc[x].pc # "idle", Done(x) \/ Nak(x)
  PROVE \E h : proc' = [proc EXCEPT ![x] = h] /\ StaysWith(x, h)
<1>1. Ends(x, Rest(x)) /\ Ends(x, Idle)
  BY RestEnds
<1> QED BY <1>1 DEF Done, Nak, StaysWith

LEMMA PutStays ==
  ASSUME TypeOK, NEW x \in Processes, proc[x].pc # "idle", NEW pc, SameStage(proc[x].pc, pc),
         NEW h, proc' = [proc EXCEPT ![x] = h], h.pc = pc, h.msg = proc[x].msg, h.doc = proc[x].doc,
         h.inv = proc[x].inv, h.run = proc[x].run, h.todo = proc[x].todo
  PROVE \E g : proc' = [proc EXCEPT ![x] = g] /\ StaysWith(x, g)
BY DEF StaysWith, GoesOnWith

LEMMA GoesStays ==
  ASSUME TypeOK, NEW x \in Processes, proc[x].pc # "idle", NEW pc \in Pcs, Goes(x, pc),
         SameStage(proc[x].pc, pc)
  PROVE \E h : proc' = [proc EXCEPT ![x] = h] /\ StaysWith(x, h)
<1> DEFINE h == [proc[x] EXCEPT !.pc = pc]
<1>1. /\ h.pc = pc /\ h.msg = proc[x].msg /\ h.doc = proc[x].doc /\ h.inv = proc[x].inv
      /\ h.run = proc[x].run /\ h.todo = proc[x].todo
  BY AtHand DEF Handlers
<1>2. proc' = [proc EXCEPT ![x] = h]
  BY DEF Goes
<1> HIDE DEF h
<1> QED BY <1>1, <1>2, PutStays

LEMMA VoidedStays ==
  ASSUME TypeOK, NEW x \in Processes, proc[x].pc \in {"void", "reverse"}, Voided(x)
  PROVE \E h : proc' = [proc EXCEPT ![x] = h] /\ StaysWith(x, h)
<1>1. CASE AtDesk(x)
  BY <1>1, DoneStays DEF Voided
<1>2. CASE ~AtDesk(x)
  <2>1. SameStage(proc[x].pc, "mark")
    BY DEF SameStage, Stages
  <2> QED BY <1>2, <2>1, GoesStays DEF Voided, Pcs
<1> QED BY <1>1, <1>2

LEMMA VoidedMessages ==
  ASSUME NEW x, Voided(x) PROVE Done(x) \/ UNCHANGED stream
BY DEF Voided, Goes

\* A step of finance leaves sales and the messages alone, and its handler stays
\* with its message.
Apart(x) ==
  /\ UNCHANGED sales /\ SameMessages /\ Remembered
  /\ \E h : proc' = [proc EXCEPT ![x] = h] /\ StaysWith(x, h)

LEMMA PostApart ==
  ASSUME TypeOK, NEW x \in Processes, PostPaymentJournal(x) \/ RetryPosting(x) PROVE Apart(x)
<1>1. proc[x].pc # "idle" /\ Done(x) /\ UNCHANGED sales
  BY DEF PostPaymentJournal, RetryPosting, ProcAt, SalesIdle
<1>2. Remembered
  BY NotedRemembers DEF PostPaymentJournal, RetryPosting
<1> QED BY <1>1, <1>2, SameMessagesBy, DoneStays DEF Apart

LEMMA CheckAllocationApart ==
  ASSUME TypeOK, NEW x \in Processes, CheckAllocation(x) PROVE Apart(x)
<1> DEFINE h == [proc[x] EXCEPT !.pc = "commit", !.seen = ar[proc[x].inv].allocated]
<1>1. proc[x].pc = "insert" /\ UNCHANGED sales /\ Remembered /\ proc[x] \in Handlers
  BY NotedRemembers, AtHand DEF CheckAllocation, ProcAt, SalesIdle
<1>2. SameMessages
  BY <1>1, SameMessagesBy DEF CheckAllocation
<1>3. \E g : proc' = [proc EXCEPT ![x] = g] /\ StaysWith(x, g)
  <2>1. CASE Done(x)
    BY <1>1, <2>1, DoneStays
  <2>2. CASE proc' = [proc EXCEPT ![x] = h]
    <3>1. SameStage(proc[x].pc, "commit")
      BY <1>1 DEF SameStage, Stages
    <3>2. /\ h.pc = "commit" /\ h.msg = proc[x].msg /\ h.doc = proc[x].doc /\ h.inv = proc[x].inv
          /\ h.run = proc[x].run /\ h.todo = proc[x].todo
      BY <1>1 DEF Handlers
    <3> HIDE DEF h
    <3> QED BY <1>1, <2>2, <3>1, <3>2, PutStays
  <2> QED BY <2>1, <2>2 DEF CheckAllocation
<1> QED BY <1>1, <1>2, <1>3 DEF Apart

LEMMA CommitSalesApart ==
  ASSUME TypeOK, NEW x \in Processes, CommitSalesReceipt(x) PROVE Apart(x)
<1>1. proc[x].pc = "commit" /\ UNCHANGED sales /\ Remembered
  BY NotedRemembers DEF CommitSalesReceipt, Allocate, ProcAt, SalesIdle
<1>2. Done(x) \/ Goes(x, "journal")
  BY DEF CommitSalesReceipt
<1>3. SameMessages
  BY <1>1, <1>2, SameMessagesBy DEF Goes
<1>4. SameStage(proc[x].pc, "journal")
  BY <1>1 DEF SameStage, Stages
<1> QED BY <1>1, <1>2, <1>3, <1>4, DoneStays, GoesStays DEF Apart, Pcs

LEMMA ReceiptApart ==
  ASSUME TypeOK, NEW x \in Processes, RecordReceipt(x) PROVE Apart(x)
<1>1. proc[x].pc # "idle" /\ Done(x) /\ UNCHANGED sales /\ Remembered
  BY NotedRemembers DEF RecordReceipt, CommitVoucher, Allocate, ProcAt, SalesIdle
<1> QED BY <1>1, SameMessagesBy, DoneStays DEF Apart

LEMMA CheckCreditApart ==
  ASSUME TypeOK, NEW x \in Processes, CheckCredit(x) PROVE Apart(x)
<1> DEFINE i == proc[x].inv
           h == [proc[x] EXCEPT !.pc = "note", !.amount = Outstanding(i), !.seen = ar[i].allocated]
<1>1. proc[x].pc = "credit" /\ UNCHANGED sales /\ Remembered /\ proc[x] \in Handlers
  BY NotedRemembers, AtHand DEF CheckCredit, ProcAt, SalesIdle
<1>2. SameMessages
  BY <1>1, SameMessagesBy DEF CheckCredit, Goes
<1>3. \E g : proc' = [proc EXCEPT ![x] = g] /\ StaysWith(x, g)
  <2>1. CASE Done(x)
    BY <1>1, <2>1, DoneStays
  <2>2. CASE Goes(x, "settle")
    <3>1. SameStage(proc[x].pc, "settle")
      BY <1>1 DEF SameStage, Stages
    <3> QED BY <1>1, <2>2, <3>1, GoesStays DEF Pcs
  <2>3. CASE proc' = [proc EXCEPT ![x] = h]
    <3>1. SameStage(proc[x].pc, "note")
      BY <1>1 DEF SameStage, Stages
    <3>2. /\ h.pc = "note" /\ h.msg = proc[x].msg /\ h.doc = proc[x].doc /\ h.inv = proc[x].inv
          /\ h.run = proc[x].run /\ h.todo = proc[x].todo
      BY <1>1 DEF Handlers
    <3> HIDE DEF h
    <3> QED BY <1>1, <2>3, <3>1, <3>2, PutStays
  <2> QED BY <2>1, <2>2, <2>3 DEF CheckCredit
<1> QED BY <1>1, <1>2, <1>3 DEF Apart

LEMMA NoteApart ==
  ASSUME TypeOK, NEW x \in Processes, CreateCreditNote(x) PROVE Apart(x)
<1>1. proc[x].pc = "note" /\ UNCHANGED sales /\ Remembered /\ proc[x] \in Handlers
  BY NotedRemembers, AtHand DEF CreateCreditNote, CommitVoucher, Allocate, ProcAt, SalesIdle
<1>2. SameMessages
  BY <1>1, SameMessagesBy DEF CreateCreditNote, Credited
<1>3. PICK ok \in BOOLEAN : Credited(x, ok)
  BY DEF CreateCreditNote
<1>4. \E g : proc' = [proc EXCEPT ![x] = g] /\ StaysWith(x, g)
  <2> DEFINE h == [proc[x] EXCEPT !.pc = "settle", !.ok = ok]
  <2>1. CASE Done(x)
    BY <1>1, <2>1, DoneStays
  <2>2. CASE proc' = [proc EXCEPT ![x] = h]
    <3>1. SameStage(proc[x].pc, "settle")
      BY <1>1 DEF SameStage, Stages
    <3>2. /\ h.pc = "settle" /\ h.msg = proc[x].msg /\ h.doc = proc[x].doc /\ h.inv = proc[x].inv
          /\ h.run = proc[x].run /\ h.todo = proc[x].todo
      BY <1>1 DEF Handlers
    <3> HIDE DEF h
    <3> QED BY <1>1, <2>2, <3>1, <3>2, PutStays
  <2> QED BY <1>3, <2>1, <2>2 DEF Credited
<1> QED BY <1>1, <1>2, <1>4 DEF Apart

LEMMA VoidApart ==
  ASSUME TypeOK, NEW x \in Processes, CheckVoid(x) \/ VoidPayment(x) PROVE Apart(x)
<1>1. proc[x].pc \in {"void", "reverse"} /\ UNCHANGED sales /\ Remembered
  BY NotedRemembers DEF CheckVoid, VoidPayment, ProcAt, SalesIdle
<1>2. Voided(x) \/ (proc[x].pc = "void" /\ Goes(x, "reverse"))
  BY DEF CheckVoid, VoidPayment, ProcAt
<1>3. SameMessages
  BY <1>1, <1>2, SameMessagesBy, VoidedMessages DEF Goes
<1>4. CASE Voided(x)
  BY <1>1, <1>3, <1>4, VoidedStays DEF Apart
<1>5. CASE proc[x].pc = "void" /\ Goes(x, "reverse")
  <2>1. SameStage(proc[x].pc, "reverse")
    BY <1>5 DEF SameStage, Stages
  <2> QED BY <1>1, <1>3, <1>5, <2>1, GoesStays DEF Apart, Pcs
<1> QED BY <1>2, <1>4, <1>5

LEMMA IssuedApart ==
  ASSUME TypeOK, NEW w \in Processes, SalesInvoiceIssued(w) PROVE Apart(w)
<1>1. proc[w].pc # "idle" /\ Done(w) /\ UNCHANGED sales /\ Remembered
  BY NotedRemembers DEF SalesInvoiceIssued, ProcAt, SalesIdle
<1> QED BY <1>1, SameMessagesBy, DoneStays DEF Apart

LEMMA RecordedApart ==
  ASSUME TypeOK, NEW w \in Processes, SalesPaymentRecorded(w) PROVE Apart(w)
<1> DEFINE p == proc[w].doc
           open == Outstanding(proc[w].inv)
           h == [proc[w] EXCEPT !.pc = "insert", !.amount = IF Amount[p] < open THEN Amount[p] ELSE open]
<1>1. /\ proc[w].pc = "receive" /\ proc[w].msg # 0 /\ UNCHANGED sales /\ Remembered
      /\ proc[w] \in Handlers
  BY NotedRemembers, AtHand DEF SalesPaymentRecorded, ProcAt, SalesIdle, Handling
<1>2. \/ Done(w) \/ Nak(w) \/ Goes(w, "advance")
      \/ proc' = [proc EXCEPT ![w] = h] /\ UNCHANGED stream
  BY DEF SalesPaymentRecorded
<1>3. SameMessages
  BY <1>1, <1>2, SameMessagesBy DEF Goes
<1>4. \E g : proc' = [proc EXCEPT ![w] = g] /\ StaysWith(w, g)
  <2>1. CASE Done(w) \/ Nak(w)
    BY <1>1, <2>1, DoneStays
  <2>2. CASE Goes(w, "advance")
    <3>1. SameStage(proc[w].pc, "advance")
      BY <1>1 DEF SameStage, Stages
    <3> QED BY <1>1, <2>2, <3>1, GoesStays DEF Pcs
  <2>3. CASE proc' = [proc EXCEPT ![w] = h]
    <3>1. SameStage(proc[w].pc, "insert")
      BY <1>1 DEF SameStage, Stages
    <3>2. /\ h.pc = "insert" /\ h.msg = proc[w].msg /\ h.doc = proc[w].doc /\ h.inv = proc[w].inv
          /\ h.run = proc[w].run /\ h.todo = proc[w].todo
      BY <1>1 DEF Handlers
    <3> HIDE DEF h
    <3> QED BY <1>1, <2>3, <3>1, <3>2, PutStays
  <2> QED BY <1>2, <2>1, <2>2, <2>3
<1> QED BY <1>1, <1>3, <1>4 DEF Apart

LEMMA AdvanceApart ==
  ASSUME TypeOK, NEW w \in Processes, SalesPaymentAdvance(w) PROVE Apart(w)
<1>1. proc[w].pc # "idle" /\ Done(w) /\ UNCHANGED sales /\ Remembered
  BY NotedRemembers DEF SalesPaymentAdvance, ProcAt, SalesIdle
<1> QED BY <1>1, SameMessagesBy, DoneStays DEF Apart

LEMMA DeletedApart ==
  ASSUME TypeOK, NEW w \in Processes, SalesPaymentDeleted(w) PROVE Apart(w)
<1>1. proc[w].pc = "find" /\ proc[w].msg # 0 /\ UNCHANGED sales /\ Remembered
  BY NotedRemembers, AtHand DEF SalesPaymentDeleted, ProcAt, SalesIdle, Handling
<1>2. Done(w) \/ Nak(w) \/ Goes(w, "void")
  BY DEF SalesPaymentDeleted, NotYetHere
<1>3. SameMessages
  BY <1>1, <1>2, SameMessagesBy DEF Goes
<1>4. SameStage(proc[w].pc, "void")
  BY <1>1 DEF SameStage, Stages
<1> QED BY <1>1, <1>2, <1>3, <1>4, DoneStays, GoesStays DEF Apart, Pcs

LEMMA MarkApart ==
  ASSUME TypeOK, NEW x \in Processes, MarkPayment(x) \/ MarkInvoice(x) PROVE Apart(x)
<1>1. proc[x].pc # "idle" /\ Done(x) /\ UNCHANGED sales /\ Remembered
  BY NotedRemembers DEF MarkPayment, MarkInvoice, ProcAt, SalesIdle
<1> QED BY <1>1, SameMessagesBy, DoneStays DEF Apart

LEMMA CancelledApart ==
  ASSUME TypeOK, NEW x \in Processes, SalesInvoiceCancelled(x) PROVE Apart(x)
<1> DEFINE i == proc[x].inv
           pc == IF Outstanding(i) = 0 THEN "settle" ELSE "credit"
           h == [proc[x] EXCEPT !.pc = pc, !.ok = Outstanding(i) = 0, !.method = "credit note"]
<1>1. proc[x].pc = "look" /\ UNCHANGED sales /\ Remembered /\ proc[x] \in Handlers
  BY NotedRemembers, AtHand DEF SalesInvoiceCancelled, ProcAt, SalesIdle
<1>2. \/ proc[x].msg # 0 /\ Nak(x)
      \/ proc' = [proc EXCEPT ![x] = h] /\ UNCHANGED stream
  BY DEF SalesInvoiceCancelled, ByMessage, NotYetBooked
<1>3. SameMessages
  BY <1>1, <1>2, SameMessagesBy
<1>4. CASE Nak(x)
  BY <1>1, <1>3, <1>4, DoneStays DEF Apart
<1>5. CASE proc' = [proc EXCEPT ![x] = h]
  <2>1. SameStage(proc[x].pc, pc)
    BY <1>1 DEF SameStage, Stages
  <2>2. /\ h.pc = pc /\ h.msg = proc[x].msg /\ h.doc = proc[x].doc /\ h.inv = proc[x].inv
        /\ h.run = proc[x].run /\ h.todo = proc[x].todo
    <3> HIDE DEF pc
    <3> QED BY <1>1 DEF Handlers
  <2> HIDE DEF h, pc
  <2>3. \E g : proc' = [proc EXCEPT ![x] = g] /\ StaysWith(x, g)
    BY <1>1, <1>5, <2>1, <2>2, PutStays
  <2> QED BY <1>1, <1>3, <2>3 DEF Apart
<1> QED BY <1>2, <1>4, <1>5

LEMMA NextApart ==
  ASSUME TypeOK, NEW x \in Processes, NextList(x) \/ \E d \in proc[x].todo : NextItem(x, d) PROVE Apart(x)
<1>1. proc[x].pc = "next" /\ UNCHANGED <<sales, stream, incidents>>
  BY DEF NextList, NextItem, ProcAt, SalesIdle
<1>2. proc[x].msg = 0 /\ proc[x] \in Handlers
  BY <1>1, AtHand DEF Handling
<1>3. SameMessages /\ Remembered
  BY <1>1, NotedRemembers DEF SameMessages
<1>4. \E h : proc' = [proc EXCEPT ![x] = h] /\ h.msg = 0
  <2>1. CASE NextList(x)
    <3> DEFINE again == [Idle EXCEPT !.pc = "next", !.run = "reversals", !.todo = PendingReversals]
    <3>1. again.msg = 0 /\ Idle.msg = 0
      BY IdleTyped DEF AnyHandler
    <3>2. \E h \in {again, Idle} : proc' = [proc EXCEPT ![x] = h]
      BY <2>1 DEF NextList
    <3> HIDE DEF again
    <3> QED BY <3>1, <3>2
  <2>2. ASSUME NEW d \in proc[x].todo, NextItem(x, d)
        PROVE \E h : proc' = [proc EXCEPT ![x] = h] /\ h.msg = 0
    <3> DEFINE rest == [proc[x] EXCEPT !.todo = proc[x].todo \ {d}]
               post == [rest EXCEPT !.pc = "post", !.doc = d]
               void == [rest EXCEPT !.pc = "void", !.doc = d]
               look == [rest EXCEPT !.pc = "look", !.inv = d]
               r == IF proc[x].run = "postings" THEN IF d \in drafts THEN post ELSE rest
                    ELSE IF d \in Docs THEN void ELSE look
    <3>1. rest.msg = 0 /\ post.msg = 0 /\ void.msg = 0 /\ look.msg = 0
      BY <1>2 DEF Handlers
    <3>2. proc' = [proc EXCEPT ![x] = r]
      BY <2>2 DEF NextItem
    <3> HIDE DEF rest, void, look, post
    <3>3. r.msg = 0
      BY <3>1
    <3> HIDE DEF r
    <3> QED BY <3>2, <3>3
  <2> QED BY <2>1, <2>2
<1> QED BY <1>1, <1>3, <1>4 DEF Apart, StaysWith, Begins

LEMMA FinanceApart ==
  ASSUME TypeOK, NEW x \in Processes, FinanceStep(x) PROVE Apart(x)
BY PostApart, CheckAllocationApart, CommitSalesApart, ReceiptApart, CheckCreditApart, NoteApart, VoidApart,
   IssuedApart, RecordedApart, AdvanceApart, DeletedApart, MarkApart, CancelledApart, NextApart
   DEF FinanceStep, PostingStep, AutoPostStep

LEMMA FailsApart ==
  ASSUME TypeOK, NEW x \in Processes, FinanceFails(x) PROVE Apart(x)
<1>1. proc[x].pc # "idle" /\ UNCHANGED sales /\ Remembered
  BY NotedRemembers DEF FinanceFails, ProcAt, SalesIdle
<1>2. SameMessages
  <2>1. CASE proc[x].msg # 0
    <3>1. proc[x].msg \in DOMAIN stream
      BY <1>1, <2>1, AtHand DEF Handling
    <3> QED BY <2>1, <3>1, StreamMoves DEF FinanceFails, ByMessage, TypeOK, SameMessages
  <2>2. CASE proc[x].msg = 0
    BY <2>2 DEF FinanceFails, ByMessage, SameMessages
  <2> QED BY <2>1, <2>2
<1>3. \E h : proc' = [proc EXCEPT ![x] = h] /\ Ends(x, h)
  BY <1>1, RestEnds DEF FinanceFails
<1> QED BY <1>1, <1>2, <1>3 DEF Apart, StaysWith

LEMMA StartApart ==
  ASSUME TypeOK, NEW x \in Processes, UNCHANGED <<sales, stream, incidents>>,
         proc[x].pc = "idle", NEW h, proc' = [proc EXCEPT ![x] = h], h.msg = 0
  PROVE Apart(x)
BY NotedRemembers DEF Apart, SameMessages, StaysWith, Begins

LEMMA RunApart ==
  ASSUME TypeOK, NEW x \in Processes, RunSchedules(x) \/ (x \in Workers /\ RunDue(x))
  PROVE Apart(x)
BY RunTyped, StartApart DEF RunSchedules, Starts, RunDue, SalesIdle, ProcAt

LEMMA DeskApart ==
  ASSUME TypeOK, NEW c \in Clerks, DeskRequest(c) PROVE Apart(c)
<1>0. c \in Processes
  BY DEF Processes
<1>1. ASSUME NEW op, NEW h, Starts(c, op, h), h.msg = 0 PROVE Apart(c)
  BY <1>0, <1>1, StartApart DEF Starts, ProcAt
<1>2. ASSUME NEW i, NEW n, NEW op, Starts(c, op, [Idle EXCEPT !.pc = "insert", !.inv = i, !.amount = n])
      PROVE Apart(c)
  <2> DEFINE h == [Idle EXCEPT !.pc = "insert", !.inv = i, !.amount = n]
  <2>1. h.msg = 0
    BY IdleTyped DEF AnyHandler
  <2> HIDE DEF h
  <2> QED BY <1>1, <1>2, <2>1 DEF h
<1>3. ASSUME NEW i, NEW method, NEW op,
             Starts(c, op, [Idle EXCEPT !.pc = "credit", !.inv = i, !.method = method])
      PROVE Apart(c)
  <2> DEFINE h == [Idle EXCEPT !.pc = "credit", !.inv = i, !.method = method]
  <2>1. h.msg = 0
    BY IdleTyped DEF AnyHandler
  <2> HIDE DEF h
  <2> QED BY <1>1, <1>3, <2>1 DEF h
<1>4. ASSUME NEW pc, NEW d, NEW op, Starts(c, op, [Idle EXCEPT !.pc = pc, !.doc = d]) PROVE Apart(c)
  <2> DEFINE h == [Idle EXCEPT !.pc = pc, !.doc = d]
  <2>1. h.msg = 0
    BY IdleTyped DEF AnyHandler
  <2> HIDE DEF h
  <2> QED BY <1>1, <1>4, <2>1 DEF h
<1> QED BY <1>2, <1>3, <1>4 DEF DeskRequest

\* A message that is received is what its handler is given.
LEMMA ReceiveCarries ==
  ASSUME TypeOK, NEW w \in Workers, NEW k \in DOMAIN stream, Receive(w, k)
  PROVE /\ UNCHANGED sales /\ SameMessages /\ Remembered
        /\ Carries(w)' /\ \A y \in Processes : y # w => proc'[y] = proc[y]
<1> DEFINE m == stream[k].msg
           h == [Idle EXCEPT !.pc = Handler[m.kind], !.msg = k, !.doc = m.pay, !.inv = m.inv]
<1>1. m.kind \in Kinds
  <2>1. stream[k] \in Letters
    BY DEF TypeOK, StreamTyped
  <2> QED BY <2>1 DEF Letters, Messages
<1>2. SameMessages
  BY StreamMoves DEF Receive, TypeOK, SameMessages
<1>3. h.pc = Handler[m.kind] /\ h.msg = k /\ h.doc = m.pay /\ h.inv = m.inv
  BY IdleTyped DEF AnyHandler
<1>4. /\ proc'[w] = h /\ \A y \in Processes : y # w => proc'[y] = proc[y]
      /\ UNCHANGED sales /\ Remembered /\ stream'[k].msg = m
  BY <1>2, OneMoves, NotedRemembers DEF Receive, Processes, SalesIdle, SameMessages
<1>5. Carries(w)'
  <2> HIDE DEF h, m
  <2>1. proc'[w].msg = k /\ proc'[w].pc = Handler[m.kind] /\ proc'[w].doc = m.pay /\ proc'[w].inv = m.inv
    BY <1>3, <1>4
  <2> QED BY <1>1, <1>4, <2>1 DEF Carries, Handler, Kinds
<1> QED BY <1>2, <1>4, <1>5

\* Whatever finance does: sales, messages and history are kept, and one process
\* moves, with its message.
FinanceNext ==
  \/ \E w \in Workers : RunDue(w) \/ AckLate(w) \/ \E k \in DOMAIN stream : Receive(w, k)
  \/ \E c \in Clerks : DeskRequest(c) \/ RunSchedules(c)
  \/ \E to \in {"OPEN", "CLOSED"} : SetPeriod(to)
  \/ \E x \in Processes : FinanceStep(x) \/ FinanceFails(x)
  \/ UNCHANGED vars

SalesNext == SalesRequest \/ \E a \in Staff : SalesStep(a) \/ RequestFails(a)

LEMMA SidesOfNext == [Next]_vars => SalesNext \/ FinanceNext
BY DEF Next, SalesNext, FinanceNext

LEMMA CarriesKept ==
  ASSUME TypeOK, CarriesInv, NEW x \in Processes, Apart(x) PROVE CarriesInv'
<1>1. ASSUME NEW y \in Processes, proc[y].msg # 0 PROVE stream'[proc[y].msg].msg = stream[proc[y].msg].msg
  <2>1. proc[y] # Idle
    BY <1>1, IdleTyped
  <2>2. proc[y].msg \in DOMAIN stream
    BY <1>1, <2>1 DEF TypeOK, ProcsTyped, Handling
  <2> QED BY <2>2 DEF Apart, SameMessages
<1>2. PICK h : proc' = [proc EXCEPT ![x] = h] /\ StaysWith(x, h)
  BY DEF Apart
<1>3. proc'[x] = h /\ \A y \in Processes : y # x => proc'[y] = proc[y]
  BY <1>2, OneMoves
<1>4. Carries(x)'
  <2>1. CASE h.msg = 0
    BY <1>3, <2>1 DEF Carries
  <2>2. CASE h.msg # 0
    <3>1. GoesOnWith(x, h)
      BY <1>2, <2>2 DEF StaysWith, Ends, Begins
    <3> QED BY <1>1, <1>3, <2>2, <3>1 DEF Carries, CarriesInv, GoesOnWith, SameStage, Stages
  <2> QED BY <2>1, <2>2
<1>5. ASSUME NEW y \in Processes, y # x PROVE Carries(y)'
  BY <1>1, <1>3, <1>5 DEF Carries, CarriesInv
<1> QED BY <1>4, <1>5 DEF CarriesInv

-----------------------------------------------------------------------------
(***************************************************************************)
(* What people in sales do, and what is said of it.                        *)
(***************************************************************************)
LEMMA OneAsks ==
  ASSUME TypeOK, NEW a \in Staff, NEW r, req' = [req EXCEPT ![a] = r]
  PROVE req'[a] = r /\ \A b \in Staff : b # a => req'[b] = req[b]
BY DEF TypeOK, SalesTyped

\* Nobody says anything new but by the request that moves, and what was to be said
\* still is, but for what that request had to say.
LEMMA SaysBy ==
  ASSUME TypeOK, NEW a \in Staff, NEW r, req' = [req EXCEPT ![a] = r], UNCHANGED stream, NEW m
  PROVE /\ SentOrToSend(m)' => SentOrToSend(m) \/ (r.step = "publish" /\ r.letter = m)
        /\ SentOrToSend(m) => SentOrToSend(m)' \/ (req[a].step = "publish" /\ req[a].letter = m)
        /\ r.step = "publish" /\ r.letter = m => SentOrToSend(m)'
BY OneAsks DEF SentOrToSend, Letter

LEMMA NoReqTyped == NoReq.step = "idle" /\ NoReq.op = "none" /\ NoReq.pay = NoDoc
BY DEF NoReq

LEMMA Asking ==
  ASSUME TypeOK, NEW a \in Staff
  PROVE /\ req[a].step = "idle" => req[a] = NoReq
        /\ req[a].step # "idle" => req[a] \in Requests /\ Requested(req[a])
BY InHand, NoReqTyped DEF TypeOK, SalesTyped, Requests

\* Publishing a message says nothing that was not to be said.
LEMMA PublishSays ==
  ASSUME TypeOK, NEW a \in Staff, Publish(a), NEW m
  PROVE SentOrToSend(m)' <=> SentOrToSend(m)
<1>1. req[a] \in Requests /\ req[a].letter \in Messages /\ Addressed(req[a].letter)
  BY Asking DEF Publish, Requests, Requested
<1>2. /\ DOMAIN stream' = DOMAIN stream \cup {Len(stream) + 1}
      /\ \A k \in DOMAIN stream : stream'[k] = stream[k]
      /\ stream'[Len(stream) + 1].msg = req[a].letter
  BY <1>1, StreamGrows DEF Publish, TypeOK
<1> DEFINE more == [req[a] EXCEPT !.step = "decide"]
<1>3. \E r \in {more, NoReq} : req' = [req EXCEPT ![a] = r]
  BY DEF Publish
<1>4. more.step = "decide"
  BY <1>1 DEF Requests
<1> HIDE DEF more
<1>5. req'[a].step # "publish" /\ \A b \in Staff : b # a => req'[b] = req[b]
  BY <1>3, <1>4, OneAsks, NoReqTyped
<1>6. req[a].step = "publish"
  BY DEF Publish
<1>7. ASSUME SentOrToSend(m) PROVE SentOrToSend(m)'
  <2>1. CASE \E k \in DOMAIN stream : Letter(k) = m
    BY <1>2, <2>1 DEF SentOrToSend, Letter
  <2>2. CASE req[a].letter = m
    BY <1>2, <2>2 DEF SentOrToSend, Letter
  <2>3. CASE \E b \in Staff : b # a /\ req[b].step = "publish" /\ req[b].letter = m
    BY <1>5, <2>3 DEF SentOrToSend
  <2> QED BY <1>7, <2>1, <2>2, <2>3 DEF SentOrToSend
<1>8. ASSUME SentOrToSend(m)' PROVE SentOrToSend(m)
  <2>1. CASE \E k \in DOMAIN stream' : stream'[k].msg = m
    BY <1>2, <1>6, <2>1 DEF SentOrToSend, Letter
  <2>2. CASE \E b \in Staff : req'[b].step = "publish" /\ req'[b].letter = m
    BY <1>5, <2>2 DEF SentOrToSend
  <2> QED BY <1>8, <2>1, <2>2 DEF SentOrToSend, Letter
<1> QED BY <1>7, <1>8
-----------------------------------------------------------------------------
(***************************************************************************)
(* What finance is told of an invoice, and books of it.                    *)
(***************************************************************************)
Overwritten(i) == "overwritten" \in incidents[i]
WasIssued(i) == bill[i].status \in {"terkirim", "batal"}
IssuedLetter(m, i) == m.kind = "issued" /\ m.inv = i

\* Who is about to revise or issue an invoice read it before it was issued.
RowsRead ==
  \A a \in Staff : req[a].step = "write" /\ req[a].op \in {"revise", "issue"} =>
                     req[a].row.status = "diajukan"

\* What makes BookedAsBilled and CancelledIsTold inductive. Of an invoice nobody
\* wrote over: what finance is told of it, or booked of it, is what it says, and
\* says for good; and once it is cancelled finance is told so, if it ever was told.
BilledTrue(i) ==
  ~Overwritten(i) =>
    /\ \A m \in Messages : IssuedLetter(m, i) /\ SentOrToSend(m) =>
         WasIssued(i) /\ bill[i].amount = m.amount
    /\ ar[i].booked => WasIssued(i) /\ ar[i].total = bill[i].amount
    /\ bill[i].status = "batal" /\ "unsent" \notin incidents[i] =>
         SentOrToSend(Cancelled(i)) \/ \A m \in Messages : IssuedLetter(m, i) => ~SentOrToSend(m)

BillingInv == RowsRead /\ \A i \in Invoices : BilledTrue(i)

\* What is said of invoice i stays the same.
SaysTheSame(i) ==
  /\ \A m \in Messages : IssuedLetter(m, i) => (SentOrToSend(m)' => SentOrToSend(m))
  /\ SentOrToSend(Cancelled(i)) => SentOrToSend(Cancelled(i))' \/ "unsent" \in incidents'[i]

SameBooking(i) == ar'[i].booked = ar[i].booked /\ ar'[i].total = ar[i].total

LEMMA InvoiceStays ==
  ASSUME NEW i \in Invoices, BilledTrue(i), bill'[i] = bill[i], incidents[i] \subseteq incidents'[i],
         SaysTheSame(i), SameBooking(i)
  PROVE BilledTrue(i)'
<1> SUFFICES ASSUME ~Overwritten(i)' PROVE BilledTrue(i)'
  BY DEF BilledTrue
<1>1. ~Overwritten(i) /\ (WasIssued(i)' <=> WasIssued(i))
  BY DEF Overwritten, WasIssued
<1>2. \A m \in Messages : IssuedLetter(m, i)' <=> IssuedLetter(m, i)
  BY DEF IssuedLetter
<1>3. ASSUME NEW m \in Messages, IssuedLetter(m, i), SentOrToSend(m)'
      PROVE WasIssued(i)' /\ bill'[i].amount = m.amount
  BY <1>1, <1>3 DEF BilledTrue, SaysTheSame
<1>4. ASSUME ar'[i].booked PROVE WasIssued(i)' /\ ar'[i].total = bill'[i].amount
  BY <1>1, <1>4 DEF BilledTrue, SameBooking
<1>5. ASSUME bill'[i].status = "batal", "unsent" \notin incidents'[i]
      PROVE SentOrToSend(Cancelled(i))' \/ \A m \in Messages : IssuedLetter(m, i) => ~SentOrToSend(m)'
  BY <1>1, <1>5 DEF BilledTrue, SaysTheSame
<1> QED BY <1>1, <1>2, <1>3, <1>4, <1>5 DEF BilledTrue

\* In sales a request that writes no invoice keeps what finance is told true.
LEMMA RequestKeepsBills ==
  ASSUME TypeOK, BillingInv, NEW a \in Staff, NEW r, req' = [req EXCEPT ![a] = r],
         UNCHANGED <<bill, ar, stream>>, Remembered,
         r.step = "publish" => r.letter.kind \in {"recorded", "deleted"},
         r.step = "write" /\ r.op \in {"revise", "issue"} => r.row.status = "diajukan",
         \A i \in Invoices : req[a].step = "publish" /\ req[a].letter = Cancelled(i) =>
                               "unsent" \in incidents'[i]
  PROVE BillingInv'
<1>1. RowsRead'
  BY OneAsks DEF BillingInv, RowsRead
<1>2. ASSUME NEW i \in Invoices PROVE BilledTrue(i)'
  <2>1. ASSUME NEW m \in Messages, IssuedLetter(m, i), SentOrToSend(m)' PROVE SentOrToSend(m)
    BY <2>1, SaysBy DEF IssuedLetter
  <2>2. SentOrToSend(Cancelled(i)) => SentOrToSend(Cancelled(i))' \/ "unsent" \in incidents'[i]
    BY SaysBy
  <2>3. SaysTheSame(i)
    BY <2>1, <2>2 DEF SaysTheSame
  <2> QED BY <2>3, InvoiceStays DEF BillingInv, SameBooking, Remembered
<1> QED BY <1>1, <1>2 DEF BillingInv
\* What is written of an invoice by who read it last.
LEMMA NewRowSays ==
  ASSUME NEW r \in Requests, Requested(r), r.step = "write"
  PROVE /\ r.op = "revise" => NewRow(r).status = r.row.status
        /\ r.op = "issue" => NewRow(r).status = "terkirim" /\ NewRow(r).amount = r.row.amount
        /\ r.op = "cancel" => NewRow(r).status = "batal" /\ NewRow(r).amount = r.row.amount
        /\ r.op \in {"attach", "detach"} => NewRow(r) = r.row
BY DEF Requested, NewRow, RowOps, Bills

\* The request that wrote an invoice ends, or has a message for finance.
LEMMA WriteSays ==
  ASSUME TypeOK, NEW a \in Staff, WriteInvoice(a)
  PROVE \E r : /\ req' = [req EXCEPT ![a] = r]
               /\ ~Tells(req[a]) => r = NoReq
               /\ Tells(req[a]) => r.step = "publish" /\ r.letter = LetterOf(req[a])
<1> DEFINE told == [req[a] EXCEPT !.step = "publish", !.letter = LetterOf(req[a])]
           r == IF Tells(req[a]) THEN told ELSE NoReq
<1>1. req[a] \in Requests
  BY Asking DEF WriteInvoice
<1>2. told.step = "publish" /\ told.letter = LetterOf(req[a])
  BY <1>1 DEF Requests
<1>3. req' = [req EXCEPT ![a] = r]
  BY DEF WriteInvoice
<1> HIDE DEF told
<1>4. /\ ~Tells(req[a]) => r = NoReq
      /\ Tells(req[a]) => r.step = "publish" /\ r.letter = LetterOf(req[a])
  BY <1>2
<1> HIDE DEF r
<1> QED BY <1>3, <1>4

LEMMA WriteKeepsBill ==
  ASSUME TypeOK, BillingInv, NEW a \in Staff, WriteInvoice(a) PROVE BillingInv'
<1>0. req[a].step = "write" /\ req[a].op \in RowOps /\ req[a] \in Requests /\ Requested(req[a])
  BY Asking DEF WriteInvoice
<1>2a. PICK q : q = req[a]
  OBVIOUS
<1>2b. PICK i : i = q.inv
  OBVIOUS
<1>1. q.step = "write" /\ q.op \in RowOps /\ q \in Requests /\ Requested(q) /\ i \in Invoices
  BY <1>0, <1>2a, <1>2b DEF Requested
<1>2. PICK r : /\ req' = [req EXCEPT ![a] = r]
               /\ ~Tells(q) => r = NoReq
               /\ Tells(q) => r.step = "publish" /\ r.letter = LetterOf(q)
  BY <1>2a, WriteSays
<1>3. /\ bill' = [bill EXCEPT ![i] = NewRow(q)] /\ UNCHANGED <<stream, ar>> /\ Remembered
      /\ "overwritten" \in incidents'[i] \/ bill[i] = q.row
  BY <1>1, <1>2a, <1>2b, NotedRemembers DEF WriteInvoice, Elsewhere, books, Noted, If, TypeOK, CountsTyped
<1>4. bill'[i] = NewRow(q) /\ \A j \in Invoices : j # i => bill'[j] = bill[j]
  BY <1>1, <1>3 DEF TypeOK, SalesTyped
<1>5. r.step # "write"
  BY <1>2, NoReqTyped
<1>6. RowsRead'
  BY <1>2, <1>5, OneAsks DEF BillingInv, RowsRead
<1>7. r.step = "publish" => Tells(q) /\ r.letter = LetterOf(q)
  BY <1>2, NoReqTyped
<1>8. ASSUME NEW j \in Invoices, j # i PROVE BilledTrue(j)'
  <2>1. ASSUME NEW m \in Messages, IssuedLetter(m, j), SentOrToSend(m)' PROVE SentOrToSend(m)
    <3>1. r.step = "publish" => r.letter # m
      BY <1>7, <1>8, <1>2b, <2>1 DEF LetterOf, Issued, Cancelled, IssuedLetter
    <3> QED BY <1>2, <1>3, <2>1, <3>1, SaysBy
  <2>2. SentOrToSend(Cancelled(j)) => SentOrToSend(Cancelled(j))'
    BY <1>0, <1>2, <1>3, SaysBy
  <2>3. SaysTheSame(j)
    BY <2>1, <2>2 DEF SaysTheSame
  <2> QED BY <1>3, <1>4, <1>8, <2>3, InvoiceStays DEF BillingInv, SameBooking, Remembered
<1>9. BilledTrue(i)'
  <2> SUFFICES ASSUME ~Overwritten(i)' PROVE BilledTrue(i)'
    BY DEF BilledTrue
  <2>1. bill[i] = q.row /\ ~Overwritten(i)
    BY <1>1, <1>3 DEF Overwritten, Remembered
  <2>2. q.op \in {"revise", "issue"} => bill[i].status = "diajukan"
    BY <1>0, <1>2a, <2>1 DEF BillingInv, RowsRead
  <2>3. BilledTrue(i)
    BY <1>1 DEF BillingInv
  <2>4. bill[i].status = "diajukan" =>
          ~ar[i].booked /\ \A m \in Messages : IssuedLetter(m, i) => ~SentOrToSend(m)
    BY <2>1, <2>3 DEF BilledTrue, WasIssued
  <2>5. ASSUME NEW m, SentOrToSend(m)'
        PROVE SentOrToSend(m) \/ (Tells(q) /\ m = LetterOf(q))
    BY <1>2, <1>3, <1>7, <2>5, SaysBy
  <2>6. ASSUME NEW m, SentOrToSend(m) PROVE SentOrToSend(m)'
    BY <1>0, <1>2, <1>3, <2>6, SaysBy
  <2>7. Tells(q) => SentOrToSend(LetterOf(q))'
    BY <1>2, <1>3, SaysBy
  <2>8. CASE q.op = "issue"
    <3>1. bill'[i].status = "terkirim" /\ bill'[i].amount = bill[i].amount
      BY <1>1, <1>4, <2>1, <2>8, NewRowSays
    <3>2. ASSUME NEW m \in Messages, IssuedLetter(m, i), SentOrToSend(m)' PROVE m.amount = bill[i].amount
      BY <2>1, <2>2, <2>4, <2>5, <2>8, <3>2 DEF LetterOf, Issued
    <3>3. ~ar'[i].booked
      BY <1>3, <2>2, <2>4, <2>8
    <3> QED BY <3>1, <3>2, <3>3 DEF BilledTrue, WasIssued, IssuedLetter
  <2>9. CASE q.op = "revise"
    <3>1. ~Tells(q)
      BY <2>9 DEF Tells
    <3>2. bill'[i].status = "diajukan"
      BY <1>1, <1>4, <2>1, <2>2, <2>9, NewRowSays
    <3>3. ~ar'[i].booked /\ \A m \in Messages : IssuedLetter(m, i) => ~SentOrToSend(m)'
      BY <1>3, <2>2, <2>4, <2>5, <2>9, <3>1
    <3> QED BY <3>2, <3>3 DEF BilledTrue, IssuedLetter
  <2>10. CASE q.op = "cancel"
    <3>1. bill'[i].status = "batal" /\ bill'[i].amount = bill[i].amount
      BY <1>1, <1>4, <2>1, <2>10, NewRowSays
    <3>2. ASSUME NEW m \in Messages, IssuedLetter(m, i), SentOrToSend(m)' PROVE SentOrToSend(m)
      BY <2>5, <2>10, <3>2 DEF LetterOf, Cancelled, IssuedLetter
    <3>3. SentOrToSend(Cancelled(i))' \/ \A m \in Messages : IssuedLetter(m, i) => ~SentOrToSend(m)'
      BY <1>2b, <2>1, <2>4, <2>7, <2>10, <3>2 DEF LetterOf, Tells
    <3>4. \A m \in Messages : IssuedLetter(m, i) /\ SentOrToSend(m)' => bill[i].amount = m.amount
      BY <2>1, <2>3, <3>2 DEF BilledTrue
    <3>5. ar'[i].booked => ar'[i].total = bill[i].amount
      BY <1>3, <2>1, <2>3 DEF BilledTrue
    <3> QED BY <3>1, <3>3, <3>4, <3>5 DEF BilledTrue, WasIssued, IssuedLetter
  <2>11. CASE q.op \in {"attach", "detach"}
    <3>1. bill'[i] = bill[i] /\ ~Tells(q)
      BY <1>1, <1>4, <2>1, <2>11, NewRowSays DEF Tells
    <3>2. SaysTheSame(i)
      BY <2>5, <2>6, <3>1 DEF SaysTheSame
    <3> QED BY <1>1, <1>3, <2>3, <3>1, <3>2, InvoiceStays DEF SameBooking, Remembered
  <2> QED BY <1>1, <2>8, <2>9, <2>10, <2>11 DEF RowOps
<1> QED BY <1>6, <1>8, <1>9 DEF BillingInv
\* An invoice that is submitted is one nobody was told of.
LEMMA SubmitKeepsBill ==
  ASSUME TypeOK, BillingInv, NEW i \in Invoices, NEW n \in Amounts, SubmitInvoice(i, n) PROVE BillingInv'
<1>1. /\ bill[i].status = "NONE" /\ bill' = [bill EXCEPT ![i] = [status |-> "diajukan", amount |-> n]]
      /\ UNCHANGED <<req, stream, ar, incidents>>
  BY DEF SubmitInvoice, Exists, Elsewhere, books
<1>2. bill'[i].status = "diajukan" /\ \A j \in Invoices : j # i => bill'[j] = bill[j]
  BY <1>1 DEF TypeOK, SalesTyped
<1>3. RowsRead'
  BY <1>1 DEF BillingInv, RowsRead
<1>4. \A m : SentOrToSend(m)' <=> SentOrToSend(m)
  BY <1>1 DEF SentOrToSend, Letter
<1>5. ASSUME NEW j \in Invoices, j # i PROVE BilledTrue(j)'
  <2>1. SaysTheSame(j)
    BY <1>4 DEF SaysTheSame
  <2> QED BY <1>1, <1>2, <1>5, <2>1, InvoiceStays DEF BillingInv, SameBooking
<1>6. BilledTrue(i)'
  <2>1. BilledTrue(i)
    BY DEF BillingInv
  <2> SUFFICES ASSUME ~Overwritten(i)' PROVE BilledTrue(i)'
    BY DEF BilledTrue
  <2>2. ~ar[i].booked /\ \A m \in Messages : IssuedLetter(m, i) => ~SentOrToSend(m)
    BY <1>1, <2>1 DEF BilledTrue, WasIssued, Overwritten
  <2>3. ~ar'[i].booked /\ \A m \in Messages : IssuedLetter(m, i) => ~SentOrToSend(m)'
    BY <1>1, <1>4, <2>2
  <2> QED BY <1>2, <2>3 DEF BilledTrue, IssuedLetter
<1> QED BY <1>3, <1>5, <1>6 DEF BillingInv

LEMMA LoadKeepsBill ==
  ASSUME TypeOK, BillingInv, NEW a \in Staff, NEW op \in RowOps, NEW i \in Invoices, NEW n,
         LoadInvoice(a, op, i, n)
  PROVE BillingInv'
<1> DEFINE r == [NoReq EXCEPT !.op = op, !.step = "write", !.inv = i, !.row = bill[i], !.amount = n]
<1>1. /\ req[a].step = "idle" /\ req' = [req EXCEPT ![a] = r]
      /\ UNCHANGED <<bill, ar, stream>> /\ Remembered
      /\ op \in {"revise", "issue"} => bill[i].status = "diajukan"
  BY NotedRemembers DEF LoadInvoice, Free, Elsewhere, books, Admits
<1>2. r.step = "write" /\ r.op = op /\ r.row = bill[i]
  BY DEF NoReq
<1> HIDE DEF r
<1> QED BY <1>1, <1>2, RequestKeepsBills

\* Payments and proofs are no matter of an invoice.
LEMMA PaymentKeepsBill ==
  ASSUME TypeOK, BillingInv, NEW a \in Staff,
         \/ InsertPayment(a) \/ DecideProof(a) \/ DeletePayment(a)
         \/ \E p \in Payments, i \in Invoices : RecordPayment(a, p, i)
         \/ \E p \in Payments, x \in Proofs : ApproveProof(a, x, p)
         \/ \E p \in Payments : RemovePayment(a, p)
  PROVE BillingInv'
<1>1. UNCHANGED <<bill, ar, stream>> /\ Remembered /\ req[a].step # "publish"
  BY NotedRemembers DEF InsertPayment, DecideProof, DeletePayment, RecordPayment, ApproveProof,
                        RemovePayment, Elsewhere, books, Free, At
<1>2. \E r : /\ req' = [req EXCEPT ![a] = r] /\ r.step # "write"
             /\ r.step = "publish" => r.letter.kind \in {"recorded", "deleted"}
  <2>1. CASE InsertPayment(a) \/ DecideProof(a) \/ DeletePayment(a)
    <3> DEFINE recorded == [req[a] EXCEPT !.step = "publish", !.letter = Recorded(req[a].pay, req[a].inv)]
               gone == [req[a] EXCEPT !.step = "publish", !.letter = Deleted(req[a].pay)]
               delete == [req[a] EXCEPT !.step = "delete"]
    <3>1. req[a] \in Requests
      BY <2>1, Asking DEF InsertPayment, DecideProof, DeletePayment, At
    <3>2. /\ recorded.step = "publish" /\ recorded.letter.kind = "recorded"
          /\ gone.step = "publish" /\ gone.letter.kind = "deleted"
          /\ delete.step = "delete"
      BY <3>1 DEF Requests, Recorded, Deleted
    <3>3. \E r \in {recorded, gone, delete, NoReq} : req' = [req EXCEPT ![a] = r]
      BY <2>1 DEF InsertPayment, DecideProof, DeletePayment
    <3> HIDE DEF recorded, gone, delete
    <3> QED BY <3>2, <3>3, NoReqTyped
  <2>2. ASSUME NEW p \in Payments, NEW i \in Invoices, RecordPayment(a, p, i)
        PROVE \E r : req' = [req EXCEPT ![a] = r] /\ r.step = "insert"
    <3> DEFINE r == [NoReq EXCEPT !.op = "record", !.step = "insert", !.inv = i, !.pay = p]
    <3>1. r.step = "insert" /\ req' = [req EXCEPT ![a] = r]
      BY <2>2 DEF RecordPayment, NoReq
    <3> HIDE DEF r
    <3> QED BY <3>1
  <2>3. ASSUME NEW p \in Payments, NEW x \in Proofs, ApproveProof(a, x, p)
        PROVE \E r : req' = [req EXCEPT ![a] = r] /\ r.step = "insert"
    <3> DEFINE r == [NoReq EXCEPT !.op = "approve", !.step = "insert", !.inv = proof[x].inv, !.pay = p,
                                  !.proof = x]
    <3>1. r.step = "insert" /\ req' = [req EXCEPT ![a] = r]
      BY <2>3 DEF ApproveProof, NoReq
    <3> HIDE DEF r
    <3> QED BY <3>1
  <2>4. ASSUME NEW p \in Payments, RemovePayment(a, p)
        PROVE \E r : req' = [req EXCEPT ![a] = r] /\ r.step = "delete"
    <3> DEFINE r == [NoReq EXCEPT !.op = "remove", !.step = "delete", !.pay = p]
    <3>1. r.step = "delete" /\ req' = [req EXCEPT ![a] = r]
      BY <2>4 DEF RemovePayment, NoReq
    <3> HIDE DEF r
    <3> QED BY <3>1
  <2> QED BY <2>1, <2>2, <2>3, <2>4
<1> QED BY <1>1, <1>2, RequestKeepsBills

LEMMA FailsKeepsBill ==
  ASSUME TypeOK, BillingInv, NEW a \in Staff, RequestFails(a) PROVE BillingInv'
<1>1. req' = [req EXCEPT ![a] = NoReq] /\ UNCHANGED <<bill, ar, stream>>
  BY DEF RequestFails, Elsewhere, books
<1>2. Remembered
  BY DEF RequestFails, Remembered, TypeOK, CountsTyped
<1>3. ASSUME NEW i \in Invoices, req[a].step = "publish", req[a].letter = Cancelled(i)
      PROVE "unsent" \in incidents'[i]
  <2>1. Subject(req[a].letter) = i
    BY <1>3 DEF Subject, Cancelled
  <2> QED BY <1>3, <2>1 DEF RequestFails, If, TypeOK, CountsTyped
<1> QED BY <1>1, <1>2, <1>3, RequestKeepsBills, NoReqTyped
LEMMA NothingAskedKeepsBill ==
  ASSUME BillingInv, UNCHANGED <<bill, req, stream>>, Remembered, \A i \in Invoices : SameBooking(i)
  PROVE BillingInv'
<1>1. RowsRead' /\ \A m : SentOrToSend(m)' <=> SentOrToSend(m)
  BY DEF BillingInv, RowsRead, SentOrToSend, Letter
<1>2. \A i \in Invoices : SaysTheSame(i)
  BY <1>1 DEF SaysTheSame
<1> QED BY <1>1, <1>2, InvoiceStays DEF BillingInv, Remembered

LEMMA PublishKeepsBill ==
  ASSUME TypeOK, BillingInv, NEW a \in Staff, Publish(a) PROVE BillingInv'
<1> DEFINE more == [req[a] EXCEPT !.step = "decide"]
<1>1. \E r : req' = [req EXCEPT ![a] = r] /\ r.step # "write"
  <2>1. more.step = "decide"
    BY Asking DEF Publish, Requests
  <2>2. \E r \in {more, NoReq} : req' = [req EXCEPT ![a] = r]
    BY DEF Publish
  <2> HIDE DEF more
  <2> QED BY <2>1, <2>2, NoReqTyped
<1>2. RowsRead'
  BY <1>1, OneAsks DEF BillingInv, RowsRead
<1>3. UNCHANGED <<bill, ar, incidents>>
  BY DEF Publish, Elsewhere, books
<1>4. \A i \in Invoices : SaysTheSame(i)
  BY PublishSays DEF SaysTheSame
<1>5. ASSUME NEW i \in Invoices PROVE BilledTrue(i)'
  BY <1>3, <1>4, InvoiceStays DEF BillingInv, SameBooking
<1> QED BY <1>2, <1>5 DEF BillingInv

LEMMA SalesKeepsBill ==
  ASSUME TypeOK, BillingInv, SalesNext PROVE BillingInv'
<1>1. CASE SalesRequest
  <2>1. ASSUME NEW x \in Proofs, RejectProof(x) \/ \E i \in Invoices : SubmitProof(x, i) PROVE BillingInv'
    <3>1. UNCHANGED <<bill, req, stream, ar, incidents>>
      BY <2>1 DEF RejectProof, SubmitProof, Elsewhere, books
    <3> QED BY <3>1, NothingAskedKeepsBill DEF Remembered, SameBooking
  <2> QED BY <1>1, <2>1, SubmitKeepsBill, LoadKeepsBill, PaymentKeepsBill DEF SalesRequest
<1>2. ASSUME NEW a \in Staff, SalesStep(a) PROVE BillingInv'
  BY <1>2, WriteKeepsBill, PaymentKeepsBill, PublishKeepsBill DEF SalesStep
<1> QED BY <1>1, <1>2, FailsKeepsBill DEF SalesNext

-----------------------------------------------------------------------------
\* Finance's steps: only the message that an invoice was issued books it.
SameBookings == \A i \in Invoices : SameBooking(i)

LEMMA AllocateBooking ==
  ASSUME TypeOK, NEW x \in Processes, proc[x] # Idle, NEW d, Allocate(x, d) PROVE SameBookings
BY DEF Allocate, SameBookings, SameBooking, TypeOK, BooksTyped

LEMMA OnlyIssuedBooks ==
  ASSUME TypeOK, NEW x \in Processes, FinanceStep(x), ~SalesInvoiceIssued(x) PROVE SameBookings
<1>0. proc[x].pc # "idle" => proc[x] # Idle
  BY IdleTyped
<1>1. CASE PostPaymentJournal(x) \/ RetryPosting(x) \/ CheckAllocation(x) \/ CheckCredit(x) \/ CheckVoid(x)
  BY <1>1 DEF PostPaymentJournal, RetryPosting, CheckAllocation, CheckCredit, CheckVoid, SameBookings,
              SameBooking, books
<1>2. CASE CommitSalesReceipt(x)
  BY <1>0, <1>2, AllocateBooking DEF CommitSalesReceipt, ProcAt, SameBookings, SameBooking
<1>3. CASE RecordReceipt(x)
  BY <1>0, <1>3, AllocateBooking DEF RecordReceipt, CommitVoucher, ProcAt, SameBookings, SameBooking, books
<1>4. CASE CreateCreditNote(x)
  BY <1>0, <1>4, AllocateBooking DEF CreateCreditNote, CommitVoucher, ProcAt, SameBookings, SameBooking, books
<1>5. CASE VoidPayment(x)
  <2>1. ar' = ar \/ \E i, n : ar' = [ar EXCEPT ![i].allocated = n]
    BY <1>5 DEF VoidPayment
  <2> QED BY <2>1 DEF SameBookings, SameBooking, TypeOK, BooksTyped, Receivables
<1>6. CASE SalesPaymentRecorded(x) \/ SalesPaymentAdvance(x) \/ SalesPaymentDeleted(x) \/ MarkPayment(x)
  BY <1>6 DEF SalesPaymentRecorded, SalesPaymentAdvance, SalesPaymentDeleted, MarkPayment, SameBookings,
              SameBooking, books
<1>7. CASE MarkInvoice(x)
  BY <1>7 DEF MarkInvoice, SameBookings, SameBooking, TypeOK, BooksTyped
<1>8. CASE SalesInvoiceCancelled(x) \/ NextList(x) \/ \E d \in proc[x].todo : NextItem(x, d)
  BY <1>8 DEF SalesInvoiceCancelled, NextList, NextItem, SameBookings, SameBooking, books
<1> QED BY <1>1, <1>2, <1>3, <1>4, <1>5, <1>6, <1>7, <1>8 DEF FinanceStep, PostingStep, AutoPostStep

LEMMA ApartSays ==
  ASSUME UNCHANGED sales, SameMessages
  PROVE UNCHANGED <<bill, pay, proof, req>> /\ \A m : SentOrToSend(m)' <=> SentOrToSend(m)
BY DEF sales, SameMessages, SentOrToSend, Letter

\* What finance books is what the message says, and the message what the invoice says.
LEMMA IssuedKeepsBill ==
  ASSUME TypeOK, BillingInv, CarriesInv, NEW w \in Processes, SalesInvoiceIssued(w) PROVE BillingInv'
<1>1. PICK i : i = proc[w].inv
  OBVIOUS
<1>2. PICK m : m = Message(w)
  OBVIOUS
<1>3. i \in Invoices /\ proc[w].msg \in DOMAIN stream /\ proc[w].msg # 0
  BY <1>1, AtHand DEF SalesInvoiceIssued, ProcAt, Handling
<1>4. m \in Messages /\ IssuedLetter(m, i) /\ SentOrToSend(m)
  <2>1. m \in Messages
    <3>1. stream[proc[w].msg] \in Letters
      BY <1>3 DEF TypeOK, StreamTyped
    <3> QED BY <1>2, <3>1 DEF Message, Letters
  <2>2. m.kind = "issued" /\ m.inv = i
    BY <1>1, <1>2, <1>3 DEF CarriesInv, Carries, Message, SalesInvoiceIssued, ProcAt
  <2> QED BY <1>2, <1>3, <2>1, <2>2 DEF IssuedLetter, SentOrToSend, Letter, Message
<1>5. UNCHANGED sales /\ SameMessages /\ Remembered
  BY IssuedApart DEF Apart
<1>6. /\ \A j \in Invoices : j # i => SameBooking(j)
      /\ SameBooking(i) \/ (ar'[i].booked /\ ar'[i].total = m.amount)
  BY <1>1, <1>2, <1>3 DEF SalesInvoiceIssued, SameBooking, TypeOK, BooksTyped, Receivables
<1>7. /\ RowsRead' /\ \A j \in Invoices : SaysTheSame(j)
      /\ \A j \in Invoices : bill'[j] = bill[j] /\ incidents[j] \subseteq incidents'[j]
  BY <1>5, ApartSays DEF BillingInv, RowsRead, SaysTheSame, Remembered
<1>8. ASSUME NEW j \in Invoices, SameBooking(j) PROVE BilledTrue(j)'
  BY <1>7, <1>8, InvoiceStays DEF BillingInv
<1>9. ASSUME ar'[i].booked, ar'[i].total = m.amount PROVE BilledTrue(i)'
  <2> SUFFICES ASSUME ~Overwritten(i)' PROVE BilledTrue(i)'
    BY DEF BilledTrue
  <2>1. ~Overwritten(i) /\ BilledTrue(i) /\ (WasIssued(i)' <=> WasIssued(i)) /\ bill'[i] = bill[i]
    BY <1>3, <1>7 DEF Overwritten, BillingInv, WasIssued
  <2>2. WasIssued(i) /\ bill[i].amount = m.amount
    BY <1>4, <2>1 DEF BilledTrue
  <2>3. \A k \in Messages : IssuedLetter(k, i)' <=> IssuedLetter(k, i)
    BY DEF IssuedLetter
  <2>4. \A k : SentOrToSend(k)' <=> SentOrToSend(k)
    BY <1>5, ApartSays
  <2>5. \A k \in Messages : IssuedLetter(k, i) /\ SentOrToSend(k)' => bill'[i].amount = k.amount
    BY <2>1, <2>4 DEF BilledTrue
  <2>6. bill'[i].status = "batal" /\ "unsent" \notin incidents'[i] =>
          SentOrToSend(Cancelled(i))' \/ \A k \in Messages : IssuedLetter(k, i) => ~SentOrToSend(k)'
    BY <1>3, <1>7, <2>1, <2>4 DEF BilledTrue
  <2> QED BY <1>9, <2>1, <2>2, <2>3, <2>5, <2>6 DEF BilledTrue
<1>10. BilledTrue(i)'
  BY <1>3, <1>6, <1>8, <1>9
<1> QED BY <1>6, <1>7, <1>8, <1>10 DEF BillingInv
LEMMA FinanceKeepsBill ==
  ASSUME TypeOK, BillingInv, UNCHANGED sales, SameMessages, Remembered, SameBookings PROVE BillingInv'
<1>1. \A m : SentOrToSend(m)' <=> SentOrToSend(m)
  BY ApartSays
<1>2. \A i \in Invoices : SaysTheSame(i)
  BY <1>1 DEF SaysTheSame
<1>3. UNCHANGED <<bill, req>>
  BY ApartSays
<1>4. RowsRead'
  BY <1>3 DEF BillingInv, RowsRead
<1> QED BY <1>2, <1>3, <1>4, InvoiceStays DEF BillingInv, Remembered, SameBookings

\* What else finance does: a handler or a run starts or fails, an ack is late, a
\* period is opened or closed.
LEMMA OtherFinance ==
  ASSUME TypeOK,
         \/ \E w \in Workers : RunDue(w) \/ AckLate(w) \/ \E k \in DOMAIN stream : Receive(w, k)
         \/ \E c \in Clerks : DeskRequest(c) \/ RunSchedules(c)
         \/ \E to \in {"OPEN", "CLOSED"} : SetPeriod(to)
         \/ \E x \in Processes : FinanceFails(x)
         \/ UNCHANGED vars
  PROVE UNCHANGED <<sales, ar>> /\ SameMessages /\ Remembered
<1>1. UNCHANGED ar
  BY DEF RunDue, AckLate, Receive, DeskRequest, RunSchedules, Starts, SetPeriod, FinanceFails, books, vars
<1>2. ASSUME NEW w \in Workers, AckLate(w) PROVE UNCHANGED sales /\ SameMessages /\ Remembered
  <2>1. proc[w].msg # 0 /\ w \in Processes
    BY <1>2 DEF AckLate, ByMessage, Processes
  <2>2. proc[w].msg \in DOMAIN stream
    <3>1. proc[w] # Idle
      BY <2>1, IdleTyped
    <3> QED BY <2>1, <3>1 DEF TypeOK, ProcsTyped, Handling
  <2>3. SameMessages
    BY <1>2, <2>2, StreamMoves DEF AckLate, TypeOK, SameMessages
  <2> QED BY <1>2, <2>3, NotedRemembers DEF AckLate, SalesIdle
<1>3. ASSUME NEW to, SetPeriod(to) PROVE UNCHANGED sales /\ SameMessages /\ Remembered
  BY <1>3, NotedRemembers DEF SetPeriod, SameMessages
<1>4. UNCHANGED vars => UNCHANGED sales /\ SameMessages /\ Remembered
  BY NotedRemembers DEF vars, sales, SameMessages
<1>5. \A x \in Workers \cup Clerks : x \in Processes
  BY DEF Processes
<1> QED BY <1>1, <1>2, <1>3, <1>4, <1>5, RunApart, DeskApart, FailsApart, ReceiveCarries DEF Apart

LEMMA BillsKept ==
  ASSUME TypeOK, BillingInv, CarriesInv, [Next]_vars PROVE BillingInv'
<1>1. CASE SalesNext
  BY <1>1, SalesKeepsBill
<1>2. ASSUME NEW x \in Processes, FinanceStep(x) PROVE BillingInv'
  <2>1. CASE SalesInvoiceIssued(x)
    BY <2>1, IssuedKeepsBill
  <2>2. CASE ~SalesInvoiceIssued(x)
    BY <1>2, <2>2, OnlyIssuedBooks, FinanceApart, FinanceKeepsBill DEF Apart
  <2> QED BY <2>1, <2>2
<1>3. CASE FinanceNext /\ ~\E x \in Processes : FinanceStep(x)
  BY <1>3, OtherFinance, FinanceKeepsBill DEF FinanceNext, SameBookings, SameBooking
<1> QED BY <1>1, <1>2, <1>3, SidesOfNext DEF FinanceNext

\* No process moves, and what was said stays said.
LEMMA CarriesStill ==
  ASSUME TypeOK, CarriesInv, UNCHANGED proc,
         \A k \in DOMAIN stream : k \in DOMAIN stream' /\ stream'[k].msg = stream[k].msg
  PROVE CarriesInv'
<1> SUFFICES ASSUME NEW x \in Processes PROVE Carries(x)'
  BY DEF CarriesInv
<1>1. CASE proc[x].msg = 0
  BY <1>1 DEF Carries
<1>2. CASE proc[x].msg # 0
  <2>1. proc[x] # Idle
    BY <1>2, IdleTyped
  <2>2. proc[x].msg \in DOMAIN stream
    BY <1>2, <2>1 DEF TypeOK, ProcsTyped, Handling
  <2> QED BY <2>2 DEF Carries, CarriesInv
<1> QED BY <1>1, <1>2

LEMMA SalesKeepsMessages ==
  ASSUME TypeOK, SalesNext
  PROVE \A k \in DOMAIN stream : k \in DOMAIN stream' /\ stream'[k].msg = stream[k].msg
<1>1. ASSUME NEW a \in Staff, Publish(a)
      PROVE \A k \in DOMAIN stream : k \in DOMAIN stream' /\ stream'[k].msg = stream[k].msg
  <2>1. req[a].letter \in Messages /\ Addressed(req[a].letter)
    BY <1>1, Asking DEF Publish, Requests, Requested
  <2> QED BY <1>1, <2>1, StreamGrows DEF Publish, TypeOK
<1>2. SalesRequest => UNCHANGED stream
  BY DEF SalesRequest, SubmitInvoice, SubmitProof, RejectProof, LoadInvoice, RecordPayment, ApproveProof,
         RemovePayment
<1>3. ASSUME NEW a \in Staff, SalesStep(a) \/ RequestFails(a), ~Publish(a) PROVE UNCHANGED stream
  BY <1>3 DEF SalesStep, WriteInvoice, InsertPayment, DecideProof, DeletePayment, RequestFails
<1> QED BY <1>1, <1>2, <1>3 DEF SalesNext, SalesStep

LEMMA CarriesHeld ==
  ASSUME TypeOK, CarriesInv, [Next]_vars PROVE CarriesInv'
<1>1. CASE SalesNext
  <2>1. UNCHANGED proc
    BY <1>1 DEF SalesNext, SalesRequest, SalesStep, SubmitInvoice, SubmitProof, RejectProof, LoadInvoice,
                RecordPayment, ApproveProof, RemovePayment, WriteInvoice, InsertPayment, DecideProof,
                DeletePayment, Publish, RequestFails, Elsewhere
  <2> QED BY <1>1, <2>1, SalesKeepsMessages, CarriesStill
<1>2. ASSUME NEW w \in Workers, NEW k \in DOMAIN stream, Receive(w, k) PROVE CarriesInv'
  <2>1. ASSUME NEW y \in Processes, y # w PROVE Carries(y)'
    <3>1. CASE proc[y].msg = 0
      BY <1>2, <2>1, <3>1, ReceiveCarries DEF Carries
    <3>2. CASE proc[y].msg # 0
      <4>1. proc[y] # Idle
        BY <3>2, IdleTyped
      <4>2. proc[y].msg \in DOMAIN stream
        BY <3>2, <4>1 DEF TypeOK, ProcsTyped, Handling
      <4> QED BY <1>2, <2>1, <4>2, ReceiveCarries DEF Carries, CarriesInv, SameMessages
    <3> QED BY <3>1, <3>2
  <2> QED BY <1>2, <2>1, ReceiveCarries DEF CarriesInv
<1>3. CASE (\E w \in Workers : AckLate(w)) \/ (\E to \in {"OPEN", "CLOSED"} : SetPeriod(to)) \/ UNCHANGED vars
  <2>1. UNCHANGED proc
    BY <1>3 DEF AckLate, SetPeriod, vars
  <2>2. SameMessages
    BY <1>3, OtherFinance
  <2> QED BY <2>1, <2>2, CarriesStill DEF SameMessages
<1>4. \A x \in Workers \cup Clerks : x \in Processes
  BY DEF Processes
<1>5. ASSUME NEW x \in Processes,
             FinanceStep(x) \/ FinanceFails(x) \/ RunSchedules(x) \/ (x \in Workers /\ RunDue(x))
      PROVE CarriesInv'
  BY <1>5, FinanceApart, FailsApart, RunApart, CarriesKept
<1>6. ASSUME NEW c \in Clerks, DeskRequest(c) PROVE CarriesInv'
  BY <1>4, <1>6, DeskApart, CarriesKept
<1> QED BY <1>1, <1>2, <1>3, <1>4, <1>5, <1>6, SidesOfNext DEF FinanceNext

LEMMA InitBilling == Init => BillingInv /\ CarriesInv
<1> SUFFICES ASSUME Init PROVE BillingInv /\ CarriesInv
  OBVIOUS
<1>1. /\ \A a \in Staff : req[a].step = "idle"
      /\ \A x \in Processes : proc[x].msg = 0
  BY NoReqTyped, IdleTyped DEF Init
<1>2. \A m : ~SentOrToSend(m)
  BY <1>1 DEF Init, BusInit, SentOrToSend
<1> QED BY <1>1, <1>2 DEF Init, BillingInv, RowsRead, BilledTrue, CarriesInv, Carries

LEMMA BillingSays == TypeOK /\ BillingInv => BookedAsBilled /\ CancelledIsTold
<1> SUFFICES ASSUME TypeOK, BillingInv PROVE BookedAsBilled /\ CancelledIsTold
  OBVIOUS
<1>1. BookedAsBilled
  BY DEF BillingInv, BilledTrue, Overwritten, WasIssued, BookedAsBilled
<1>2. ASSUME NEW i \in Invoices, bill[i].status = "batal",
             incidents[i] \cap {"overwritten", "unsent"} = {},
             NEW k \in DOMAIN stream, Letter(k).kind = "issued", Letter(k).inv = i
      PROVE SentOrToSend(Cancelled(i))
  <2>1. stream[k] \in Letters
    BY DEF TypeOK, StreamTyped
  <2>2. Letter(k) \in Messages /\ IssuedLetter(Letter(k), i) /\ SentOrToSend(Letter(k))
    BY <1>2, <2>1 DEF Letters, Letter, IssuedLetter, SentOrToSend
  <2> QED BY <1>2, <2>2 DEF BillingInv, BilledTrue, Overwritten
<1> QED BY <1>1, <1>2 DEF CancelledIsTold

\* What finance booked of an invoice is what the invoice says, for good - unless two
\* requests wrote it at a time.
THEOREM BilledHolds == Spec => []BookedAsBilled
<1>1. [](TypeOK) /\ [][Next]_vars /\ BillingInv /\ CarriesInv => [](BillingInv /\ CarriesInv)
  BY BillsKept, CarriesHeld, PTL
<1> QED BY <1>1, Typing, InitBilling, BillingSays, PTL DEF Spec

\* Finance is told of the cancellation of an invoice it was told of - unless that
\* message was lost, or two requests wrote the invoice at a time.
THEOREM ToldHolds == Spec => []CancelledIsTold
<1>1. [](TypeOK) /\ [][Next]_vars /\ BillingInv /\ CarriesInv => [](BillingInv /\ CarriesInv)
  BY BillsKept, CarriesHeld, PTL
<1> QED BY <1>1, Typing, InitBilling, BillingSays, PTL DEF Spec
-----------------------------------------------------------------------------
(***************************************************************************)
(* Transfer proofs and the payments they are approved with.                *)
(***************************************************************************)
\* What makes ProofCountedOnce inductive: who is about to insert a payment has its
\* id alone; an approval past that has its payment in the row with its proof, until
\* it is deleted; and nobody else inserts a payment with a proof.
Inserting(a) ==
  req[a].step = "insert" =>
    /\ pay[req[a].pay].status = "none"
    /\ \A b \in Staff : b # a => req[b].pay # req[a].pay
    /\ req[a].op # "approve" => req[a].proof = NoProof

Approving(a) ==
  req[a].op = "approve" /\ req[a].step # "insert" /\ Live(req[a].pay) =>
    /\ pay[req[a].pay].proof = req[a].proof
    /\ req[a].step = "publish" => req[a].letter.kind = "recorded"

ProofInv == ProofCountedOnce /\ \A a \in Staff : Inserting(a) /\ Approving(a)

\* Proofs are left as they are, or as nobody counts on.
ProofsStay ==
  \A x \in Proofs : /\ incidents[x] \subseteq incidents'[x]
                    /\ proof[x].status = "APPROVED" => proof'[x] = proof[x]

\* A request that has no payment to insert and none it approves.
LEMMA ProofsKept ==
  ASSUME TypeOK, ProofInv, UNCHANGED <<pay, req>>, ProofsStay PROVE ProofInv'
<1>1. ASSUME NEW a \in Staff PROVE Inserting(a)' /\ Approving(a)'
  BY DEF ProofInv, Inserting, Approving, Live
<1>2. ProofCountedOnce'
  <2> SUFFICES ASSUME NEW p \in Payments, Live(p), pay[p].proof # NoProof
               PROVE \/ proof'[pay[p].proof].status = "APPROVED" /\ proof'[pay[p].proof].pay = p
                     \/ "left" \in incidents'[pay[p].proof]
                     \/ \E a \in Staff : req[a].op = "approve" /\ req[a].pay = p
    BY DEF ProofCountedOnce, Live
  <2>1. pay[p].proof \in Proofs
    BY DEF TypeOK, SalesTyped, PaymentRows
  <2> QED BY <2>1 DEF ProofInv, ProofCountedOnce, ProofsStay
<1> QED BY <1>1, <1>2 DEF ProofInv

\* A request begins or goes on, and no payment is touched: what it inserts nobody
\* else has, what it approves it goes on to approve.
GoesOnWell(a, r) ==
  /\ r.step = "insert" => /\ pay[r.pay].status = "none"
                          /\ \A b \in Staff : req[b].pay # r.pay
                          /\ r.op # "approve" => r.proof = NoProof
  /\ \A b \in Staff : req[b].step = "insert" => r.pay # req[b].pay
  /\ r.op = "approve" /\ r.step # "insert" /\ Live(r.pay) =>
       pay[r.pay].proof = r.proof /\ r.step # "publish"
  /\ \A p \in Payments : req[a].op = "approve" /\ req[a].pay = p /\ Live(p) =>
       \/ r.op = "approve" /\ r.pay = p
       \/ proof'[pay[p].proof].status = "APPROVED" /\ proof'[pay[p].proof].pay = p
       \/ "left" \in incidents'[pay[p].proof]

LEMMA AskKeepsProofs ==
  ASSUME TypeOK, ProofInv, NEW a \in Staff, NEW r, req' = [req EXCEPT ![a] = r],
         UNCHANGED pay, ProofsStay, GoesOnWell(a, r)
  PROVE ProofInv'
<1>1. req'[a] = r /\ \A b \in Staff : b # a => req'[b] = req[b]
  BY OneAsks
<1>2. ASSUME NEW b \in Staff PROVE Inserting(b)' /\ Approving(b)'
  BY <1>1 DEF ProofInv, Inserting, Approving, Live, GoesOnWell
<1>3. ProofCountedOnce'
  <2> SUFFICES ASSUME NEW p \in Payments, Live(p), pay[p].proof # NoProof
               PROVE \/ proof'[pay[p].proof].status = "APPROVED" /\ proof'[pay[p].proof].pay = p
                     \/ "left" \in incidents'[pay[p].proof]
                     \/ \E b \in Staff : req'[b].op = "approve" /\ req'[b].pay = p
    BY DEF ProofCountedOnce, Live
  <2>1. pay[p].proof \in Proofs
    BY DEF TypeOK, SalesTyped, PaymentRows
  <2>2. CASE \E b \in Staff : req[b].op = "approve" /\ req[b].pay = p
    BY <1>1, <2>2 DEF GoesOnWell
  <2>3. CASE ~\E b \in Staff : req[b].op = "approve" /\ req[b].pay = p
    BY <2>1, <2>3 DEF ProofInv, ProofCountedOnce, ProofsStay
  <2> QED BY <2>2, <2>3
<1> QED BY <1>2, <1>3 DEF ProofInv

LEMMA UnmovedProofs ==
  ASSUME TypeOK, UNCHANGED proof, Remembered PROVE ProofsStay
BY DEF ProofsStay, Remembered

LEMMA NoProofKnown == NoReq.proof = NoProof /\ NoDoc \notin Payments /\ NoProof \notin Proofs
BY ReceivablesAssumption DEF NoReq, Docs

\* Requests on invoices.
LEMMA BillsKeepProofs ==
  ASSUME TypeOK, ProofInv, NEW a \in Staff,
         \/ WriteInvoice(a)
         \/ \E op \in RowOps, i \in Invoices, n \in Amounts \cup {0} : LoadInvoice(a, op, i, n)
  PROVE ProofInv'
<1>1. UNCHANGED <<pay, proof>> /\ Remembered
  BY NotedRemembers DEF WriteInvoice, LoadInvoice
<1>2. req[a].op # "approve"
  BY Asking, NoReqTyped DEF WriteInvoice, LoadInvoice, Free, RowOps
<1>3. \E r : /\ req' = [req EXCEPT ![a] = r] /\ r.step # "insert" /\ r.op # "approve"
             /\ r.pay = NoDoc \/ (r.pay = req[a].pay /\ req[a].step # "insert")
  <2>1. CASE WriteInvoice(a)
    <3> DEFINE told == [req[a] EXCEPT !.step = "publish", !.letter = LetterOf(req[a])]
    <3>1. req[a] \in Requests /\ req[a].step = "write"
      BY <2>1, Asking DEF WriteInvoice
    <3>2. told.step = "publish" /\ told.op = req[a].op /\ told.pay = req[a].pay
      BY <3>1 DEF Requests
    <3>3. \E r \in {told, NoReq} : req' = [req EXCEPT ![a] = r]
      BY <2>1 DEF WriteInvoice
    <3> HIDE DEF told
    <3> QED BY <1>2, <3>1, <3>2, <3>3, NoReqTyped
  <2>2. ASSUME NEW op \in RowOps, NEW i \in Invoices, NEW n, LoadInvoice(a, op, i, n)
        PROVE \E r : /\ req' = [req EXCEPT ![a] = r] /\ r.step # "insert" /\ r.op # "approve"
                     /\ r.pay = NoDoc
    <3> DEFINE r == [NoReq EXCEPT !.op = op, !.step = "write", !.inv = i, !.row = bill[i], !.amount = n]
    <3>1. r.step = "write" /\ r.op = op /\ r.pay = NoDoc /\ req' = [req EXCEPT ![a] = r]
      BY <2>2 DEF LoadInvoice, NoReq
    <3>2. op # "approve"
      BY DEF RowOps
    <3> HIDE DEF r
    <3> QED BY <3>1, <3>2
  <2> QED BY <2>1, <2>2
<1>4. \A b \in Staff : req[b].step = "insert" => req[b].pay # NoDoc
  BY Asking, NoProofKnown DEF Requested
<1>5. \A b \in Staff : req[b].step = "insert" /\ req[a].step # "insert" => req[b].pay # req[a].pay
  BY DEF ProofInv, Inserting
<1>6. PICK r : /\ req' = [req EXCEPT ![a] = r] /\ r.step # "insert" /\ r.op # "approve"
               /\ r.pay = NoDoc \/ (r.pay = req[a].pay /\ req[a].step # "insert")
  BY <1>3
<1>7. ProofsStay /\ UNCHANGED pay
  BY <1>1, UnmovedProofs
<1>8. \A b \in Staff : req[b].step = "insert" => r.pay # req[b].pay
  BY <1>4, <1>5, <1>6
<1>9. GoesOnWell(a, r)
  BY <1>2, <1>6, <1>8 DEF GoesOnWell
<1> QED BY <1>6, <1>7, <1>9, AskKeepsProofs
\* A request ends, and the proof it approves is decided or left.
LEMMA EndKeepsProofs ==
  ASSUME TypeOK, ProofInv, NEW a \in Staff, req' = [req EXCEPT ![a] = NoReq], UNCHANGED pay, ProofsStay,
         \A p \in Payments : req[a].op = "approve" /\ req[a].pay = p /\ Live(p) =>
           \/ proof'[pay[p].proof].status = "APPROVED" /\ proof'[pay[p].proof].pay = p
           \/ "left" \in incidents'[pay[p].proof]
  PROVE ProofInv'
<1>1. PICK r : r = NoReq
  OBVIOUS
<1>2. r.step = "idle" /\ r.op = "none" /\ r.pay = NoDoc /\ req' = [req EXCEPT ![a] = r]
  BY <1>1, NoReqTyped
<1>3. \A b \in Staff : req[b].step = "insert" => r.pay # req[b].pay
  BY <1>2, NoProofKnown, Asking DEF Requested
<1>4. GoesOnWell(a, r)
  BY <1>2, <1>3 DEF GoesOnWell
<1> QED BY <1>2, <1>4, AskKeepsProofs

\* A payment is recorded, a proof approved, a payment deleted: at first it is read.
LEMMA BeginKeepsProofs ==
  ASSUME TypeOK, ProofInv, NEW a \in Staff,
         \/ \E p \in Payments, i \in Invoices : RecordPayment(a, p, i)
         \/ \E p \in Payments, x \in Proofs : ApproveProof(a, x, p)
         \/ \E p \in Payments : RemovePayment(a, p)
  PROVE ProofInv'
<1>1. UNCHANGED pay /\ ProofsStay /\ req[a].op # "approve"
  BY UnmovedProofs, NotedRemembers, Asking, NoReqTyped DEF RecordPayment, ApproveProof, RemovePayment, Free
<1>2. \A b \in Staff : req[b].step = "insert" => pay[req[b].pay].status = "none"
  BY DEF ProofInv, Inserting
<1>3. ASSUME NEW p \in Payments, NEW i \in Invoices, RecordPayment(a, p, i) PROVE ProofInv'
  <2> DEFINE r == [NoReq EXCEPT !.op = "record", !.step = "insert", !.inv = i, !.pay = p]
  <2>1. r.step = "insert" /\ r.op = "record" /\ r.pay = p /\ r.proof = NoProof
    BY DEF NoReq
  <2>2. req' = [req EXCEPT ![a] = r] /\ pay[p].status = "none" /\ \A b \in Staff : req[b].pay # p
    BY <1>3 DEF RecordPayment, Fresh
  <2> HIDE DEF r
  <2>4. GoesOnWell(a, r)
    BY <1>1, <1>2, <2>1, <2>2 DEF GoesOnWell
  <2> QED BY <1>1, <2>2, <2>4, AskKeepsProofs
<1>4. ASSUME NEW p \in Payments, NEW x \in Proofs, ApproveProof(a, x, p) PROVE ProofInv'
  <2> DEFINE r == [NoReq EXCEPT !.op = "approve", !.step = "insert", !.inv = proof[x].inv, !.pay = p,
                                !.proof = x]
  <2>1. r.step = "insert" /\ r.op = "approve" /\ r.pay = p
    BY DEF NoReq
  <2>2. req' = [req EXCEPT ![a] = r] /\ pay[p].status = "none" /\ \A b \in Staff : req[b].pay # p
    BY <1>4 DEF ApproveProof, Fresh
  <2> HIDE DEF r
  <2>4. GoesOnWell(a, r)
    BY <1>1, <1>2, <2>1, <2>2 DEF GoesOnWell
  <2> QED BY <1>1, <2>2, <2>4, AskKeepsProofs
<1>5. ASSUME NEW p \in Payments, RemovePayment(a, p) PROVE ProofInv'
  <2> DEFINE r == [NoReq EXCEPT !.op = "remove", !.step = "delete", !.pay = p]
  <2>1. r.step = "delete" /\ r.op = "remove" /\ r.pay = p
    BY DEF NoReq
  <2>2. req' = [req EXCEPT ![a] = r] /\ pay[p].status = "live"
    BY <1>5 DEF RemovePayment, Live
  <2>3. \A b \in Staff : req[b].step = "insert" => p # req[b].pay
    BY <1>2, <2>2
  <2> HIDE DEF r
  <2>4. GoesOnWell(a, r)
    BY <1>1, <1>2, <2>1, <2>2, <2>3 DEF GoesOnWell
  <2> QED BY <1>1, <2>2, <2>4, AskKeepsProofs
<1> QED BY <1>3, <1>4, <1>5

LEMMA DecideKeepsProofs ==
  ASSUME TypeOK, ProofInv, NEW a \in Staff, DecideProof(a) PROVE ProofInv'
<1> DEFINE q == req[a]
           delete == [q EXCEPT !.step = "delete"]
<1>1. /\ q.step = "decide" /\ q.op = "approve" /\ q \in Requests /\ q.pay \in Payments
      /\ q.proof \in Proofs
  BY Asking DEF DecideProof, At, Requested
<1>2. UNCHANGED <<pay, incidents>>
  BY DEF DecideProof
<1>3. \A b \in Staff : req[b].step = "insert" => q.pay # req[b].pay
  BY <1>1 DEF ProofInv, Inserting
<1>4. Live(q.pay) => pay[q.pay].proof = q.proof
  BY <1>1 DEF ProofInv, Approving
<1>5. delete.step = "delete" /\ delete.op = "approve" /\ delete.pay = q.pay /\ delete.proof = q.proof
  BY <1>1 DEF Requests
<1>8. CASE StillPending(q.proof)
  <2>1. /\ req' = [req EXCEPT ![a] = NoReq]
        /\ proof' = [proof EXCEPT ![q.proof].status = "APPROVED", ![q.proof].pay = q.pay]
    BY <1>8 DEF DecideProof
  <2>2. /\ proof'[q.proof].status = "APPROVED" /\ proof'[q.proof].pay = q.pay
        /\ \A x \in Proofs : x # q.proof => proof'[x] = proof[x]
    BY <1>1, <2>1 DEF TypeOK, SalesTyped, ProofRows
  <2>3. ProofsStay
    BY <1>2, <1>8, <2>2 DEF ProofsStay, StillPending
  <2>4. \A p \in Payments : q.pay = p /\ Live(p) =>
          proof'[pay[p].proof].status = "APPROVED" /\ proof'[pay[p].proof].pay = p
    BY <1>4, <2>2
  <2> QED BY <1>2, <2>1, <2>3, <2>4, EndKeepsProofs
<1>9. CASE ~StillPending(q.proof)
  <2>1. UNCHANGED proof /\ req' = [req EXCEPT ![a] = IF Live(q.pay) THEN delete ELSE NoReq]
    BY <1>9 DEF DecideProof
  <2>2. ProofsStay
    BY <1>2, <2>1, UnmovedProofs DEF Remembered
  <2> HIDE DEF delete
  <2>3. CASE Live(q.pay)
    <3>1. req' = [req EXCEPT ![a] = delete]
      BY <2>1, <2>3
    <3>2. GoesOnWell(a, delete)
      BY <1>3, <1>4, <1>5 DEF GoesOnWell
    <3> QED BY <1>2, <2>2, <3>1, <3>2, AskKeepsProofs
  <2>4. CASE ~Live(q.pay)
    <3>1. req' = [req EXCEPT ![a] = NoReq]
      BY <2>1, <2>4
    <3> QED BY <1>2, <2>2, <2>4, <3>1, EndKeepsProofs
  <2> QED BY <2>3, <2>4
<1> QED BY <1>8, <1>9
\* The payment is inserted: it is of nobody else, and of the proof that is approved.
LEMMA InsertKeepsProofs ==
  ASSUME TypeOK, ProofInv, NEW a \in Staff, InsertPayment(a) PROVE ProofInv'
<1> DEFINE r == [req[a] EXCEPT !.step = "publish", !.letter = Recorded(req[a].pay, req[a].inv)]
<1>1. PICK q : q = req[a]
  OBVIOUS
<1>2. q.step = "insert" /\ q \in Requests /\ q.pay \in Payments
  BY <1>1, Asking DEF InsertPayment, Requested
<1>3. /\ r.step = "publish" /\ r.op = q.op /\ r.pay = q.pay /\ r.proof = q.proof
      /\ r.letter.kind = "recorded"
  BY <1>1, <1>2 DEF Requests, Recorded
<1>4. /\ req' = [req EXCEPT ![a] = r]
      /\ pay' = [pay EXCEPT ![q.pay] = [status |-> "live", inv |-> q.inv, proof |-> q.proof]]
      /\ UNCHANGED <<proof, incidents>>
  BY <1>1 DEF InsertPayment
<1> HIDE DEF r
<1>5. req'[a] = r /\ \A b \in Staff : b # a => req'[b] = req[b]
  BY <1>4, OneAsks
<1>6. /\ pay'[q.pay].status = "live" /\ pay'[q.pay].proof = q.proof
      /\ \A p : p # q.pay => pay'[p] = pay[p]
  <2>1. pay \in [Payments -> PaymentRows]
    BY DEF TypeOK, SalesTyped
  <2>2. q.pay \in DOMAIN pay
    BY <1>2, <2>1
  <2>3. \A p : p # q.pay => pay'[p] = pay[p]
    BY <1>4
  <2> QED BY <1>4, <2>2, <2>3
<1>7. /\ \A b \in Staff : b # a => req[b].pay # q.pay
      /\ q.op # "approve" => q.proof = NoProof
  BY <1>1, <1>2 DEF ProofInv, Inserting
<1>8. ASSUME NEW b \in Staff PROVE Inserting(b)' /\ Approving(b)'
  <2>1. CASE b = a
    BY <1>3, <1>5, <1>6, <2>1 DEF Inserting, Approving
  <2>2. CASE b # a
    <3>1. req'[b] = req[b] /\ pay'[req[b].pay] = pay[req[b].pay] /\ req'[a].pay = q.pay
      BY <1>3, <1>5, <1>6, <1>7, <2>2
    <3>2. Approving(b)'
      BY <3>1 DEF ProofInv, Approving, Live
    <3>3. Inserting(b)'
      BY <1>1, <1>5, <1>7, <2>2, <3>1 DEF ProofInv, Inserting
    <3> QED BY <3>2, <3>3
  <2> QED BY <2>1, <2>2
<1>9. ProofCountedOnce'
  <2> SUFFICES ASSUME NEW p \in Payments, pay'[p].status = "live", pay'[p].proof # NoProof
               PROVE \/ proof'[pay'[p].proof].status = "APPROVED" /\ proof'[pay'[p].proof].pay = p
                     \/ "left" \in incidents'[pay'[p].proof]
                     \/ \E b \in Staff : req'[b].op = "approve" /\ req'[b].pay = p
    BY DEF ProofCountedOnce, Live
  <2>1. CASE p = q.pay
    BY <1>3, <1>5, <1>6, <1>7, <2>1
  <2>2. CASE p # q.pay
    <3>1. pay'[p] = pay[p]
      BY <1>6, <2>2
    <3>2. \/ proof[pay[p].proof].status = "APPROVED" /\ proof[pay[p].proof].pay = p
          \/ "left" \in incidents[pay[p].proof]
          \/ \E b \in Staff : req[b].op = "approve" /\ req[b].pay = p
      BY <3>1 DEF ProofInv, ProofCountedOnce, Live
    <3>3. ASSUME NEW b \in Staff, req[b].op = "approve", req[b].pay = p
          PROVE req'[b].op = "approve" /\ req'[b].pay = p
      BY <1>1, <1>3, <1>5, <3>3
    <3> QED BY <1>4, <3>1, <3>2, <3>3
  <2> QED BY <2>1, <2>2
<1> QED BY <1>8, <1>9 DEF ProofInv

\* A deleted payment counts no more, whoever deletes it.
LEMMA DeleteKeepsProofs ==
  ASSUME TypeOK, ProofInv, NEW a \in Staff, DeletePayment(a) PROVE ProofInv'
<1> DEFINE r == [req[a] EXCEPT !.step = "publish", !.letter = Deleted(req[a].pay)]
<1>1. PICK q : q = req[a]
  OBVIOUS
<1>2. q.step = "delete" /\ q \in Requests /\ q.pay \in Payments
  BY <1>1, Asking DEF DeletePayment, Requested
<1>3. r.step = "publish" /\ r.op = q.op /\ r.pay = q.pay
  BY <1>1, <1>2 DEF Requests
<1>4. /\ req' = [req EXCEPT ![a] = r] /\ pay' = [pay EXCEPT ![q.pay].status = "deleted"]
      /\ UNCHANGED <<proof, incidents>>
  BY <1>1 DEF DeletePayment
<1> HIDE DEF r
<1>5. req'[a] = r /\ \A b \in Staff : b # a => req'[b] = req[b]
  BY <1>4, OneAsks
<1>6. /\ pay'[q.pay].status = "deleted"
      /\ \A p : p # q.pay => pay'[p] = pay[p]
  <2>1. pay \in [Payments -> PaymentRows]
    BY DEF TypeOK, SalesTyped
  <2> QED BY <1>2, <1>4, <2>1 DEF PaymentRows
<1>7. \A b \in Staff : req[b].step = "insert" => req[b].pay # q.pay
  BY <1>1, <1>2 DEF ProofInv, Inserting
<1>8. ASSUME NEW b \in Staff PROVE Inserting(b)' /\ Approving(b)'
  <2>1. CASE b = a
    BY <1>3, <1>5, <1>6, <2>1 DEF Inserting, Approving, Live
  <2>2. CASE b # a
    <3>1. req'[b] = req[b]
      BY <1>5, <2>2
    <3>2. Inserting(b)'
      BY <1>1, <1>3, <1>5, <1>6, <1>7, <2>2, <3>1 DEF ProofInv, Inserting
    <3>3. Approving(b)'
      BY <1>6, <3>1 DEF ProofInv, Approving, Live
    <3> QED BY <3>2, <3>3
  <2> QED BY <2>1, <2>2
<1>9. ProofCountedOnce'
  <2> SUFFICES ASSUME NEW p \in Payments, pay'[p].status = "live", pay'[p].proof # NoProof
               PROVE \/ proof'[pay'[p].proof].status = "APPROVED" /\ proof'[pay'[p].proof].pay = p
                     \/ "left" \in incidents'[pay'[p].proof]
                     \/ \E b \in Staff : req'[b].op = "approve" /\ req'[b].pay = p
    BY DEF ProofCountedOnce, Live
  <2>1. p # q.pay /\ pay'[p] = pay[p]
    BY <1>6
  <2>2. \/ proof[pay[p].proof].status = "APPROVED" /\ proof[pay[p].proof].pay = p
        \/ "left" \in incidents[pay[p].proof]
        \/ \E b \in Staff : req[b].op = "approve" /\ req[b].pay = p
    BY <2>1 DEF ProofInv, ProofCountedOnce, Live
  <2>3. ASSUME NEW b \in Staff, req[b].op = "approve", req[b].pay = p
        PROVE req'[b].op = "approve" /\ req'[b].pay = p
    BY <1>1, <1>3, <1>5, <2>3
  <2> QED BY <1>4, <2>1, <2>2, <2>3
<1> QED BY <1>8, <1>9 DEF ProofInv

LEMMA PublishKeepsProofs ==
  ASSUME TypeOK, ProofInv, NEW a \in Staff, Publish(a) PROVE ProofInv'
<1> DEFINE more == [req[a] EXCEPT !.step = "decide"]
           on == req[a].op = "approve" /\ req[a].letter.kind = "recorded"
<1>1. req[a].step = "publish" /\ req[a] \in Requests
  BY Asking DEF Publish
<1>2. more.step = "decide" /\ more.op = req[a].op /\ more.pay = req[a].pay /\ more.proof = req[a].proof
  BY <1>1 DEF Requests
<1>3. req' = [req EXCEPT ![a] = IF on THEN more ELSE NoReq] /\ UNCHANGED pay
  BY DEF Publish
<1>4. ProofsStay
  BY UnmovedProofs, NotedRemembers DEF Publish
<1>5. req[a].op = "approve" /\ Live(req[a].pay) => on /\ pay[req[a].pay].proof = req[a].proof
  BY <1>1 DEF ProofInv, Approving
<1>6. \A b \in Staff : req[b].step = "insert" => req[a].pay # req[b].pay
  BY <1>1 DEF ProofInv, Inserting
<1> HIDE DEF more
<1>7. CASE on
  <2>1. PICK r : r = more
    OBVIOUS
  <2>2. req' = [req EXCEPT ![a] = r]
    BY <1>3, <1>7, <2>1
  <2>3. r.step = "decide" /\ r.op = "approve" /\ r.pay = req[a].pay /\ r.proof = req[a].proof
    BY <1>2, <1>7, <2>1
  <2>4. \A b \in Staff : req[b].step = "insert" => r.pay # req[b].pay
    BY <1>6, <2>3
  <2>5. Live(r.pay) => pay[r.pay].proof = r.proof
    BY <1>5, <1>7, <2>3
  <2>6. GoesOnWell(a, r)
    BY <2>3, <2>4, <2>5 DEF GoesOnWell
  <2> QED BY <1>3, <1>4, <2>2, <2>6, AskKeepsProofs
<1>8. CASE ~on
  <2>1. req' = [req EXCEPT ![a] = NoReq]
    BY <1>3, <1>8
  <2>2. ~(req[a].op = "approve" /\ Live(req[a].pay))
    BY <1>5, <1>8
  <2> QED BY <1>3, <1>4, <2>1, <2>2, EndKeepsProofs
<1> QED BY <1>7, <1>8

LEMMA FailsKeepsProofs ==
  ASSUME TypeOK, ProofInv, NEW a \in Staff, RequestFails(a) PROVE ProofInv'
<1>1. req' = [req EXCEPT ![a] = NoReq] /\ UNCHANGED <<pay, proof>> /\ req[a].step # "idle"
  BY DEF RequestFails, Free
<1>2. Remembered
  BY DEF RequestFails, Remembered, TypeOK, CountsTyped
<1>3. ProofsStay
  BY <1>1, <1>2, UnmovedProofs
<1>4. ASSUME NEW p \in Payments, req[a].op = "approve", req[a].pay = p, Live(p)
      PROVE "left" \in incidents'[pay[p].proof]
  <2>1. req[a].step # "insert"
    BY <1>4 DEF ProofInv, Inserting, Live
  <2>2. pay[p].proof = req[a].proof /\ req[a].proof \in Proofs
    BY <1>1, <1>4, <2>1, Asking DEF ProofInv, Approving, Requested
  <2> QED BY <1>4, <2>1, <2>2 DEF RequestFails, If, TypeOK, CountsTyped
<1> QED BY <1>1, <1>3, <1>4, EndKeepsProofs
LEMMA ProofsHeld ==
  ASSUME TypeOK, ProofInv, [Next]_vars PROVE ProofInv'
<1>1. ASSUME NEW x \in Proofs, RejectProof(x) \/ \E i \in Invoices : SubmitProof(x, i) PROVE ProofInv'
  <2>1. UNCHANGED <<pay, req>>
    BY <1>1 DEF RejectProof, SubmitProof
  <2>2. ProofsStay
    BY <1>1 DEF RejectProof, SubmitProof, ProofsStay, TypeOK, SalesTyped
  <2> QED BY <2>1, <2>2, ProofsKept
<1>2. ASSUME NEW i, NEW n, SubmitInvoice(i, n) PROVE ProofInv'
  BY <1>2, ProofsKept, UnmovedProofs, NotedRemembers DEF SubmitInvoice
<1>3. \A op : Revised(op) \subseteq Amounts \cup {0}
  BY DEF Revised
<1>4. CASE SalesRequest
  BY <1>1, <1>2, <1>3, <1>4, BillsKeepProofs, BeginKeepsProofs DEF SalesRequest
<1>5. ASSUME NEW a \in Staff, SalesStep(a) PROVE ProofInv'
  BY <1>5, BillsKeepProofs, InsertKeepsProofs, DecideKeepsProofs, DeleteKeepsProofs, PublishKeepsProofs
     DEF SalesStep
<1>6. CASE SalesNext
  BY <1>4, <1>5, <1>6, FailsKeepsProofs DEF SalesNext
<1>7. CASE FinanceNext
  <2>1. UNCHANGED sales /\ Remembered
    BY <1>7, OtherFinance, FinanceApart DEF FinanceNext, Apart
  <2>2. UNCHANGED <<pay, proof, req>>
    BY <2>1 DEF sales
  <2> QED BY <2>1, <2>2, ProofsKept, UnmovedProofs
<1> QED BY <1>6, <1>7, SidesOfNext

LEMMA InitProofs == Init => ProofInv
<1> SUFFICES ASSUME Init PROVE ProofInv
  OBVIOUS
<1>1. \A a \in Staff : req[a].step = "idle" /\ req[a].op = "none"
  BY NoReqTyped DEF Init
<1>2. \A p \in Payments : pay[p].status = "none"
  BY DEF Init
<1> QED BY <1>1, <1>2 DEF ProofInv, ProofCountedOnce, Inserting, Approving, Live

\* A transfer proof counts once: a payment that counts for it is the one it was
\* approved with, or about to be deleted - unless an approval was cut short.
THEOREM ProofsHold == Spec => []ProofCountedOnce
<1>1. ProofInv => ProofCountedOnce
  BY DEF ProofInv
<1> QED BY <1>1, Typing, InitProofs, ProofsHeld, PTL DEF Spec
=============================================================================
