---------------------------- MODULE LedgerProofs ----------------------------
(***************************************************************************)
(* Two invariants of finance's books, for every value of the constants: no *)
(* more is allocated than is open unless allocations cross (AllocInv), and *)
(* documents and journals agree (BooksInv). Both are about one step of one *)
(* process on one document, so each action is first shown to be either     *)
(* quiet, touching nothing they speak of, or one of a few that are not.    *)
(***************************************************************************)
EXTENDS ReceivablesProofs

\* What makes AllocInv inductive: an invoice is worth something only once it is
\* booked, and what is about to be allocated fits what was allocated when it was checked.
Committing(x) == proc[x].pc \in {"commit", "note"}

AllocIInv ==
  /\ AllocInv
  /\ \A i \in Invoices : ~ar[i].booked => ar[i].total = 0
  /\ \A x \in Processes : Committing(x) => proc[x].amount + proc[x].seen <= ar[proc[x].inv].total

\* What makes BooksInv inductive: what a process is about to post is there.
Postable(d) == IF d \in Docs THEN doc[d].status # "NONE" ELSE ar[d].booked

BooksIInv ==
  /\ BooksInv
  /\ \A x \in Processes : proc[x].pc \in {"journal", "post"} => Postable(proc[x].doc)

LedgerInv == AllocIInv /\ BooksIInv

-----------------------------------------------------------------------------
(***************************************************************************)
(* Quiet steps.                                                            *)
(***************************************************************************)
Remembered == \A s \in Invoices \cup Docs \cup Proofs : incidents[s] \subseteq incidents'[s]

SameInvoices ==
  \A i \in Invoices : /\ ar'[i].booked = ar[i].booked /\ ar'[i].total = ar[i].total
                      /\ ar'[i].allocated = ar[i].allocated

SameDocuments == \A d \in Docs : doc'[d].status = doc[d].status

SameJournals == UNCHANGED <<entries, drafts, reversals>>

\* A process that goes to no commit.
OffCommit(x) == proc'[x].pc \notin {"commit", "note"}

\* A process that goes to no journal; and from a receipt without one it goes nowhere
\* unless it died.
OffJournal(x) ==
  /\ proc'[x].pc \notin {"journal", "post"}
  /\ proc[x].pc = "journal" => "crashed" \in incidents'[proc[x].doc]

QuietInvoices ==
  SameInvoices /\ Remembered /\ \A x \in Processes : proc'[x] = proc[x] \/ OffCommit(x)

QuietJournals ==
  /\ SameInvoices /\ SameDocuments /\ SameJournals /\ Remembered
  /\ \A x \in Processes : proc'[x] = proc[x] \/ OffJournal(x)

Quiet == QuietInvoices /\ QuietJournals

LEMMA InvoicesAreNotDocs ==
  /\ \A i \in Invoices : i \notin Docs
  /\ Payments \subseteq Docs /\ Vouchers \subseteq Docs
BY ReceivablesAssumption DEF Docs

LEMMA AllocStays ==
  ASSUME TypeOK, AllocIInv, QuietInvoices PROVE AllocIInv'
<1>1. AllocInv'
  BY DEF AllocIInv, AllocInv, QuietInvoices, SameInvoices, Remembered
<1>2. ASSUME NEW i \in Invoices, ~ar'[i].booked PROVE ar'[i].total = 0
  BY <1>2 DEF AllocIInv, QuietInvoices, SameInvoices
<1>3. ASSUME NEW x \in Processes, proc'[x].pc \in {"commit", "note"}
      PROVE proc'[x].amount + proc'[x].seen <= ar'[proc'[x].inv].total
  <2>1. proc'[x] = proc[x]
    BY <1>3 DEF QuietInvoices, OffCommit
  <2>2. proc[x].inv \in Invoices
    BY <1>3, <2>1, AtHand DEF Handling
  <2> QED BY <1>3, <2>1, <2>2 DEF AllocIInv, Committing, QuietInvoices, SameInvoices
<1> QED BY <1>1, <1>2, <1>3 DEF AllocIInv, Committing

LEMMA BooksStayTrue ==
  ASSUME TypeOK, BooksIInv, QuietJournals PROVE BooksIInv'
<1> USE DEF SameJournals
<1>1. ASSUME NEW d \in Docs, doc'[d].status = "POSTED"
      PROVE \/ d \in entries' \cup drafts' \/ "crashed" \in incidents'[d]
            \/ \E x \in Processes : proc'[x].pc = "journal" /\ proc'[x].doc = d
  <2>1. doc[d].status = "POSTED"
    BY <1>1 DEF QuietJournals, SameDocuments
  <2>2. CASE d \in entries \cup drafts \/ "crashed" \in incidents[d]
    BY <2>2 DEF QuietJournals, Remembered
  <2>3. ASSUME NEW x \in Processes, proc[x].pc = "journal", proc[x].doc = d
        PROVE "crashed" \in incidents'[d] \/ (proc'[x].pc = "journal" /\ proc'[x].doc = d)
    BY <2>3 DEF QuietJournals, OffJournal
  <2> QED BY <2>1, <2>2, <2>3 DEF BooksIInv, BooksInv, ProcAt
<1>2. BooksInv'
  BY <1>1 DEF BooksIInv, BooksInv, QuietJournals, SameInvoices, SameDocuments, Remembered, ProcAt
<1>3. ASSUME NEW x \in Processes, NEW d, proc'[x].pc \in {"journal", "post"}, proc'[x].doc = d
      PROVE Postable(d)'
  <2>1. proc'[x] = proc[x]
    BY <1>3 DEF QuietJournals, OffJournal
  <2>2. d \in Docs \cup Invoices /\ Postable(d)
    BY <1>3, <2>1, AtHand DEF Handling, BooksIInv, Postable
  <2> QED BY <2>1, <2>2 DEF Postable, QuietJournals, SameInvoices, SameDocuments
<1> QED BY <1>2, <1>3 DEF BooksIInv, Postable

LEMMA QuietKeeps ==
  ASSUME TypeOK, LedgerInv, Quiet PROVE LedgerInv'
BY AllocStays, BooksStayTrue DEF LedgerInv, Quiet

\* How a step is seen to be quiet: what it notes, and the one process that moves.
LEMMA NotedRemembers ==
  ASSUME TypeOK, NEW s, NEW kinds, UNCHANGED incidents \/ incidents' = Noted(s, kinds) PROVE Remembered
BY DEF TypeOK, CountsTyped, Noted, Remembered

\* Only one process moves at a time.
LEMMA OneMoves ==
  ASSUME TypeOK, NEW x \in Processes, NEW h, proc' = [proc EXCEPT ![x] = h]
  PROVE proc'[x] = h /\ \A y \in Processes : y # x => proc'[y] = proc[y]
BY DEF TypeOK, ProcsTyped

LEMMA QuietBy ==
  ASSUME TypeOK, NEW x \in Processes, NEW h, proc' = [proc EXCEPT ![x] = h],
         h.pc \notin {"commit", "note", "journal", "post"},
         proc[x].pc = "journal" => "crashed" \in incidents'[proc[x].doc],
         SameInvoices, SameDocuments, SameJournals, Remembered
  PROVE Quiet
BY OneMoves DEF Quiet, QuietInvoices, QuietJournals, OffCommit, OffJournal

LEMMA SameBooks ==
  /\ UNCHANGED books => SameInvoices /\ SameDocuments /\ SameJournals
  /\ UNCHANGED ar => SameInvoices
  /\ UNCHANGED doc => SameDocuments
BY DEF books, SameInvoices, SameDocuments, SameJournals

LEMMA RestIsQuiet ==
  ASSUME TypeOK, NEW x \in Processes, proc[x].pc # "idle"
  PROVE /\ Rest(x).pc \notin {"commit", "note", "journal", "post"}
        /\ Idle.pc \notin {"commit", "note", "journal", "post"}
BY RestTyped, IdleTyped DEF TypeOK

LEMMA SalesQuiet ==
  ASSUME TypeOK, SalesRequest \/ \E a \in Staff : SalesStep(a) \/ RequestFails(a)
  PROVE Quiet
<1>1. Elsewhere => (Remembered => Quiet)
  BY SameBooks DEF Elsewhere, Quiet, QuietInvoices, QuietJournals
<1>2. UNCHANGED incidents => Remembered
  BY DEF Remembered
<1>3. SalesRequest => Quiet
  BY <1>1, <1>2 DEF SalesRequest, SubmitInvoice, SubmitProof, RejectProof, LoadInvoice, RecordPayment,
                    ApproveProof, RemovePayment
<1>4. ASSUME NEW a \in Staff, SalesStep(a) PROVE Quiet
  BY <1>1, <1>2, <1>4, NotedRemembers
     DEF SalesStep, WriteInvoice, InsertPayment, DecideProof, DeletePayment, Publish
<1>5. ASSUME NEW a \in Staff, RequestFails(a) PROVE Quiet
  <2>1. Remembered
    BY <1>5 DEF RequestFails, Remembered, TypeOK, CountsTyped
  <2> QED BY <1>1, <1>5, <2>1 DEF RequestFails
<1> QED BY <1>3, <1>4, <1>5

-----------------------------------------------------------------------------
(***************************************************************************)
(* Processes in finance that touch no books.                               *)
(***************************************************************************)
\* A handler is done, or goes on to a step that is not about the books.
Passes(x) ==
  \/ Done(x) \/ Nak(x)
  \/ \E h \in Handlers : /\ proc' = [proc EXCEPT ![x] = h]
                         /\ h.pc \notin {"commit", "note", "journal", "post"}

LEMMA PassesQuiet ==
  ASSUME TypeOK, NEW x \in Processes, proc[x].pc \notin {"idle", "journal"}, Passes(x),
         SameInvoices, SameDocuments, SameJournals, Remembered
  PROVE Quiet
<1>1. PICK h : /\ proc' = [proc EXCEPT ![x] = h]
               /\ h.pc \notin {"commit", "note", "journal", "post"}
  BY RestIsQuiet DEF Passes, Done, Nak
<1> QED BY <1>1, QuietBy

LEMMA GoesPasses ==
  ASSUME TypeOK, NEW x \in Processes, proc[x].pc # "idle", NEW pc \in Pcs, Goes(x, pc),
         pc \notin {"commit", "note", "journal", "post"}
  PROVE Passes(x)
<1> DEFINE h == [proc[x] EXCEPT !.pc = pc]
<1>1. h \in Handlers /\ h.pc = pc
  BY AtHand DEF Handlers
<1>2. proc' = [proc EXCEPT ![x] = h]
  BY DEF Goes
<1> HIDE DEF h
<1> QED BY <1>1, <1>2 DEF Passes

LEMMA RecordedQuiet ==
  ASSUME TypeOK, NEW w \in Processes, SalesPaymentRecorded(w) PROVE Quiet
<1> DEFINE p == proc[w].doc
           i == proc[w].inv
           open == Outstanding(i)
           n == IF Amount[p] < open THEN Amount[p] ELSE open
           h == [proc[w] EXCEPT !.pc = "insert", !.amount = n]
<1>1. proc[w].pc = "receive" /\ i \in Invoices /\ p \in Payments /\ proc[w] \in Handlers
  BY AtHand DEF SalesPaymentRecorded, ProcAt, Handling
<1>2. Passes(w)
  <2>1. CASE doc[p].status # "NONE" \/ ~ar[i].booked
    BY <2>1 DEF SalesPaymentRecorded, Passes
  <2>2. CASE doc[p].status = "NONE" /\ ar[i].booked /\ open = 0
    BY <1>1, <2>2, GoesPasses DEF SalesPaymentRecorded, Pcs
  <2>3. CASE doc[p].status = "NONE" /\ ar[i].booked /\ open # 0
    <3>1. n \in Nat
      BY <1>1, OutstandingType, AmountsAreNumbers
    <3>2. h \in Handlers /\ h.pc = "insert"
      <4> HIDE DEF n
      <4> QED BY <1>1, <3>1 DEF Handlers, Pcs
    <3>3. proc' = [proc EXCEPT ![w] = h]
      BY <2>3 DEF SalesPaymentRecorded
    <3> HIDE DEF h
    <3> QED BY <3>2, <3>3 DEF Passes
  <2> QED BY <2>1, <2>2, <2>3
<1> QED BY <1>1, <1>2, PassesQuiet, SameBooks, NotedRemembers DEF SalesPaymentRecorded

LEMMA AdvanceQuiet ==
  ASSUME TypeOK, NEW w \in Processes, SalesPaymentAdvance(w) PROVE Quiet
<1>1. proc[w].pc = "advance" /\ Passes(w)
  BY DEF SalesPaymentAdvance, ProcAt, Passes
<1>2. Remembered
  BY NotedRemembers DEF SalesPaymentAdvance
<1> QED BY <1>1, <1>2, PassesQuiet, SameBooks DEF SalesPaymentAdvance, SameJournals

LEMMA DeletedQuiet ==
  ASSUME TypeOK, NEW w \in Processes, SalesPaymentDeleted(w) PROVE Quiet
<1>1. proc[w].pc = "find"
  BY DEF SalesPaymentDeleted, ProcAt
<1>2. Passes(w)
  <2>1. CASE Goes(w, "void")
    BY <1>1, <2>1, GoesPasses DEF Pcs
  <2> QED BY <2>1 DEF SalesPaymentDeleted, Passes, NotYetHere
<1>3. Remembered
  BY NotedRemembers DEF SalesPaymentDeleted
<1> QED BY <1>1, <1>2, <1>3, PassesQuiet, SameBooks DEF SalesPaymentDeleted, SameJournals

LEMMA MarkQuiet ==
  ASSUME TypeOK, NEW x \in Processes, MarkPayment(x) \/ MarkInvoice(x) PROVE Quiet
<1>0. MarkPayment(x) \/ MarkInvoice(x)
  OBVIOUS
<1>1. proc[x].pc \in {"mark", "settle"} /\ Passes(x)
  BY DEF MarkPayment, MarkInvoice, ProcAt, Passes
<1>2. SameInvoices /\ SameDocuments
  <2>1. CASE MarkPayment(x)
    <3>1. doc' = [doc EXCEPT ![proc[x].doc].flagged = TRUE] /\ doc \in [Docs -> Documents]
      BY <2>1 DEF MarkPayment, TypeOK, BooksTyped
    <3>2. SameDocuments
      BY <3>1 DEF SameDocuments, Documents
    <3> QED BY <2>1, <3>2, SameBooks DEF MarkPayment
  <2>2. CASE MarkInvoice(x)
    <3>1. /\ ar' = [ar EXCEPT ![proc[x].inv].cancelled = TRUE, ![proc[x].inv].settled = proc[x].ok]
          /\ ar \in [Invoices -> Receivables]
      BY <2>2 DEF MarkInvoice, TypeOK, BooksTyped
    <3>2. SameInvoices
      BY <3>1 DEF SameInvoices, Receivables
    <3> QED BY <2>2, <3>2, SameBooks DEF MarkInvoice
  <2> QED BY <1>0, <2>1, <2>2
<1>3. Remembered /\ SameJournals
  BY NotedRemembers DEF MarkPayment, MarkInvoice, SameJournals
<1> QED BY <1>1, <1>2, <1>3, PassesQuiet

LEMMA CancelledQuiet ==
  ASSUME TypeOK, NEW x \in Processes, SalesInvoiceCancelled(x) PROVE Quiet
<1> DEFINE i == proc[x].inv
           pc == IF Outstanding(i) = 0 THEN "settle" ELSE "credit"
           ok == Outstanding(i) = 0
           h == [proc[x] EXCEPT !.pc = pc, !.ok = ok, !.method = "credit note"]
<1>1. proc[x].pc = "look" /\ proc[x] \in Handlers
  BY AtHand DEF SalesInvoiceCancelled, ProcAt
<1>2. Passes(x)
  <2>1. CASE Nak(x)
    BY <2>1 DEF Passes
  <2>2. CASE proc' = [proc EXCEPT ![x] = h]
    <3>1. h \in Handlers /\ h.pc \in {"settle", "credit"}
      <4>1. pc \in {"settle", "credit"} /\ ok \in BOOLEAN
        OBVIOUS
      <4> HIDE DEF pc, ok
      <4> QED BY <1>1, <4>1 DEF Handlers, Pcs, Methods
    <3> HIDE DEF h
    <3> QED BY <2>2, <3>1 DEF Passes
  <2> QED BY <2>1, <2>2 DEF SalesInvoiceCancelled, NotYetBooked
<1> QED BY <1>1, <1>2, PassesQuiet, SameBooks, NotedRemembers DEF SalesInvoiceCancelled

LEMMA VoidedPasses ==
  ASSUME TypeOK, NEW x \in Processes, proc[x].pc \in {"void", "reverse"}, Voided(x)
  PROVE Passes(x)
<1>1. CASE AtDesk(x)
  BY <1>1 DEF Voided, Passes
<1>2. CASE ~AtDesk(x)
  BY <1>2, GoesPasses DEF Voided, Pcs
<1> QED BY <1>1, <1>2

LEMMA CheckVoidQuiet ==
  ASSUME TypeOK, NEW x \in Processes, CheckVoid(x) PROVE Quiet
<1>1. proc[x].pc = "void"
  BY DEF CheckVoid, ProcAt
<1>2. Passes(x)
  <2>1. CASE Goes(x, "reverse")
    BY <1>1, <2>1, GoesPasses DEF Pcs
  <2>2. CASE Voided(x)
    BY <1>1, <2>2, VoidedPasses
  <2> QED BY <2>1, <2>2 DEF CheckVoid
<1> QED BY <1>1, <1>2, PassesQuiet, SameBooks, NotedRemembers DEF CheckVoid

LEMMA StartQuiet ==
  ASSUME TypeOK, NEW x \in Processes, proc[x].pc \in {"idle", "next"}, NEW h,
         proc' = [proc EXCEPT ![x] = h], h.pc \notin {"commit", "note", "journal", "post"},
         UNCHANGED <<books, incidents>>
  PROVE Quiet
BY QuietBy, SameBooks, NotedRemembers

LEMMA RunQuiet ==
  ASSUME TypeOK, NEW x \in Processes,
         RunSchedules(x) \/ NextList(x) \/ (x \in Workers /\ RunDue(x))
  PROVE Quiet
<1> DEFINE again == [Idle EXCEPT !.pc = "next", !.run = "reversals", !.todo = PendingReversals]
<1>1. Run.pc = "next" /\ again.pc = "next" /\ Idle.pc = "idle"
  BY RunTyped, IdleTyped DEF AnyHandler
<1>2. proc[x].pc \in {"idle", "next"} /\ UNCHANGED <<books, incidents>>
  BY DEF RunSchedules, Starts, NextList, RunDue, ProcAt
<1>3. \E h \in {Run, again, Idle} : proc' = [proc EXCEPT ![x] = h]
  BY DEF RunSchedules, Starts, NextList, RunDue
<1> HIDE DEF again
<1> QED BY <1>1, <1>2, <1>3, StartQuiet

LEMMA ReceiveQuiet ==
  ASSUME TypeOK, NEW w \in Workers, NEW k \in DOMAIN stream, Receive(w, k) PROVE Quiet
<1> DEFINE m == stream[k].msg
           h == [Idle EXCEPT !.pc = Handler[m.kind], !.msg = k, !.doc = m.pay, !.inv = m.inv]
<1>1. m.kind \in Kinds
  <2>1. stream[k] \in Letters
    BY DEF TypeOK, StreamTyped
  <2> QED BY <2>1 DEF Letters, Messages
<1>2. h.pc \in {"book", "receive", "find", "look"}
  BY <1>1, IdleTyped DEF Handler, Kinds, AnyHandler
<1>3. proc' = [proc EXCEPT ![w] = h] /\ w \in Processes /\ proc[w].pc = "idle"
  BY DEF Receive, Processes, ProcAt
<1> HIDE DEF h
<1> QED BY <1>2, <1>3, StartQuiet DEF Receive

LEMMA FailsQuiet ==
  ASSUME TypeOK, NEW x \in Processes, FinanceFails(x) PROVE Quiet
<1>1. proc[x].pc # "idle" /\ UNCHANGED books
  BY DEF FinanceFails, ProcAt
<1>2. PICK h \in {Idle, Rest(x)} : proc' = [proc EXCEPT ![x] = h]
  BY DEF FinanceFails
<1>3. proc[x].pc = "journal" => "crashed" \in incidents'[proc[x].doc]
  <2> SUFFICES ASSUME proc[x].pc = "journal" PROVE "crashed" \in incidents'[proc[x].doc]
    OBVIOUS
  <2>1. proc[x].doc \in Docs
    BY AtHand DEF Handling
  <2> QED BY <2>1 DEF FinanceFails, ProcAt, Noted, TypeOK, CountsTyped
<1>4. Remembered
  BY NotedRemembers DEF FinanceFails
<1> QED BY <1>1, <1>2, <1>3, <1>4, RestIsQuiet, QuietBy, SameBooks

LEMMA NothingQuiet ==
  ASSUME TypeOK, \/ \E w \in Workers : AckLate(w)
                 \/ \E to \in {"OPEN", "CLOSED"} : SetPeriod(to)
                 \/ UNCHANGED vars
  PROVE Quiet
<1>1. UNCHANGED <<books, proc, incidents>>
  BY DEF AckLate, SetPeriod, vars, books
<1> QED BY <1>1, SameBooks, NotedRemembers DEF Quiet, QuietInvoices, QuietJournals

-----------------------------------------------------------------------------
(***************************************************************************)
(* Steps that change the books.                                            *)
(***************************************************************************)
LEMMA BooksBy ==
  ASSUME TypeOK, BooksIInv, NEW x \in Processes, NEW h, proc' = [proc EXCEPT ![x] = h], BooksInv',
         \A d \in Docs : doc[d].status # "NONE" => doc'[d].status # "NONE",
         \A i \in Invoices : ar[i].booked => ar'[i].booked,
         h.pc \in {"journal", "post"} =>
           IF h.doc \in Docs THEN doc'[h.doc].status # "NONE" ELSE ar'[h.doc].booked
  PROVE BooksIInv'
<1>1. ASSUME NEW y \in Processes, NEW d, proc'[y].pc \in {"journal", "post"}, proc'[y].doc = d
      PROVE Postable(d)'
  <2>1. CASE y = x
    <3>1. proc'[y] = h
      BY <2>1, OneMoves
    <3>2. h.pc \in {"journal", "post"} /\ h.doc = d
      BY <1>1, <3>1
    <3> QED BY <3>2 DEF Postable
  <2>2. CASE y # x
    <3>1. proc'[y] = proc[y]
      BY <2>2, OneMoves
    <3>2. d \in Docs \cup Invoices /\ Postable(d)
      BY <1>1, <3>1, AtHand DEF Handling, BooksIInv, Postable
    <3> QED BY <3>2 DEF Postable
  <2> QED BY <2>1, <2>2
<1> QED BY <1>1 DEF BooksIInv, Postable

\* A document that counted keeps what stands for its journal.
LEMMA JournalKept ==
  ASSUME TypeOK, BooksIInv, NEW x \in Processes, NEW h, proc' = [proc EXCEPT ![x] = h], Remembered,
         NEW d \in Docs, doc[d].status = "POSTED",
         d \in entries \cup drafts => d \in entries' \cup drafts',
         proc[x].pc = "journal" /\ proc[x].doc = d => d \in entries' \cup drafts'
  PROVE \/ d \in entries' \cup drafts' \/ "crashed" \in incidents'[d]
        \/ \E y \in Processes : proc'[y].pc = "journal" /\ proc'[y].doc = d
<1>1. CASE d \in entries \cup drafts \/ "crashed" \in incidents[d]
  BY <1>1 DEF Remembered
<1>2. ASSUME NEW y \in Processes, proc[y].pc = "journal", proc[y].doc = d
      PROVE d \in entries' \cup drafts' \/ (proc'[y].pc = "journal" /\ proc'[y].doc = d)
  BY <1>2, OneMoves
<1> QED BY <1>1, <1>2 DEF BooksIInv, BooksInv, ProcAt

LEMMA PostKeeps ==
  ASSUME TypeOK, LedgerInv, NEW x \in Processes, PostPaymentJournal(x) \/ RetryPosting(x)
  PROVE LedgerInv'
<1> DEFINE d == proc[x].doc
<1>1. /\ proc[x].pc \in {"journal", "post"} /\ d \in Docs \cup Invoices
      /\ proc[x].pc = "journal" => d \in Docs
  BY AtHand DEF PostPaymentJournal, RetryPosting, ProcAt, Handling
<1>2. /\ PostJournal(d) /\ UNCHANGED <<ar, doc, reversals>>
      /\ proc' = [proc EXCEPT ![x] = Rest(x)]
  BY DEF PostPaymentJournal, RetryPosting, Done
<1>3. Postable(d)
  BY <1>1 DEF LedgerInv, BooksIInv
<1>4. Remembered
  BY NotedRemembers DEF PostPaymentJournal, RetryPosting
<1>5. d \in Docs /\ doc[d].status = "VOID" => "late" \in incidents'[d]
  BY DEF PostPaymentJournal, RetryPosting, Noted, If, TypeOK, CountsTyped
<1>6. AllocIInv'
  <2>1. QuietInvoices
    BY <1>1, <1>2, <1>4, RestIsQuiet, OneMoves, SameBooks DEF QuietInvoices, OffCommit
  <2> QED BY <2>1, AllocStays DEF LedgerInv
<1>7. /\ entries \subseteq entries' /\ entries \cup drafts \cup {d} = entries' \cup drafts'
      /\ entries' \cap drafts' = {}
  BY <1>2 DEF PostJournal, LedgerInv, BooksIInv, BooksInv
<1>8. BooksInv'
  <2>1. ASSUME NEW e \in Docs, doc'[e].status = "POSTED"
        PROVE \/ e \in entries' \cup drafts' \/ "crashed" \in incidents'[e]
              \/ \E y \in Processes : proc'[y].pc = "journal" /\ proc'[y].doc = e
    BY <1>2, <1>4, <1>7, <2>1, JournalKept DEF LedgerInv
  <2>2. ASSUME NEW e \in Docs, doc'[e].status = "VOID"
        PROVE e \in reversals' \/ e \notin entries' \cup drafts' \/ "late" \in incidents'[e]
    BY <1>2, <1>4, <1>5, <1>7, <2>2 DEF LedgerInv, BooksIInv, BooksInv, Remembered
  <2>3. ASSUME NEW e \in Docs
        PROVE /\ e \in reversals' => e \in entries' /\ doc'[e].status = "VOID"
              /\ e \in entries' \cup drafts' => doc'[e].status # "NONE"
    BY <1>2, <1>3, <1>7 DEF LedgerInv, BooksIInv, BooksInv, Postable
  <2>4. ASSUME NEW i \in Invoices PROVE ar'[i].booked <=> i \in entries' \cup drafts'
    BY <1>2, <1>3, <1>7, InvoicesAreNotDocs DEF LedgerInv, BooksIInv, BooksInv, Postable
  <2> QED BY <1>7, <2>1, <2>2, <2>3, <2>4 DEF BooksInv, ProcAt
<1>9. BooksIInv'
  BY <1>1, <1>2, <1>8, RestIsQuiet, BooksBy DEF LedgerInv
<1> QED BY <1>6, <1>9 DEF LedgerInv

LEMMA AllocBy ==
  ASSUME TypeOK, TypeOK', AllocIInv, NEW x \in Processes, NEW h, proc' = [proc EXCEPT ![x] = h],
         AllocInv', \A i \in Invoices : ~ar'[i].booked => ar'[i].total = 0,
         \A i \in Invoices : ar[i].total <= ar'[i].total,
         h.pc \in {"commit", "note"} => h.amount + h.seen <= ar'[h.inv].total
  PROVE AllocIInv'
<1>1. ASSUME NEW y \in Processes, proc'[y].pc \in {"commit", "note"}
      PROVE proc'[y].amount + proc'[y].seen <= ar'[proc'[y].inv].total
  <2>1. CASE y = x
    <3>1. proc'[y] = h
      BY <2>1, OneMoves
    <3> QED BY <1>1, <3>1
  <2>2. CASE y # x
    <3>1. proc'[y] = proc[y]
      BY <2>2, OneMoves
    <3>2. /\ proc[y].inv \in Invoices /\ proc[y].amount \in Int /\ proc[y].seen \in Int
          /\ proc[y].amount + proc[y].seen <= ar[proc[y].inv].total
      BY <1>1, <3>1, AtHand DEF Handling, AllocIInv, Committing
    <3>3. ar[proc[y].inv].total \in Int /\ ar'[proc[y].inv].total \in Int
      BY <3>2 DEF TypeOK, BooksTyped, Receivables
    <3> QED BY <3>1, <3>2, <3>3
  <2> QED BY <2>1, <2>2
<1> QED BY <1>1 DEF AllocIInv, Committing

\* A check looks and notes what it saw; nothing in the books changes.
LEMMA ChecksKeep ==
  ASSUME TypeOK, TypeOK', LedgerInv, NEW x \in Processes, NEW h, proc' = [proc EXCEPT ![x] = h],
         proc[x].pc # "journal", UNCHANGED books, UNCHANGED incidents,
         h.pc \in {"commit", "note"}, h.amount + h.seen <= ar[h.inv].total
  PROVE LedgerInv'
<1>1. AllocIInv'
  <2>1. UNCHANGED ar /\ \A i \in Invoices : ar[i].total <= ar'[i].total
    BY DEF books, TypeOK, BooksTyped, Receivables
  <2>2. AllocInv'
    BY <2>1 DEF LedgerInv, AllocIInv, AllocInv
  <2> QED BY <2>1, <2>2, AllocBy DEF LedgerInv, AllocIInv
<1>2. QuietJournals
  BY OneMoves, SameBooks, NotedRemembers DEF QuietJournals, OffJournal
<1> QED BY <1>1, <1>2, BooksStayTrue DEF LedgerInv

LEMMA CheckAllocationKeeps ==
  ASSUME TypeOK, TypeOK', LedgerInv, NEW x \in Processes, CheckAllocation(x) PROVE LedgerInv'
<1> DEFINE i == proc[x].inv
           h == [proc[x] EXCEPT !.pc = "commit", !.seen = ar[i].allocated]
<1>1. proc[x].pc = "insert" /\ i \in Invoices /\ proc[x] \in Handlers
  BY AtHand DEF CheckAllocation, ProcAt, Handling
<1>2. CASE Fits(i, proc[x].amount)
  <2>1. h.pc = "commit" /\ h.amount = proc[x].amount /\ h.seen = ar[i].allocated /\ h.inv = i
    BY <1>1 DEF Handlers
  <2>2. proc[x].amount + ar[i].allocated <= ar[i].total
    <3>1. proc[x].amount \in Int /\ ar[i].allocated \in Int /\ ar[i].total \in Int
      BY <1>1 DEF Handlers, TypeOK, BooksTyped, Receivables
    <3> QED BY <1>1, <1>2, <3>1, OutstandingType DEF Fits
  <2>3. proc' = [proc EXCEPT ![x] = h] /\ UNCHANGED books /\ UNCHANGED incidents
    BY <1>2 DEF CheckAllocation
  <2> HIDE DEF h
  <2> QED BY <1>1, <2>1, <2>2, <2>3, ChecksKeep
<1>3. CASE ~Fits(i, proc[x].amount)
  <2>1. Passes(x) /\ Remembered
    BY <1>3, NotedRemembers DEF CheckAllocation, Passes
  <2>2. Quiet
    BY <1>1, <2>1, PassesQuiet, SameBooks DEF CheckAllocation
  <2> QED BY <2>2, QuietKeeps
<1> QED BY <1>2, <1>3

LEMMA CheckCreditKeeps ==
  ASSUME TypeOK, TypeOK', LedgerInv, NEW x \in Processes, CheckCredit(x) PROVE LedgerInv'
<1> DEFINE i == proc[x].inv
           h == [proc[x] EXCEPT !.pc = "note", !.amount = Outstanding(i), !.seen = ar[i].allocated]
<1>1. proc[x].pc = "credit" /\ i \in Invoices /\ proc[x] \in Handlers
  BY AtHand DEF CheckCredit, ProcAt, Handling
<1>2. CASE MayCredit(i)
  <2>1. h.pc = "note" /\ h.amount = Outstanding(i) /\ h.seen = ar[i].allocated /\ h.inv = i
    BY <1>1 DEF Handlers
  <2>2. Outstanding(i) + ar[i].allocated <= ar[i].total
    <3>1. ar[i].allocated \in Int /\ ar[i].total \in Int
      BY <1>1 DEF TypeOK, BooksTyped, Receivables
    <3> QED BY <1>1, <1>2, <3>1, OutstandingType DEF MayCredit
  <2>3. proc' = [proc EXCEPT ![x] = h] /\ UNCHANGED books /\ UNCHANGED incidents
    BY <1>2 DEF CheckCredit
  <2> HIDE DEF h
  <2> QED BY <1>1, <2>1, <2>2, <2>3, ChecksKeep
<1>3. CASE ~MayCredit(i)
  <2>1. Passes(x)
    <3>1. CASE AtDesk(x)
      BY <1>3, <3>1 DEF CheckCredit, Passes
    <3>2. CASE ~AtDesk(x)
      BY <1>1, <1>3, <3>2, GoesPasses DEF CheckCredit, Pcs
    <3> QED BY <3>1, <3>2
  <2>2. Quiet
    BY <1>1, <2>1, PassesQuiet, SameBooks, NotedRemembers DEF CheckCredit
  <2> QED BY <2>2, QuietKeeps
<1> QED BY <1>2, <1>3

\* An allocation is what was checked, or something crossed it.
LEMMA AllocateAlloc ==
  ASSUME TypeOK, TypeOK', AllocIInv, NEW x \in Processes, Committing(x), NEW d \in Docs, Allocate(x, d),
         NEW h, proc' = [proc EXCEPT ![x] = h], h.pc \notin {"commit", "note"}
  PROVE AllocIInv'
<1> DEFINE i == proc[x].inv
           n == proc[x].amount
<1>1. /\ i \in Invoices /\ n \in Nat /\ proc[x].seen \in Int
      /\ n + proc[x].seen <= ar[i].total
  BY AtHand DEF Committing, Handling, AllocIInv
<1>2. /\ ar'[i].allocated = ar[i].allocated + n
      /\ \A j \in Invoices :
           /\ ar'[j].total = ar[j].total /\ ar'[j].booked = ar[j].booked
           /\ ar[j].total \in Nat /\ ar[j].allocated \in Int
           /\ j # i => ar'[j] = ar[j]
  BY <1>1 DEF Allocate, TypeOK, BooksTyped, Receivables
<1>3. ar[i].allocated > proc[x].seen => "crossed" \in incidents'[i]
  BY <1>1 DEF Allocate, Noted, If, TypeOK, CountsTyped
<1>4. Remembered
  BY NotedRemembers DEF Allocate
<1>5. AllocInv'
  <2> SUFFICES ASSUME NEW j \in Invoices
               PROVE "crossed" \in incidents'[j] \/ ar'[j].allocated <= ar'[j].total
    BY DEF AllocInv
  <2>1. CASE j = i
    BY <1>1, <1>2, <1>3, <2>1
  <2>2. CASE j # i
    BY <1>2, <1>4, <2>2 DEF AllocIInv, AllocInv, Remembered
  <2> QED BY <2>1, <2>2
<1>6. \A j \in Invoices : ar[j].total <= ar'[j].total /\ (~ar'[j].booked => ar'[j].total = 0)
  BY <1>2 DEF AllocIInv
<1> QED BY <1>5, <1>6, AllocBy

\* A new document comes with its journal, or with a process that is to post it.
LEMMA AllocateBooks ==
  ASSUME TypeOK, BooksIInv, NEW x \in Processes, Committing(x), NEW d \in Docs, Allocate(x, d),
         doc[d].status = "NONE", UNCHANGED <<reversals, drafts>>,
         NEW h, proc' = [proc EXCEPT ![x] = h], h.pc # "post",
         \/ entries' = entries \cup {d} /\ h.pc # "journal"
         \/ UNCHANGED entries /\ h.pc = "journal" /\ h.doc = d
  PROVE BooksIInv'
<1>1. /\ doc'[d].status = "POSTED" /\ \A e \in Docs : e # d => doc'[e] = doc[e]
      /\ \A i \in Invoices : ar'[i].booked = ar[i].booked
  BY AtHand DEF Allocate, Document, TypeOK, BooksTyped, Receivables, Committing, Handling
<1>2. d \notin entries /\ d \notin drafts /\ d \notin reversals
  BY DEF BooksIInv, BooksInv
<1>3. Remembered
  BY NotedRemembers DEF Allocate
<1>4. entries \subseteq entries' /\ entries' \subseteq entries \cup {d} /\ proc'[x] = h
  BY OneMoves
<1>5. BooksInv'
  <2>1. ASSUME NEW e \in Docs, doc'[e].status = "POSTED"
        PROVE \/ e \in entries' \cup drafts' \/ "crashed" \in incidents'[e]
              \/ \E y \in Processes : proc'[y].pc = "journal" /\ proc'[y].doc = e
    <3>1. CASE e = d
      BY <1>4, <3>1
    <3>2. CASE e # d
      <4>1. doc[e].status = "POSTED" /\ proc[x].pc # "journal"
        BY <1>1, <2>1, <3>2 DEF Committing
      <4>2. e \in entries \cup drafts => e \in entries' \cup drafts'
        BY <1>4
      <4> QED BY <1>3, <4>1, <4>2, JournalKept
    <3> QED BY <3>1, <3>2
  <2>2. ASSUME NEW e \in Docs
        PROVE /\ e \in reversals' => e \in entries' /\ doc'[e].status = "VOID"
              /\ e \in entries' \cup drafts' => doc'[e].status # "NONE"
              /\ doc'[e].status = "VOID" =>
                   e \in reversals' \/ e \notin entries' \cup drafts' \/ "late" \in incidents'[e]
    BY <1>1, <1>2, <1>3, <1>4 DEF BooksIInv, BooksInv, Remembered
  <2>3. ASSUME NEW i \in Invoices PROVE ar'[i].booked <=> i \in entries' \cup drafts'
    BY <1>1, <1>4, InvoicesAreNotDocs DEF BooksIInv, BooksInv
  <2>4. entries' \cap drafts' = {}
    BY <1>2, <1>4 DEF BooksIInv, BooksInv
  <2> QED BY <2>1, <2>2, <2>3, <2>4 DEF BooksInv, ProcAt
<1> QED BY <1>1, <1>5, BooksBy

LEMMA CommitSalesKeeps ==
  ASSUME TypeOK, TypeOK', LedgerInv, NEW x \in Processes, CommitSalesReceipt(x) PROVE LedgerInv'
<1> DEFINE d == proc[x].doc
           h == [proc[x] EXCEPT !.pc = "journal"]
<1>1. proc[x].pc = "commit" /\ d \in Docs /\ proc[x] \in Handlers
  BY AtHand, AmountsAreNumbers DEF CommitSalesReceipt, ProcAt, Handling, ByMessage
<1>2. CASE doc[d].status = "NONE"
  <2>1. /\ Allocate(x, d) /\ proc' = [proc EXCEPT ![x] = h]
        /\ UNCHANGED <<entries, reversals, drafts>>
    BY <1>2 DEF CommitSalesReceipt, Goes
  <2>2. h.pc = "journal" /\ h.doc = d /\ Committing(x)
    BY <1>1 DEF Handlers, Committing
  <2> HIDE DEF h
  <2>3. AllocIInv'
    BY <1>1, <2>1, <2>2, AllocateAlloc DEF LedgerInv
  <2>4. BooksIInv'
    BY <1>1, <1>2, <2>1, <2>2, AllocateBooks DEF LedgerInv
  <2> QED BY <2>3, <2>4 DEF LedgerInv
<1>3. CASE doc[d].status # "NONE"
  <2>1. Passes(x) /\ UNCHANGED <<ar, doc, incidents, entries, reversals, drafts>>
    BY <1>3 DEF CommitSalesReceipt, Passes
  <2>2. Quiet
    BY <1>1, <2>1, PassesQuiet, SameBooks, NotedRemembers DEF SameJournals
  <2> QED BY <2>2, QuietKeeps
<1> QED BY <1>2, <1>3

LEMMA VoucherKeeps ==
  ASSUME TypeOK, TypeOK', LedgerInv, NEW x \in Processes, Committing(x), NEW d, CommitVoucher(x, d),
         Passes(x)
  PROVE LedgerInv'
<1>1. d \in Docs /\ doc[d].status = "NONE" /\ Allocate(x, d) /\ proc[x].pc # "idle"
  BY InvoicesAreNotDocs DEF CommitVoucher, Committing
<1>2. PICK h : /\ proc' = [proc EXCEPT ![x] = h]
               /\ h.pc \notin {"commit", "note", "journal", "post"}
  BY <1>1, RestIsQuiet DEF Passes, Done, Nak
<1>3. AllocIInv'
  BY <1>1, <1>2, AllocateAlloc DEF LedgerInv
<1>4. BooksIInv'
  BY <1>1, <1>2, AllocateBooks DEF LedgerInv, CommitVoucher
<1> QED BY <1>3, <1>4 DEF LedgerInv

LEMMA ReceiptKeeps ==
  ASSUME TypeOK, TypeOK', LedgerInv, NEW x \in Processes, RecordReceipt(x) PROVE LedgerInv'
<1>1. proc[x].pc = "commit" /\ Passes(x) /\ Committing(x)
  BY DEF RecordReceipt, ProcAt, Passes, Committing
<1>2. ASSUME NEW d \in Vouchers, CommitVoucher(x, d) PROVE LedgerInv'
  BY <1>1, <1>2, VoucherKeeps
<1>3. CASE UNCHANGED <<books, period, incidents>>
  <2>1. Quiet
    BY <1>1, <1>3, PassesQuiet, SameBooks, NotedRemembers
  <2> QED BY <2>1, QuietKeeps
<1> QED BY <1>2, <1>3 DEF RecordReceipt

LEMMA NoteKeeps ==
  ASSUME TypeOK, TypeOK', LedgerInv, NEW x \in Processes, CreateCreditNote(x) PROVE LedgerInv'
<1>1. proc[x].pc = "note" /\ Committing(x) /\ proc[x] \in Handlers
  BY AtHand DEF CreateCreditNote, ProcAt, Committing
<1>2. ASSUME NEW ok \in BOOLEAN, Credited(x, ok) PROVE Passes(x)
  <2> DEFINE h == [proc[x] EXCEPT !.pc = "settle", !.ok = ok]
  <2>1. h \in Handlers /\ h.pc = "settle"
    BY <1>1 DEF Handlers, Pcs
  <2>2. Done(x) \/ proc' = [proc EXCEPT ![x] = h]
    BY <1>2 DEF Credited
  <2> HIDE DEF h
  <2> QED BY <2>1, <2>2 DEF Passes
<1>3. ASSUME NEW d \in Vouchers, CommitVoucher(x, d), Credited(x, TRUE) PROVE LedgerInv'
  BY <1>1, <1>2, <1>3, VoucherKeeps
<1>4. CASE Credited(x, FALSE) /\ UNCHANGED <<books, period, incidents>>
  <2>1. Quiet
    BY <1>1, <1>2, <1>4, PassesQuiet, SameBooks, NotedRemembers
  <2> QED BY <2>1, QuietKeeps
<1> QED BY <1>3, <1>4 DEF CreateCreditNote

LEMMA VoidKeeps ==
  ASSUME TypeOK, TypeOK', LedgerInv, NEW x \in Processes, VoidPayment(x) PROVE LedgerInv'
<1> DEFINE d == proc[x].doc
           posted == d \in entries
           refused == posted /\ (period = "CLOSED" \/ d \in reversals)
<1>1. proc[x].pc = "reverse" /\ d \in Docs /\ Passes(x)
  BY AtHand, VoidedPasses DEF VoidPayment, ProcAt, Handling
<1>2. UNCHANGED <<entries, incidents>> /\ Remembered
  BY NotedRemembers DEF VoidPayment
<1>3. CASE refused
  <2>1. UNCHANGED <<ar, doc, entries, reversals, drafts>>
    BY <1>2, <1>3 DEF VoidPayment, Journaled
  <2>2. Quiet
    BY <1>1, <1>2, <2>1, PassesQuiet, SameBooks DEF SameJournals
  <2> QED BY <2>2, QuietKeeps
<1>4. CASE ~refused
  <2>1. PICK h : /\ proc' = [proc EXCEPT ![x] = h]
                 /\ h.pc \notin {"commit", "note", "journal", "post"}
    BY <1>1, RestIsQuiet DEF Passes, Done, Nak
  <2>2. /\ doc' = [doc EXCEPT ![d].status = "VOID"]
        /\ ar' = IF doc[d].status = "POSTED"
                 THEN [ar EXCEPT ![doc[d].inv].allocated = @ - doc[d].amount] ELSE ar
        /\ posted => reversals' = reversals \cup {d} /\ drafts' = drafts
        /\ ~posted => reversals' = reversals /\ drafts' = drafts \ {d}
    BY <1>4 DEF VoidPayment, DraftDropped, Journaled
  <2>3. doc'[d].status = "VOID" /\ \A e \in Docs : e # d => doc'[e] = doc[e]
    BY <1>1, <2>2 DEF TypeOK, BooksTyped, Documents
  <2>4. \A i \in Invoices :
          /\ ar[i].total \in Int /\ ar[i].allocated \in Int /\ ar'[i].allocated \in Int
          /\ ar'[i].total = ar[i].total /\ ar'[i].booked = ar[i].booked
          /\ ar'[i].allocated <= ar[i].allocated
    <3> TAKE i \in Invoices
    <3>1. ar[i].total \in Int /\ ar[i].allocated \in Int /\ ar'[i].allocated \in Int
      BY DEF TypeOK, BooksTyped, Receivables
    <3>2. CASE doc[d].status = "POSTED" /\ doc[d].inv = i
      <4>1. doc[d].amount \in Nat
        BY <1>1 DEF TypeOK, BooksTyped, Documents
      <4>2. ar' = [ar EXCEPT ![i].allocated = ar[i].allocated - doc[d].amount]
        BY <2>2, <3>2
      <4>3. /\ ar'[i].allocated = ar[i].allocated - doc[d].amount
            /\ ar'[i].total = ar[i].total /\ ar'[i].booked = ar[i].booked
        BY <4>2 DEF TypeOK, BooksTyped, Receivables
      <4> QED BY <3>1, <4>1, <4>3
    <3>3. CASE ~(doc[d].status = "POSTED" /\ doc[d].inv = i)
      <4>1. ar'[i] = ar[i]
        BY <2>2, <3>3 DEF TypeOK, BooksTyped
      <4> QED BY <3>1, <4>1
    <3> QED BY <3>2, <3>3
  <2>5. AllocIInv'
    <3>1. AllocInv'
      BY <1>2, <2>4 DEF LedgerInv, AllocIInv, AllocInv
    <3>2. \A i \in Invoices : ar[i].total <= ar'[i].total /\ (~ar'[i].booked => ar'[i].total = 0)
      BY <2>4 DEF LedgerInv, AllocIInv
    <3> QED BY <2>1, <3>1, <3>2, AllocBy DEF LedgerInv
  <2>6. BooksInv'
    <3>1. ASSUME NEW e \in Docs, doc'[e].status = "POSTED"
          PROVE \/ e \in entries' \cup drafts' \/ "crashed" \in incidents'[e]
                \/ \E y \in Processes : proc'[y].pc = "journal" /\ proc'[y].doc = e
      <4>1. e # d /\ doc[e].status = "POSTED"
        BY <2>3, <3>1
      <4>2. e \in entries \cup drafts => e \in entries' \cup drafts'
        BY <1>2, <2>2, <4>1
      <4> QED BY <1>1, <1>2, <2>1, <4>1, <4>2, JournalKept DEF LedgerInv
    <3>2. ASSUME NEW e \in Docs
          PROVE /\ e \in reversals' => e \in entries' /\ doc'[e].status = "VOID"
                /\ e \in entries' \cup drafts' => doc'[e].status # "NONE"
                /\ doc'[e].status = "VOID" =>
                     e \in reversals' \/ e \notin entries' \cup drafts' \/ "late" \in incidents'[e]
      BY <1>2, <2>2, <2>3 DEF LedgerInv, BooksIInv, BooksInv
    <3>3. ASSUME NEW i \in Invoices PROVE ar'[i].booked <=> i \in entries' \cup drafts'
      <4>1. i # d
        BY <1>1, InvoicesAreNotDocs
      <4>2. i \in entries' \cup drafts' <=> i \in entries \cup drafts
        BY <1>2, <2>2, <4>1
      <4>3. ar'[i].booked = ar[i].booked
        BY <2>4
      <4> QED BY <4>2, <4>3 DEF LedgerInv, BooksIInv, BooksInv
    <3>4. entries' \cap drafts' = {}
      BY <1>2, <2>2 DEF LedgerInv, BooksIInv, BooksInv
    <3> QED BY <3>1, <3>2, <3>3, <3>4 DEF BooksInv, ProcAt
  <2>7. BooksIInv'
    BY <2>1, <2>3, <2>4, <2>6, BooksBy DEF LedgerInv
  <2> QED BY <2>5, <2>7 DEF LedgerInv
<1> QED BY <1>3, <1>4

LEMMA IssuedKeeps ==
  ASSUME TypeOK, TypeOK', LedgerInv, NEW w \in Processes, SalesInvoiceIssued(w) PROVE LedgerInv'
<1> DEFINE i == proc[w].inv
           n == Message(w).amount
<1>1. proc[w].pc = "book" /\ i \in Invoices /\ Passes(w) /\ proc' = [proc EXCEPT ![w] = Rest(w)]
  BY AtHand DEF SalesInvoiceIssued, ProcAt, Handling, Passes, Done
<1>2. UNCHANGED <<doc, reversals, incidents>> /\ Remembered
  BY NotedRemembers DEF SalesInvoiceIssued
<1>3. CASE ar[i].booked
  <2>1. UNCHANGED <<ar, entries, drafts>>
    BY <1>3 DEF SalesInvoiceIssued
  <2>2. Quiet
    BY <1>1, <1>2, <2>1, PassesQuiet, SameBooks DEF SameJournals
  <2> QED BY <2>2, QuietKeeps
<1>4. CASE ~ar[i].booked
  <2>1. /\ ar' = [ar EXCEPT ![i] = [ar[i] EXCEPT !.booked = TRUE, !.total = n]]
        /\ PostJournal(i)
    BY <1>4 DEF SalesInvoiceIssued
  <2>2. /\ ar'[i].booked /\ ar'[i].total \in Nat /\ ar'[i].allocated = ar[i].allocated
        /\ \A j \in Invoices : j # i => ar'[j] = ar[j]
    <3>1. ar'[i].total \in Nat
      BY <1>1 DEF TypeOK, BooksTyped, Receivables
    <3>2. ar[i] \in Receivables /\ ar'[i] = [ar[i] EXCEPT !.booked = TRUE, !.total = n]
      BY <1>1, <2>1 DEF TypeOK, BooksTyped
    <3>3. ar'[i].booked /\ ar'[i].allocated = ar[i].allocated
      BY <3>2 DEF Receivables
    <3> QED BY <1>1, <2>1, <3>1, <3>3 DEF TypeOK, BooksTyped
  <2>3. ar[i].total = 0 /\ ar[i].allocated \in Int
    BY <1>1, <1>4 DEF LedgerInv, AllocIInv, TypeOK, BooksTyped, Receivables
  <2>4. AllocIInv'
    <3>1. AllocInv'
      <4> SUFFICES ASSUME NEW j \in Invoices
                   PROVE "crossed" \in incidents'[j] \/ ar'[j].allocated <= ar'[j].total
        BY DEF AllocInv
      <4>1. "crossed" \in incidents[j] \/ ar[j].allocated <= ar[j].total
        BY DEF LedgerInv, AllocIInv, AllocInv
      <4> QED BY <1>2, <2>2, <2>3, <4>1
    <3>2. \A j \in Invoices : ar[j].total <= ar'[j].total
      <4>1. \A j \in Invoices : ar[j].total \in Int
        BY DEF TypeOK, BooksTyped, Receivables
      <4> QED BY <2>2, <2>3, <4>1
    <3>3. \A j \in Invoices : ~ar'[j].booked => ar'[j].total = 0
      BY <2>2 DEF LedgerInv, AllocIInv
    <3>4. Rest(w).pc \notin {"commit", "note"}
      BY <1>1, RestIsQuiet
    <3> QED BY <1>1, <3>1, <3>2, <3>3, <3>4, AllocBy DEF LedgerInv
  <2>5. /\ entries \subseteq entries' /\ entries \cup drafts \cup {i} = entries' \cup drafts'
        /\ entries' \cap drafts' = {}
    BY <2>1 DEF PostJournal, LedgerInv, BooksIInv, BooksInv
  <2>6. BooksInv'
    <3>1. ASSUME NEW e \in Docs, doc'[e].status = "POSTED"
          PROVE \/ e \in entries' \cup drafts' \/ "crashed" \in incidents'[e]
                \/ \E y \in Processes : proc'[y].pc = "journal" /\ proc'[y].doc = e
      BY <1>1, <1>2, <2>5, <3>1, JournalKept DEF LedgerInv
    <3>2. ASSUME NEW e \in Docs
          PROVE /\ e \in reversals' => e \in entries' /\ doc'[e].status = "VOID"
                /\ e \in entries' \cup drafts' => doc'[e].status # "NONE"
                /\ doc'[e].status = "VOID" =>
                     e \in reversals' \/ e \notin entries' \cup drafts' \/ "late" \in incidents'[e]
      BY <1>1, <1>2, <2>5, InvoicesAreNotDocs DEF LedgerInv, BooksIInv, BooksInv
    <3>3. ASSUME NEW j \in Invoices PROVE ar'[j].booked <=> j \in entries' \cup drafts'
      BY <2>2, <2>5 DEF LedgerInv, BooksIInv, BooksInv
    <3> QED BY <2>5, <3>1, <3>2, <3>3 DEF BooksInv, ProcAt
  <2>7. BooksIInv'
    <3>1. Rest(w).pc \notin {"journal", "post"}
      BY <1>1, RestIsQuiet
    <3> QED BY <1>1, <1>2, <2>2, <2>6, <3>1, BooksBy DEF LedgerInv
  <2> QED BY <2>4, <2>7 DEF LedgerInv
<1> QED BY <1>3, <1>4

\* A process that takes a draft out of the posting log finds its document there.
LEMMA TakesDraft ==
  ASSUME TypeOK, TypeOK', LedgerInv, NEW x \in Processes, NEW h, proc' = [proc EXCEPT ![x] = h],
         proc[x].pc \in {"idle", "next"}, h.pc = "post", h.doc \in drafts, UNCHANGED <<books, incidents>>
  PROVE LedgerInv'
<1>1. AllocIInv'
  BY OneMoves, SameBooks, NotedRemembers, AllocStays DEF LedgerInv, QuietInvoices, OffCommit
<1>2. h.doc \in Docs \cup Invoices
  BY DEF TypeOK, BooksTyped
<1>3. IF h.doc \in Docs THEN doc'[h.doc].status # "NONE" ELSE ar'[h.doc].booked
  BY <1>2 DEF LedgerInv, BooksIInv, BooksInv, books
<1>4. BooksInv'
  <2>1. ASSUME NEW e \in Docs, doc'[e].status = "POSTED"
        PROVE \/ e \in entries' \cup drafts' \/ "crashed" \in incidents'[e]
              \/ \E y \in Processes : proc'[y].pc = "journal" /\ proc'[y].doc = e
    BY <2>1, JournalKept, NotedRemembers DEF LedgerInv, books
  <2> QED BY <2>1 DEF LedgerInv, BooksIInv, BooksInv, books, ProcAt
<1>5. BooksIInv'
  BY <1>3, <1>4, BooksBy DEF LedgerInv, books
<1> QED BY <1>1, <1>5 DEF LedgerInv

LEMMA NextItemKeeps ==
  ASSUME TypeOK, TypeOK', LedgerInv, NEW x \in Processes, NEW d \in proc[x].todo, NextItem(x, d)
  PROVE LedgerInv'
<1> DEFINE h == proc[x]
           rest == [h EXCEPT !.todo = h.todo \ {d}]
           post == [rest EXCEPT !.pc = "post", !.doc = d]
           void == [rest EXCEPT !.pc = "void", !.doc = d]
           look == [rest EXCEPT !.pc = "look", !.inv = d]
<1>1. /\ h.pc = "next" /\ h \in Handlers /\ UNCHANGED <<books, incidents>>
      /\ d \in Docs \cup Invoices
  BY AtHand DEF NextItem, ProcAt
<1>2. /\ rest.pc = "next" /\ post.pc = "post" /\ post.doc = d
      /\ void.pc = "void" /\ look.pc = "look"
  BY <1>1 DEF Handlers
<1>3. \/ \E r \in {rest, void, look} : proc' = [proc EXCEPT ![x] = r]
      \/ d \in drafts /\ proc' = [proc EXCEPT ![x] = post]
  <2> DEFINE r == IF h.run = "postings" THEN IF d \in drafts THEN post ELSE rest
                  ELSE IF d \in Docs THEN void ELSE look
  <2>1. proc' = [proc EXCEPT ![x] = r]
    BY DEF NextItem
  <2>2. r \in {rest, void, look} \/ (d \in drafts /\ r = post)
    <3> HIDE DEF rest, void, look, post
    <3> QED OBVIOUS
  <2> HIDE DEF r
  <2> QED BY <2>1, <2>2
<1> HIDE DEF h, rest, post, void, look
<1>4. proc[x].pc = "next"
  BY <1>1 DEF h
<1>5. ASSUME NEW r \in {rest, void, look}, proc' = [proc EXCEPT ![x] = r] PROVE LedgerInv'
  BY <1>1, <1>2, <1>4, <1>5, StartQuiet, QuietKeeps
<1>6. CASE d \in drafts /\ proc' = [proc EXCEPT ![x] = post]
  BY <1>1, <1>2, <1>4, <1>6, TakesDraft
<1> QED BY <1>3, <1>5, <1>6

LEMMA DeskKeeps ==
  ASSUME TypeOK, TypeOK', LedgerInv, NEW c \in Clerks, DeskRequest(c) PROVE LedgerInv'
<1>0. c \in Processes
  BY DEF Processes
<1>1. ASSUME NEW op, NEW h, Starts(c, op, h), h.pc \in {"insert", "credit", "void"}
      PROVE LedgerInv'
  <2>1. Quiet
    BY <1>0, <1>1, StartQuiet DEF Starts, ProcAt
  <2> QED BY <2>1, QuietKeeps
<1>2. ASSUME NEW i, NEW n, NEW op, Starts(c, op, [Idle EXCEPT !.pc = "insert", !.inv = i, !.amount = n])
      PROVE LedgerInv'
  <2> DEFINE h == [Idle EXCEPT !.pc = "insert", !.inv = i, !.amount = n]
  <2>1. h.pc = "insert"
    BY IdleTyped DEF AnyHandler
  <2> HIDE DEF h
  <2> QED BY <1>1, <1>2, <2>1 DEF h
<1>3. ASSUME NEW i, NEW method, NEW op,
             Starts(c, op, [Idle EXCEPT !.pc = "credit", !.inv = i, !.method = method])
      PROVE LedgerInv'
  <2> DEFINE h == [Idle EXCEPT !.pc = "credit", !.inv = i, !.method = method]
  <2>1. h.pc = "credit"
    BY IdleTyped DEF AnyHandler
  <2> HIDE DEF h
  <2> QED BY <1>1, <1>3, <2>1 DEF h
<1>4. ASSUME NEW d, NEW op, Starts(c, op, [Idle EXCEPT !.pc = "void", !.doc = d]) PROVE LedgerInv'
  <2> DEFINE h == [Idle EXCEPT !.pc = "void", !.doc = d]
  <2>1. h.pc = "void"
    BY IdleTyped DEF AnyHandler
  <2> HIDE DEF h
  <2> QED BY <1>1, <1>4, <2>1 DEF h
<1>5. ASSUME NEW d \in drafts, NEW op, Starts(c, op, [Idle EXCEPT !.pc = "post", !.doc = d])
      PROVE LedgerInv'
  <2> DEFINE h == [Idle EXCEPT !.pc = "post", !.doc = d]
  <2>1. h.pc = "post" /\ h.doc = d
    BY IdleTyped DEF AnyHandler
  <2>2. proc' = [proc EXCEPT ![c] = h] /\ proc[c].pc = "idle" /\ UNCHANGED <<books, incidents>>
    BY <1>5 DEF Starts, ProcAt
  <2> HIDE DEF h
  <2> QED BY <1>0, <2>1, <2>2, TakesDraft
<1> QED BY <1>2, <1>3, <1>4, <1>5 DEF DeskRequest

-----------------------------------------------------------------------------
LEMMA InitLedger == Init => LedgerInv
<1> SUFFICES ASSUME Init PROVE LedgerInv
  OBVIOUS
<1>1. \A x \in Processes : proc[x].pc = "idle"
  BY IdleTyped DEF Init
<1>2. AllocIInv
  BY <1>1 DEF Init, AllocIInv, AllocInv, Committing
<1>3. BooksIInv
  BY <1>1 DEF Init, BooksIInv, BooksInv, Postable
<1> QED BY <1>2, <1>3 DEF LedgerInv

LEMMA LedgerKept ==
  ASSUME TypeOK, TypeOK', LedgerInv, [Next]_vars PROVE LedgerInv'
<1>1. ASSUME NEW x \in Processes, FinanceStep(x) PROVE LedgerInv'
  BY <1>1, QuietKeeps, PostKeeps, CheckAllocationKeeps, CommitSalesKeeps, ReceiptKeeps, CheckCreditKeeps,
     NoteKeeps, CheckVoidQuiet, VoidKeeps, IssuedKeeps, RecordedQuiet, AdvanceQuiet, DeletedQuiet,
     MarkQuiet, CancelledQuiet, RunQuiet, NextItemKeeps
     DEF FinanceStep, PostingStep, AutoPostStep
<1>2. ASSUME NEW c \in Clerks, RunSchedules(c) PROVE LedgerInv'
  BY <1>2, RunQuiet, QuietKeeps DEF Processes
<1>3. ASSUME NEW w \in Workers, RunDue(w) PROVE LedgerInv'
  BY <1>3, RunQuiet, QuietKeeps DEF Processes
<1> QED BY <1>1, <1>2, <1>3, SalesQuiet, ReceiveQuiet, FailsQuiet, NothingQuiet, QuietKeeps, DeskKeeps
        DEF Next

\* No more is allocated to an invoice than it is worth, unless something else was
\* allocated to it between the check of an allocation and its commit.
THEOREM AllocHolds == Spec => []AllocInv
<1>1. LedgerInv => AllocInv
  BY DEF LedgerInv, AllocIInv
<1> QED BY <1>1, Typing, InitLedger, LedgerKept, PTL DEF Spec

\* Documents and journals agree, but for a handler that died between the two and a
\* document that was voided before its journal was posted.
THEOREM BooksHold == Spec => []BooksInv
<1>1. LedgerInv => BooksInv
  BY DEF LedgerInv, BooksIInv
<1> QED BY <1>1, Typing, InitLedger, LedgerKept, PTL DEF Spec
=============================================================================
