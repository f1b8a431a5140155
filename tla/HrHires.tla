------------------------------- MODULE HrHires -------------------------------
(***************************************************************************)
(* hr (internal/hr/app): OnCandidateHired makes an employee of a hired     *)
(* candidate, once, and people make and delete employees by hand. Numbers  *)
(* and addresses are unique among employees not deleted; the database      *)
(* refuses the insert of another.                                          *)
(***************************************************************************)
EXTENDS HiresStore

Message(w) == stream[proc[w].msg].msg

Rests(x) == proc' = [proc EXCEPT ![x] = Idle]

NewEmployee(c, t, no, e) ==
  [from |-> c, terms |-> t, no |-> no, email |-> e, present |-> TRUE]

\* The handler reads the next free number before its transaction.
Receive(w, k) ==
  /\ ProcAt(w, "idle") /\ Waiting(k)
  /\ Deliver(k)
  /\ proc' = [proc EXCEPT ![w] = [Idle EXCEPT !.pc = "hire", !.msg = k, !.no = NextAutoNip]]
  /\ RecruitingIdle /\ UNCHANGED <<emp, claims, told, ops, faults, incidents>>

\* Mutant: a redelivery is not recognised.
NeverSeen(c) == FALSE

Seen(c) == c \in claims

\* The transaction: the claim, the employee, the onboarding tasks. With an address
\* in use all of it is undone and hr links the two by hand; with a number in use
\* the message comes again. (The index on numbers is the older one and speaks first.)
OnCandidateHired(w) ==
  LET c == Message(w).cand
      done == proc' = [proc EXCEPT ![w].pc = "ack"] /\ UNCHANGED stream
  IN  /\ ProcAt(w, "hire")
      /\ \/ /\ Seen(c)
            /\ done /\ UNCHANGED <<emp, claims, told>>
         \/ /\ ~Seen(c) /\ ~NumberTaken(proc[w].no) /\ ~EmailTaken(Email[c])
            /\ emp' = Append(emp, NewEmployee(c, Message(w).terms, proc[w].no, Email[c]))
            /\ claims' = claims \cup {c}
            /\ done /\ UNCHANGED told
         \/ /\ ~Seen(c) /\ ~NumberTaken(proc[w].no) /\ EmailTaken(Email[c])
            /\ told' = told \cup {c}
            /\ done /\ UNCHANGED <<emp, claims>>
         \/ /\ ~Seen(c) /\ NumberTaken(proc[w].no)
            /\ Return(proc[w].msg) /\ Rests(w) /\ UNCHANGED <<emp, claims, told>>
      /\ RecruitingIdle /\ UNCHANGED <<ops, faults, incidents>>

Acknowledge(w) ==
  /\ ProcAt(w, "ack")
  /\ Ack(proc[w].msg) /\ Rests(w)
  /\ RecruitingIdle /\ UNCHANGED <<emp, claims, told, ops, faults, incidents>>

\* A lookup fails, or the process dies, before the transaction or before the ack.
HandlerFails(x) ==
  /\ ~ProcAt(x, "idle") /\ Fault
  /\ IF x \in Workers THEN Return(proc[x].msg) ELSE UNCHANGED stream
  /\ Rests(x)
  /\ RecruitingIdle /\ UNCHANGED <<emp, claims, told, ops, incidents>>

\* The ack is late: the message is delivered again while its handler goes on.
AckLate(w) ==
  /\ ~ProcAt(w, "idle") /\ Fault
  /\ stream[proc[w].msg].state = "out"
  /\ Return(proc[w].msg)
  /\ RecruitingIdle /\ UNCHANGED <<emp, claims, proc, told, ops, incidents>>

\* People.Create reads the next number too; whose insert is refused gives up.
CreateEmployee(h, e) ==
  /\ ProcAt(h, "idle") /\ Begin("employ")
  /\ proc' = [proc EXCEPT ![h] = [Idle EXCEPT !.pc = "insert", !.no = NextAutoNip, !.email = e]]
  /\ RecruitingIdle /\ UNCHANGED <<emp, claims, told, stream, faults, incidents>>

InsertEmployee(h) ==
  LET p == proc[h]
  IN  /\ ProcAt(h, "insert")
      /\ emp' = IF NumberTaken(p.no) \/ EmailTaken(p.email) THEN emp
                ELSE Append(emp, NewEmployee(NoCandidate, NoOffer, p.no, p.email))
      /\ Rests(h)
      /\ RecruitingIdle /\ UNCHANGED <<claims, told, stream, ops, faults, incidents>>

\* DeleteEmployee is soft: the row, and the claim on the candidate, stay.
DeleteEmployee(n) ==
  /\ Begin("dismiss") /\ n \in Present
  /\ emp' = [emp EXCEPT ![n].present = FALSE]
  /\ RecruitingIdle /\ UNCHANGED <<claims, proc, told, stream, faults, incidents>>

HrRequest ==
  \/ \E n \in DOMAIN emp : DeleteEmployee(n)
  \/ \E h \in Clerks, e \in Emails : CreateEmployee(h, e)

HrStep(x) == OnCandidateHired(x) \/ Acknowledge(x) \/ InsertEmployee(x)
=============================================================================
