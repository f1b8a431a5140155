-------------------------- MODULE ContentInvariants --------------------------
(***************************************************************************)
(* Proofs of the invariants of Content, on top of its types. All speak of  *)
(* the rows in flight (RowsOf): no handler invents a row, it passes on one *)
(* it has read or writes one made from it. The first part (...Flow) says   *)
(* so of every action, the others conclude: CopyHolds, TruthHolds,         *)
(* TrackedHolds and OnceHolds.                                             *)
(***************************************************************************)
EXTENDS ContentProofs, FiniteSetTheorems

\* A row written for j is among the rows of i when i is j.
For(i, j, row) == IF i = j THEN {row} ELSE {}

ListedFor(i, todo) == {x.row : x \in {y \in todo : y.item = i}}

\* The three places rows are in flight: the table, requests, handlers.
Requested(i) == {req[a].row : a \in {b \in Actors : req[b].item = i}}
Handled(i) ==
  {worker[w].row : w \in {v \in Workers : worker[v].item = i}}
    \cup UNION {ListedFor(i, worker[w].todo) : w \in Workers}

LEMMA RowsParts ==
  ASSUME NEW i
  PROVE /\ RowsOf(i) = {item[i]} \cup Requested(i) \cup Handled(i)
        /\ RowsOf(i)' = {item'[i]} \cup Requested(i)' \cup Handled(i)'
BY DEF RowsOf, Requested, Handled, ListedFor

LEMMA RequestedStays ==
  ASSUME NEW i, UNCHANGED req PROVE Requested(i)' = Requested(i)
BY DEF Requested

LEMMA RequestedPut ==
  ASSUME TypeInv, NEW i \in Items, NEW a \in Actors, NEW r, req' = [req EXCEPT ![a] = r]
  PROVE Requested(i)' \subseteq Requested(i) \cup For(i, r.item, r.row)
<1> SUFFICES ASSUME NEW b \in Actors, req'[b].item = i
             PROVE req'[b].row \in Requested(i) \cup For(i, r.item, r.row)
  BY DEF Requested
<1>1. CASE b = a
  BY <1>1 DEF TypeInv, RequestsTyped, For
<1>2. CASE b # a
  <2>1. req'[b] = req[b]
    BY <1>2 DEF TypeInv, RequestsTyped
  <2> QED BY <2>1 DEF Requested
<1> QED BY <1>1, <1>2

LEMMA RequestedEnds ==
  ASSUME TypeInv, NEW i \in Items, NEW a \in Actors, Done(a)
  PROVE Requested(i)' \subseteq Requested(i)
<1>1. NoReq.item # i
  BY ContentAssumption DEF NoReq
<1> QED BY <1>1, RequestedPut DEF Done, For

LEMMA HandledStays ==
  ASSUME NEW i, UNCHANGED worker PROVE Handled(i)' = Handled(i)
BY DEF Handled

LEMMA HandledPut ==
  ASSUME TypeInv, NEW i \in Items, NEW w \in Workers, NEW h, worker' = [worker EXCEPT ![w] = h]
  PROVE Handled(i)' \subseteq Handled(i) \cup For(i, h.item, h.row) \cup ListedFor(i, h.todo)
<1>1. \A v \in Workers : worker'[v] = IF v = w THEN h ELSE worker[v]
  BY DEF TypeInv, HandlersTyped
<1>2. ASSUME NEW v \in Workers, worker'[v].item = i
      PROVE worker'[v].row \in Handled(i) \cup For(i, h.item, h.row)
  BY <1>1, <1>2 DEF Handled, For
<1>3. ASSUME NEW v \in Workers
      PROVE ListedFor(i, worker'[v].todo) \subseteq Handled(i) \cup ListedFor(i, h.todo)
  BY <1>1 DEF Handled
<1> QED BY <1>2, <1>3 DEF Handled

-----------------------------------------------------------------------------
LEMMA ItemPut ==
  ASSUME TypeInv, NEW i \in Items, NEW j, NEW new, item' = [item EXCEPT ![j] = new]
  PROVE item'[i] \in {item[i]} \cup For(i, j, new)
BY DEF TypeInv, RowsTyped, For

\* Requests that read a row, go on with it or end.
LEMMA LoadFlow ==
  ASSUME TypeInv, NEW i \in Items, NEW a \in Actors, NEW op, NEW j, NEW to, NEW who,
         Load(a, op, j, to, who)
  PROVE RowsOf(i)' \subseteq RowsOf(i)
<1> DEFINE r == [NoReq EXCEPT !.op = op, !.step = FirstStep(op), !.item = j,
                              !.row = item[j], !.to = to, !.who = who]
<1>1. r.item = j /\ r.row = item[j]
  BY DEF NoReq
<1>2. req' = [req EXCEPT ![a] = r] /\ UNCHANGED <<item, worker>>
  BY DEF Load, rows
<1>3. Requested(i)' \subseteq Requested(i) \cup {item[i]}
  <2> HIDE DEF r
  <2> QED BY <1>1, <1>2, RequestedPut DEF For
<1> QED BY <1>2, <1>3, HandledStays, RowsParts

LEMMA EndFlow ==
  ASSUME TypeInv, NEW i \in Items, NEW a \in Actors, Done(a), UNCHANGED <<item, worker>>
  PROVE RowsOf(i)' \subseteq RowsOf(i)
BY RequestedEnds, HandledStays, RowsParts

LEMMA SameRowFlow ==
  ASSUME TypeInv, NEW i \in Items, NEW a \in Actors, NEW r,
         r.item = req[a].item, r.row = req[a].row, req' = [req EXCEPT ![a] = r],
         UNCHANGED <<item, worker>>
  PROVE RowsOf(i)' \subseteq RowsOf(i)
<1>1. For(i, r.item, r.row) \subseteq Requested(i)
  BY DEF Requested, For
<1>2. Requested(i)' \subseteq Requested(i)
  BY <1>1, RequestedPut
<1> QED BY <1>2, HandledStays, RowsParts

LEMMA CallsFlow ==
  ASSUME TypeInv, NEW i \in Items, NEW a \in Actors,
         \/ \E p \in Posts, u \in Users : SavePost(a, p, u)
         \/ ApprovePost(a) \/ SchedulePost(a) \/ SyncRead(a)
  PROVE RowsOf(i)' \subseteq RowsOf(i)
<1>1. req[a].op # "none"
  BY DEF SavePost, ApprovePost, SchedulePost, CallPost, SyncRead, Doing
<1>2. req[a] \in InFlight /\ req \in [Actors -> InFlight \cup {NoReq}]
  BY <1>1, InHand DEF TypeInv, RequestsTyped
<1>3. UNCHANGED <<item, worker>>
  BY DEF SavePost, ApprovePost, SchedulePost, CallPost, SyncRead, rows
<1>4. ASSUME NEW p \in Posts, NEW u \in Users, SavePost(a, p, u)
      PROVE RowsOf(i)' \subseteq RowsOf(i)
  <2> DEFINE r == [req[a] EXCEPT !.post = p,
                                 !.step = IF NeedsLink(req[a], p) THEN "link" ELSE "approve"]
  <2>1. r.item = req[a].item /\ r.row = req[a].row
    BY <1>2 DEF InFlight
  <2>2. req' = [req EXCEPT ![a] = r]
    BY <1>2, <1>4 DEF SavePost
  <2> HIDE DEF r
  <2> QED BY <1>3, <2>1, <2>2, SameRowFlow
<1>5. ASSUME NEW step, NEW to, NEW next, CallPost(a, step, to, next)
      PROVE RowsOf(i)' \subseteq RowsOf(i)
  <2> DEFINE r == [req[a] EXCEPT !.step = next]
  <2>1. r.item = req[a].item /\ r.row = req[a].row
    BY <1>2 DEF InFlight
  <2>2. req' = [req EXCEPT ![a] = r]
    BY <1>2, <1>5 DEF CallPost
  <2> HIDE DEF r
  <2> QED BY <1>3, <2>1, <2>2, SameRowFlow
<1>6. ASSUME SyncRead(a)
      PROVE RowsOf(i)' \subseteq RowsOf(i)
  <2> DEFINE r == [req[a] EXCEPT !.step = "write", !.seen = post[req[a].row.post]]
  <2>1. r.item = req[a].item /\ r.row = req[a].row
    BY <1>2 DEF InFlight
  <2>2. req' = [req EXCEPT ![a] = r] \/ Done(a)
    BY <1>2, <1>6 DEF SyncRead, Done
  <2> HIDE DEF r
  <2> QED BY <1>3, <2>1, <2>2, SameRowFlow, EndFlow
<1> QED BY <1>4, <1>5, <1>6 DEF ApprovePost, SchedulePost

\* Requests that write one.
LEMMA PutRowFlow ==
  ASSUME TypeInv, NEW i \in Items, NEW a \in Actors, NEW new, NEW kinds, PutRow(a, new, kinds)
  PROVE RowsOf(i)' \subseteq RowsOf(i) \cup For(i, req[a].item, new)
<1>1. item'[i] \in {item[i]} \cup For(i, req[a].item, new)
  BY ItemPut DEF PutRow
<1> QED BY <1>1, RequestedEnds, HandledStays, RowsParts DEF PutRow

LEMMA LinkFlow ==
  ASSUME TypeInv, NEW i \in Items, NEW a \in Actors, LinkPost(a)
  PROVE RowsOf(i)' \subseteq RowsOf(i) \cup For(i, req[a].item, Linked(req[a]))
<1> DEFINE r == [req[a] EXCEPT !.row = Linked(req[a]), !.step = "approve"]
<1>1. req[a] \in InFlight /\ req \in [Actors -> InFlight \cup {NoReq}]
  BY InHand DEF TypeInv, RequestsTyped, LinkPost, Doing
<1>2. r.item = req[a].item /\ r.row = Linked(req[a])
  BY <1>1 DEF InFlight
<1>3. req' = [req EXCEPT ![a] = r]
  BY <1>1 DEF LinkPost
<1>4. Requested(i)' \subseteq Requested(i) \cup For(i, req[a].item, Linked(req[a]))
  <2> HIDE DEF r
  <2> QED BY <1>2, <1>3, RequestedPut
<1>5. item'[i] \in {item[i]} \cup For(i, req[a].item, Linked(req[a]))
  BY ItemPut DEF LinkPost
<1> QED BY <1>4, <1>5, HandledStays, RowsParts DEF LinkPost

LEMMA SyncWriteFlow ==
  ASSUME TypeInv, NEW i \in Items, NEW a \in Actors, SyncWrite(a)
  PROVE RowsOf(i)' \subseteq RowsOf(i) \cup For(i, req[a].item, Folded(req[a].row, req[a].seen))
<1>1. item'[i] \in {item[i]} \cup For(i, req[a].item, Folded(req[a].row, req[a].seen))
  BY ItemPut DEF SyncWrite, Applies
<1> QED BY <1>1, RequestedEnds, HandledStays, RowsParts DEF SyncWrite

\* The consumer.
LEMMA HandlerFlow ==
  ASSUME TypeInv, NEW i \in Items, NEW w \in Workers, NEW h,
         worker' = [worker EXCEPT ![w] = h], UNCHANGED <<item, req>>,
         For(i, h.item, h.row) \subseteq RowsOf(i), ListedFor(i, h.todo) \subseteq RowsOf(i)
  PROVE RowsOf(i)' \subseteq RowsOf(i)
BY HandledPut, RequestedStays, RowsParts

LEMMA AsleepFlow ==
  ASSUME NEW i \in Items PROVE For(i, Asleep.item, Asleep.row) = {} /\ ListedFor(i, Asleep.todo) = {}
BY ContentAssumption DEF For, ListedFor, Asleep

LEMMA AtHand ==
  ASSUME NEW i \in Items, NEW w \in Workers
  PROVE /\ For(i, worker[w].item, worker[w].row) \subseteq Handled(i)
        /\ ListedFor(i, worker[w].todo) \subseteq Handled(i)
BY DEF For, Handled

LEMMA FinishFlow ==
  ASSUME TypeInv, NEW i \in Items, NEW w \in Workers, Finish(w)
  PROVE Handled(i)' \subseteq Handled(i)
<1>1. worker' = [worker EXCEPT ![w] = Rest(w)]
  BY DEF Finish
<1>2. For(i, Rest(w).item, Rest(w).row) = {}
  BY ContentAssumption DEF Rest, Asleep, For
<1>3. ListedFor(i, Rest(w).todo) \subseteq Handled(i)
  <2>1. Rest(w).todo = {} \/ Rest(w).todo = worker[w].todo
    BY DEF Rest, Asleep
  <2> QED BY <2>1, AtHand DEF ListedFor
<1> QED BY <1>1, <1>2, <1>3, HandledPut

LEMMA ReceiveFlow ==
  ASSUME TypeInv, NEW i \in Items, NEW w \in Workers, NEW k, Receive(w, k)
  PROVE RowsOf(i)' \subseteq RowsOf(i)
<1>1. UNCHANGED <<item, req>>
  BY DEF Receive, rows
<1>2. CASE UNCHANGED worker
  BY <1>1, <1>2, HandledStays, RequestedStays, RowsParts
<1>3. ASSUME NEW j, worker' = [worker EXCEPT ![w] =
                 [Asleep EXCEPT !.pc = "ask", !.msg = k, !.item = j, !.row = item[j]]]
      PROVE RowsOf(i)' \subseteq RowsOf(i)
  <2> DEFINE h == [Asleep EXCEPT !.pc = "ask", !.msg = k, !.item = j, !.row = item[j]]
  <2>1. h.item = j /\ h.row = item[j] /\ h.todo = {}
    BY DEF Asleep
  <2>2. worker' = [worker EXCEPT ![w] = h]
    BY <1>3
  <2>3. For(i, h.item, h.row) \subseteq RowsOf(i) /\ ListedFor(i, h.todo) \subseteq RowsOf(i)
    <3> HIDE DEF h
    <3> QED BY <2>1, RowsParts DEF For, ListedFor
  <2> HIDE DEF h
  <2> QED BY <1>1, <2>2, <2>3, HandlerFlow
<1> QED BY <1>2, <1>3 DEF Receive

LEMMA StartRunFlow ==
  ASSUME TypeInv, NEW i \in Items, NEW w \in Workers, StartRun(w)
  PROVE RowsOf(i)' \subseteq RowsOf(i)
<1>1. PICK b \in DueLists \ {{}} :
        worker' = [worker EXCEPT ![w] = [Asleep EXCEPT !.pc = "next",
                     !.todo = {[item |-> j, row |-> item[j]] : j \in b}]]
  BY DEF StartRun
<1> DEFINE t == {[item |-> j, row |-> item[j]] : j \in b}
           h == [Asleep EXCEPT !.pc = "next", !.todo = t]
<1>2. UNCHANGED <<item, req>> /\ worker' = [worker EXCEPT ![w] = h]
  BY <1>1 DEF StartRun, rows
<1>3. h.item = NoItem /\ h.todo = t
  BY DEF Asleep
<1>4. ListedFor(i, t) \subseteq {item[i]}
  BY DEF ListedFor
<1>5. For(i, h.item, h.row) \subseteq RowsOf(i) /\ ListedFor(i, h.todo) \subseteq RowsOf(i)
  <2> HIDE DEF h, t
  <2> QED BY <1>3, <1>4, RowsParts, ContentAssumption DEF For
<1> HIDE DEF h, t
<1> QED BY <1>2, <1>5, HandlerFlow

LEMMA NextItemFlow ==
  ASSUME TypeInv, NEW i \in Items, NEW w \in Workers, NextItem(w)
  PROVE RowsOf(i)' \subseteq RowsOf(i)
<1> DEFINE rest(x) == [worker[w] EXCEPT !.todo = worker[w].todo \ {x}]
           ask(x)  == [rest(x) EXCEPT !.pc = "ask", !.item = x.item, !.row = x.row]
<1>1. PICK x \in worker[w].todo :
        \E h \in {rest(x), ask(x), Asleep} : worker' = [worker EXCEPT ![w] = h]
  BY DEF NextItem
<1>2. PICK h \in {rest(x), ask(x), Asleep} : worker' = [worker EXCEPT ![w] = h]
  BY <1>1
<1>3. UNCHANGED <<item, req>> /\ worker[w] \in Handlers
  BY AtWork DEF NextItem, WorkerAt, rows, TypeInv
<1>4. For(i, rest(x).item, rest(x).row) \subseteq RowsOf(i)
      /\ ListedFor(i, rest(x).todo) \subseteq RowsOf(i)
  <2>1. /\ rest(x).item = worker[w].item /\ rest(x).row = worker[w].row
        /\ rest(x).todo \subseteq worker[w].todo
    BY <1>3 DEF Handlers
  <2>2. ListedFor(i, rest(x).todo) \subseteq ListedFor(i, worker[w].todo)
    <3> HIDE DEF rest
    <3> QED BY <2>1 DEF ListedFor
  <2> HIDE DEF rest
  <2> QED BY <2>1, <2>2, AtHand, RowsParts
<1>5. For(i, ask(x).item, ask(x).row) \subseteq RowsOf(i)
      /\ ListedFor(i, ask(x).todo) \subseteq RowsOf(i)
  <2>1. /\ ask(x).item = x.item /\ ask(x).row = x.row
        /\ ask(x).todo \subseteq worker[w].todo
    BY <1>3 DEF Handlers
  <2>2. ListedFor(i, ask(x).todo) \subseteq ListedFor(i, worker[w].todo)
    <3> HIDE DEF ask, rest
    <3> QED BY <2>1 DEF ListedFor
  <2>3. For(i, x.item, x.row) \subseteq ListedFor(i, worker[w].todo)
    BY DEF For, ListedFor
  <2> HIDE DEF ask, rest
  <2> QED BY <2>1, <2>2, <2>3, AtHand, RowsParts
<1> HIDE DEF rest, ask
<1> QED BY <1>2, <1>3, <1>4, <1>5, AsleepFlow, HandlerFlow

LEMMA ToldFlow ==
  ASSUME TypeInv, NEW i \in Items, NEW w \in Workers, NEW found \in BOOLEAN,
         worker[w].pc = "ask", Told(w, found)
  PROVE RowsOf(i)' \subseteq RowsOf(i)
<1> DEFINE seen == IF found THEN post[worker[w].row.post] ELSE Message(w).status
           h == [worker[w] EXCEPT !.pc = "apply", !.seen = seen]
<1>1. UNCHANGED <<item, req>> /\ worker[w] \in Handlers
  BY AtWork DEF Told, rows, TypeInv
<1>2. CASE Finish(w)
  BY <1>1, <1>2, FinishFlow, RequestedStays, RowsParts
<1>3. CASE worker' = [worker EXCEPT ![w].pc = "apply", ![w].seen = seen]
  <2>1. worker' = [worker EXCEPT ![w] = h]
    BY <1>3 DEF TypeInv, HandlersTyped
  <2>2. h.item = worker[w].item /\ h.row = worker[w].row /\ h.todo = worker[w].todo
    <3> HIDE DEF seen
    <3> QED BY <1>1 DEF Handlers
  <2> HIDE DEF h
  <2> QED BY <1>1, <2>1, <2>2, AtHand, RowsParts, HandlerFlow
<1> QED BY <1>2, <1>3 DEF Told

LEMMA ApplyFlow ==
  ASSUME TypeInv, NEW i \in Items, NEW w \in Workers, ApplyPost(w)
  PROVE RowsOf(i)' \subseteq
          RowsOf(i) \cup For(i, worker[w].item, Folded(worker[w].row, worker[w].seen))
<1>1. item'[i] \in {item[i]} \cup For(i, worker[w].item, Folded(worker[w].row, worker[w].seen))
  BY ItemPut DEF ApplyPost, Applies
<1> QED BY <1>1, FinishFlow, RequestedStays, RowsParts DEF ApplyPost

LEMMA FailureFlow ==
  ASSUME TypeInv, NEW i \in Items, NEW w \in Workers, WorkerFails(w) \/ AckLate(w)
  PROVE RowsOf(i)' \subseteq RowsOf(i)
<1>1. UNCHANGED <<item, req>>
  BY DEF WorkerFails, AckLate, rows
<1>2. CASE WorkerFails(w)
  BY <1>1, <1>2, AsleepFlow, HandlerFlow DEF WorkerFails
<1>3. CASE AckLate(w)
  BY <1>1, <1>3, HandledStays, RequestedStays, RowsParts DEF AckLate
<1> QED BY <1>2, <1>3

LEMMA OthersFlow ==
  ASSUME TypeInv, NEW i \in Items, UNCHANGED <<item, req, worker>>
  PROVE RowsOf(i)' \subseteq RowsOf(i)
BY HandledStays, RequestedStays, RowsParts

LEMMA ForgetFlow ==
  ASSUME TypeInv, NEW i \in Items, NEW u, ForgetUser(u)
  PROVE RowsOf(i)' \subseteq RowsOf(i) \cup {[item[i] EXCEPT !.copywriter = NoUser]}
<1>1. item'[i] \in {item[i], [item[i] EXCEPT !.copywriter = NoUser]}
  BY DEF ForgetUser
<1> QED BY <1>1, HandledStays, RequestedStays, RowsParts DEF ForgetUser

-----------------------------------------------------------------------------
(***************************************************************************)
(* The review of copy (CopyInv).                                           *)
(***************************************************************************)
\* A row of i that is past the review carries an approved version.
Reviewed(i, row) == row.status \in Settled => row.version \in approved[i]

\* What a review approved and what went wrong is not forgotten.
Grows ==
  \A i \in Items : approved[i] \subseteq approved'[i] /\ incidents[i] \subseteq incidents'[i]

LEMMA NotedGrows ==
  ASSUME TypeInv, NEW j, NEW kinds, incidents' = Noted(j, kinds), UNCHANGED approved
  PROVE Grows
BY DEF Grows, Noted, TypeInv, RestTyped

LEMMA CopyRows ==
  ASSUME CopyInv, NEW i \in Items, "retouched" \notin incidents[i], NEW r \in RowsOf(i)
  PROVE Reviewed(i, r)
BY DEF CopyInv, Reviewed

\* Rows that only move about, and one row that is written, new.
LEMMA CopyStands ==
  ASSUME CopyInv, Grows, UNCHANGED <<origin, copy>>,
         \A i \in Items : RowsOf(i)' \subseteq RowsOf(i)
  PROVE CopyInv'
<1> SUFFICES ASSUME NEW i \in Items, "retouched" \notin incidents'[i]
             PROVE /\ \A r \in RowsOf(i)' : r.status \in Settled => r.version \in approved'[i]
                   /\ \A p \in Posts : origin'[p] = i => copy'[p] \in approved'[i]
  BY DEF CopyInv
<1>1. "retouched" \notin incidents[i] /\ approved[i] \subseteq approved'[i]
  BY DEF Grows
<1> QED BY <1>1 DEF CopyInv

LEMMA CopyWritten ==
  ASSUME CopyInv, Grows, UNCHANGED <<origin, copy>>, NEW j, NEW new,
         \A i \in Items : RowsOf(i)' \subseteq RowsOf(i) \cup For(i, j, new),
         "retouched" \notin incidents'[j] /\ new.status \in Settled => new.version \in approved'[j]
  PROVE CopyInv'
<1> SUFFICES ASSUME NEW i \in Items, "retouched" \notin incidents'[i]
             PROVE /\ \A r \in RowsOf(i)' : r.status \in Settled => r.version \in approved'[i]
                   /\ \A p \in Posts : origin'[p] = i => copy'[p] \in approved'[i]
  BY DEF CopyInv
<1>1. "retouched" \notin incidents[i] /\ approved[i] \subseteq approved'[i]
  BY DEF Grows
<1>2. ASSUME NEW r \in RowsOf(i)' PROVE r.status \in Settled => r.version \in approved'[i]
  <2>1. CASE r \in RowsOf(i)
    BY <1>1, <2>1 DEF CopyInv
  <2>2. CASE r = new /\ i = j
    BY <2>2
  <2> QED BY <2>1, <2>2 DEF For
<1> QED BY <1>1, <1>2 DEF CopyInv

LEMMA CopyInit == Init => CopyInv
<1> SUFFICES ASSUME Init PROVE CopyInv
  OBVIOUS
<1>1. ASSUME NEW i \in Items, NEW r \in RowsOf(i) PROVE r = item[i]
  BY ContentAssumption DEF Init, RowsOf, NoReq, Asleep
<1>2. \A i \in Items : item[i].status = Start /\ item[i].version = FirstVersion
  BY DEF Init
<1>3. Start \in Settled => FirstVersion = 1 /\ \A i \in Items : approved[i] = {1}
  BY ContentAssumption DEF Settled, FirstVersion, Init
<1>4. \A p \in Posts : origin[p] \notin Items
  BY ContentAssumption DEF Init
<1> QED BY <1>1, <1>2, <1>3, <1>4 DEF CopyInv

\* The row a request carries is one of its item's.
LEMMA Carried ==
  ASSUME NEW a \in Actors PROVE req[a].row \in RowsOf(req[a].item)
BY DEF RowsOf

LEMMA HandledCarried ==
  ASSUME NEW w \in Workers PROVE worker[w].row \in RowsOf(worker[w].item)
BY DEF RowsOf

LEMMA FoldSettled ==
  ASSUME NEW s, NEW seen, Fold(s, seen) \in Settled PROVE s \in Settled
BY DEF Fold, Settled

LEMMA CopyWrite ==
  ASSUME TypeInv, CopyInv, NEW a \in Actors, Write(a)
  PROVE CopyInv'
<1>1. req[a].op # "none"
  BY DEF Write, Update, StampDesign, Move, Revise, ReviseFails, Delete, Writing
<1>2. /\ req[a] \in InFlight /\ Admitted(a, req[a]) /\ req[a].row \in ItemRows
      /\ req[a].item \in Items
  BY <1>1, InHand DEF InFlight, TypeInv
<1> DEFINE i == req[a].item
           row == req[a].row
<1>3. "retouched" \notin incidents[i] => Reviewed(i, row)
  BY <1>2, Carried, CopyRows
<1>4. ASSUME NEW new, NEW kinds, PutRow(a, new, kinds), Grows,
             "retouched" \notin incidents'[i] /\ new.status \in Settled
               => new.version \in approved'[i]
      PROVE CopyInv'
  <2>1. \A j \in Items : RowsOf(j)' \subseteq RowsOf(j) \cup For(j, i, new)
    BY <1>4, PutRowFlow
  <2>2. UNCHANGED <<origin, copy>>
    BY <1>4 DEF PutRow, posts
  <2> QED BY <1>4, <2>1, <2>2, CopyWritten
<1>5. ASSUME NEW new, NEW kinds, PutRow(a, new, kinds), UNCHANGED approved
      PROVE Grows
  BY <1>5, NotedGrows DEF PutRow
<1>6. Grows => ("retouched" \notin incidents'[i] => "retouched" \notin incidents[i])
  BY <1>2 DEF Grows
<1>7. CASE Update(a)
  <2> DEFINE new == [row EXCEPT !.copywriter = req[a].who]
  <2>1. PutRow(a, new, {}) /\ UNCHANGED approved
    BY <1>7 DEF Update
  <2>2. new.status = row.status /\ new.version = row.version
    BY <1>2 DEF ItemRows
  <2> HIDE DEF new, i, row
  <2>3. Grows
    BY <2>1, <1>5
  <2> QED BY <1>3, <1>4, <1>6, <2>1, <2>2, <2>3 DEF Reviewed
<1>8. CASE StampDesign(a)
  <2>1. PutRow(a, row, {}) /\ UNCHANGED approved
    BY <1>8 DEF StampDesign
  <2> HIDE DEF i, row
  <2>2. Grows
    BY <2>1, <1>5
  <2> QED BY <1>3, <1>4, <1>6, <2>1, <2>2 DEF Reviewed
<1>9. CASE Move(a)
  <2> DEFINE new == [row EXCEPT !.status = req[a].to]
  <2>1. PutRow(a, new, {})
    BY <1>9 DEF Move
  <2>2. new.status = req[a].to /\ new.version = row.version
    BY <1>2 DEF ItemRows
  <2>3. approved' = IF req[a].to = "APPROVED" /\ row.status = "REVIEW"
                    THEN [approved EXCEPT ![i] = @ \cup {row.version}] ELSE approved
    BY <1>9 DEF Move
  <2>4. req[a].to \in ItemTransitions[row.status] /\ row.status \in ItemStatuses
    BY <1>2, <1>9 DEF Move, Writing, Admitted, ItemRows
  <2>5. req[a].to \in Settled => req[a].to = "APPROVED" /\ row.status \in {"REVIEW", "FAILED"}
    BY <2>4 DEF ItemTransitions, ItemStatuses, Settled
  <2>6. Grows
    <3>1. approved \in [Items -> SUBSET Versions] /\ incidents \in [Items -> SUBSET Incidents]
      BY DEF TypeInv, RestTyped
    <3>2. \A j \in Items : incidents[j] \subseteq incidents'[j]
      BY <2>1, <3>1 DEF PutRow, Noted
    <3>3. \A j \in Items : approved[j] \subseteq approved'[j]
      BY <2>3, <3>1
    <3> QED BY <3>2, <3>3 DEF Grows
  <2>7. ASSUME "retouched" \notin incidents'[i], req[a].to \in Settled
        PROVE row.version \in approved'[i]
    <3>1. CASE row.status = "REVIEW"
      BY <1>2, <2>3, <2>5, <2>7, <3>1 DEF TypeInv, RestTyped
    <3>2. CASE row.status = "FAILED"
      BY <1>2, <1>3, <1>6, <2>6, <2>7, <3>2 DEF Reviewed, Settled, Grows
    <3> QED BY <2>5, <2>7, <3>1, <3>2
  <2> HIDE DEF new, i, row
  <2> QED BY <1>4, <2>1, <2>2, <2>6, <2>7
<1>10. CASE Revise(a)
  <2> DEFINE s == StatusAfterRevise(row.status)
             new == [row EXCEPT !.version = row.version + 1, !.status = s]
             kinds == If("retouched", row.status = "FAILED")
  <2>1. PutRow(a, new, kinds) /\ UNCHANGED approved
    BY <1>10 DEF Revise
  <2>2. new.status = s
    BY <1>2 DEF ItemRows
  <2>3. ~IsLocked(row.status) /\ row.status \in ItemStatuses
    BY <1>2, <1>10 DEF Revise, Writing, Admitted, ItemRows
  <2>4. s \in Settled => row.status = "FAILED"
    BY <2>3 DEF StatusAfterRevise, IsLocked, Settled, ItemStatuses
  <2>5. row.status = "FAILED" => "retouched" \in incidents'[i]
    BY <1>2, <2>1 DEF PutRow, Noted, If, TypeInv, RestTyped
  <2> HIDE DEF new, kinds, i, row, s
  <2>6. Grows
    BY <2>1, <1>5
  <2> QED BY <1>4, <2>1, <2>2, <2>4, <2>5, <2>6
<1>11. CASE ReviseFails(a) \/ Delete(a)
  <2>1. Done(a) /\ UNCHANGED <<item, worker, origin, copy, approved>>
    BY <1>11 DEF ReviseFails, Delete, rows, posts, history
  <2>2. \/ UNCHANGED incidents
        \/ incidents' = Noted(i, If("overwritten", Overwrites(i, row)))
    BY <1>11 DEF ReviseFails, Delete, history
  <2>3. Grows
    BY <2>1, <2>2, NotedGrows DEF Grows
  <2> QED BY <2>1, <2>3, EndFlow, CopyStands
<1> QED BY <1>7, <1>8, <1>9, <1>10, <1>11 DEF Write

LEMMA CopySchedule ==
  ASSUME TypeInv, CopyInv, NEW a \in Actors, ScheduleStep(a)
  PROVE CopyInv'
<1>1. req[a].op = "schedule"
  BY DEF ScheduleStep, SavePost, LinkPost, ApprovePost, SchedulePost, CallPost,
         CommitSchedule, Doing
<1>2. /\ req[a] \in InFlight /\ Admitted(a, req[a]) /\ req[a].row \in ItemRows
      /\ req[a].item \in Items /\ req[a].row.status \in {"APPROVED", "FAILED"}
  BY <1>1, InHand DEF InFlight, TypeInv, Admitted, CanSchedule
<1> DEFINE i == req[a].item
           row == req[a].row
<1>3. "retouched" \notin incidents[i] => row.version \in approved[i]
  BY <1>2, Carried, CopyRows DEF Reviewed, Settled
<1>4. ASSUME NEW p \in Posts, NEW u \in Users, SavePost(a, p, u)
      PROVE CopyInv'
  <2>1. /\ origin' = [origin EXCEPT ![p] = i] /\ copy' = [copy EXCEPT ![p] = row.version]
        /\ UNCHANGED <<approved, incidents>>
    BY <1>4 DEF SavePost, history
  <2>2. \A j \in Items : RowsOf(j)' \subseteq RowsOf(j)
    BY <1>4, CallsFlow
  <2> SUFFICES ASSUME NEW j \in Items, "retouched" \notin incidents[j]
               PROVE /\ \A r \in RowsOf(j)' : r.status \in Settled => r.version \in approved[j]
                     /\ \A q \in Posts : origin'[q] = j => copy'[q] \in approved[j]
    BY <2>1 DEF CopyInv
  <2>3. ASSUME NEW q \in Posts, origin'[q] = j PROVE copy'[q] \in approved[j]
    <3>1. origin \in [Posts -> Items \cup {NoItem}] /\ copy \in [Posts -> Versions]
      BY DEF TypeInv, PostsTyped
    <3>2. CASE q = p
      BY <1>3, <2>1, <2>3, <3>1, <3>2
    <3>3. CASE q # p
      <4>1. origin[q] = j /\ copy'[q] = copy[q]
        BY <2>1, <2>3, <3>1, <3>3
      <4> QED BY <4>1 DEF CopyInv
    <3> QED BY <3>2, <3>3
  <2> QED BY <2>2, <2>3 DEF CopyInv
<1>5. CASE LinkPost(a)
  <2> DEFINE new == Linked(req[a])
  <2>1. new.status = row.status /\ new.version = row.version
    BY <1>2 DEF Linked, ItemRows
  <2>2. UNCHANGED <<origin, copy, approved>>
        /\ incidents' = Noted(i, If("overwritten", Overwrites(i, row)))
    BY <1>5 DEF LinkPost, posts
  <2>3. Grows
    BY <2>2, NotedGrows
  <2>4. \A j \in Items : RowsOf(j)' \subseteq RowsOf(j) \cup For(j, i, new)
    BY <1>5, LinkFlow
  <2>5. "retouched" \notin incidents'[i] => row.version \in approved'[i]
    BY <1>2, <1>3, <2>3 DEF Grows
  <2> HIDE DEF new, i, row
  <2> QED BY <2>1, <2>2, <2>3, <2>4, <2>5, CopyWritten
<1>6. CASE ApprovePost(a) \/ SchedulePost(a)
  <2>1. UNCHANGED <<origin, copy, approved, incidents>>
    BY <1>6 DEF ApprovePost, SchedulePost, CallPost, history
  <2>2. Grows
    BY <2>1 DEF Grows
  <2> QED BY <1>6, <2>1, <2>2, CallsFlow, CopyStands
<1>7. CASE CommitSchedule(a)
  <2> DEFINE new == [row EXCEPT !.status = "SCHEDULED", !.by = a]
  <2>1. PutRow(a, new, {}) /\ UNCHANGED approved
    BY <1>7 DEF CommitSchedule
  <2>2. new.version = row.version
    BY <1>2 DEF ItemRows
  <2>3. UNCHANGED <<origin, copy>>
    BY <2>1 DEF PutRow, posts
  <2> HIDE DEF new, i, row
  <2>4. Grows
    BY <2>1, NotedGrows DEF PutRow, i
  <2>5. \A j \in Items : RowsOf(j)' \subseteq RowsOf(j) \cup For(j, i, new)
    BY <2>1, PutRowFlow DEF i
  <2>6. "retouched" \notin incidents'[i] => new.version \in approved'[i]
    BY <1>2, <1>3, <2>2, <2>4 DEF Grows, i
  <2> QED BY <2>3, <2>4, <2>5, <2>6, CopyWritten
<1> QED BY <1>4, <1>5, <1>6, <1>7 DEF ScheduleStep

\* A write of apply: what it makes of a row is past the review if the row was.
LEMMA CopyFold ==
  ASSUME TypeInv, CopyInv, NEW i \in Items, NEW row \in ItemRows, NEW seen,
         Applies(i, row, seen), row \in RowsOf(i),
         \A j \in Items : RowsOf(j)' \subseteq RowsOf(j) \cup For(j, i, Folded(row, seen))
  PROVE CopyInv'
<1>1. /\ Folded(row, seen).status = Fold(row.status, seen)
      /\ Folded(row, seen).version = row.version
  BY FoldedType
<1>2. UNCHANGED <<origin, copy, approved>>
      /\ incidents' = Noted(i, If("overwritten", Overwrites(i, row) \/ post[row.post] # seen))
  BY DEF Applies, posts
<1>3. Grows
  BY <1>2, NotedGrows
<1>4. "retouched" \notin incidents'[i] => Reviewed(i, row)
  BY <1>3, CopyRows DEF Grows
<1>5. "retouched" \notin incidents'[i] /\ Folded(row, seen).status \in Settled
        => Folded(row, seen).version \in approved'[i]
  BY <1>1, <1>3, <1>4, FoldSettled DEF Reviewed, Grows
<1> QED BY <1>2, <1>3, <1>5, CopyWritten

LEMMA CopySync ==
  ASSUME TypeInv, CopyInv, NEW a \in Actors, SyncRead(a) \/ SyncWrite(a)
  PROVE CopyInv'
<1>1. CASE SyncRead(a)
  <2>1. UNCHANGED <<origin, copy, approved, incidents>>
    BY <1>1 DEF SyncRead, posts, history
  <2>2. Grows
    BY <2>1 DEF Grows
  <2> QED BY <1>1, <2>1, <2>2, CallsFlow, CopyStands
<1>2. CASE SyncWrite(a)
  <2>1. Applies(req[a].item, req[a].row, req[a].seen)
    BY <1>2 DEF SyncWrite
  <2>2. req[a] \in InFlight /\ req[a].row \in ItemRows /\ req[a].item \in Items
    BY <1>2, InHand DEF SyncWrite, Writing, TypeInv, InFlight, Admitted, ItemRows
  <2> QED BY <1>2, <2>1, <2>2, SyncWriteFlow, Carried, CopyFold
<1> QED BY <1>1, <1>2

\* Nothing the consumer does but its writes touches a row.
LEMMA CopyWorker ==
  ASSUME TypeInv, CopyInv, NEW w \in Workers,
         \/ \E k \in DOMAIN stream : Receive(w, k)
         \/ StartRun(w) \/ WorkerStep(w) \/ AskFails(w) \/ WorkerFails(w) \/ AckLate(w)
  PROVE CopyInv'
<1>1. CASE ApplyPost(w)
  <2>1. worker[w].pc = "apply" /\ Applies(worker[w].item, worker[w].row, worker[w].seen)
    BY <1>1 DEF ApplyPost, WorkerAt
  <2>2. worker[w].row \in ItemRows /\ worker[w].item \in Items
    BY <2>1, AtWork DEF TypeInv, Handles
  <2> QED BY <1>1, <2>1, <2>2, ApplyFlow, HandledCarried, CopyFold
<1>2. CASE ~ApplyPost(w)
  <2>1. UNCHANGED <<origin, copy, approved, incidents>>
    BY <1>2 DEF Receive, StartRun, WorkerStep, NextItem, AskPost, AskFails, Told, WorkerFails,
                AckLate, posts, history
  <2>2. Grows
    BY <2>1 DEF Grows
  <2>3. ASSUME NEW i \in Items, AskPost(w) \/ AskFails(w) PROVE RowsOf(i)' \subseteq RowsOf(i)
    <3>1. worker[w].pc = "ask"
      BY <2>3 DEF AskPost, AskFails, WorkerAt
    <3>2. CASE AskPost(w)
      <4>1. PICK t \in Tokens(worker[w].row.by) :
              Told(w, t = "good" /\ PostExists(worker[w].row.post))
        BY <3>2 DEF AskPost
      <4>2. PICK found \in BOOLEAN : Told(w, found)
        BY <4>1, Zenon
      <4> QED BY <3>1, <4>2, ToldFlow
    <3>3. CASE AskFails(w)
      <4>1. Told(w, FALSE)
        BY <3>3 DEF AskFails
      <4> QED BY <3>1, <4>1, ToldFlow
    <3> QED BY <2>3, <3>2, <3>3
  <2>4. \A i \in Items : RowsOf(i)' \subseteq RowsOf(i)
    BY <1>2, <2>3, ReceiveFlow, StartRunFlow, NextItemFlow, FailureFlow DEF WorkerStep
  <2> QED BY <2>1, <2>2, <2>4, CopyStands
<1> QED BY <1>1, <1>2

LEMMA CopyStep ==
  ASSUME TypeInv, CopyInv, [Next]_vars
  PROVE CopyInv'
<1>1. CASE UNCHANGED vars
  <2>1. UNCHANGED <<item, req, worker, origin, copy, approved, incidents>>
    BY <1>1 DEF vars
  <2> QED BY <2>1, OthersFlow, CopyStands DEF Grows
<1>2. ASSUME NEW a \in Actors, Request(a)
      PROVE CopyInv'
  <2>1. PICK op \in Ops, i \in Items, to \in ItemStatuses, who \in Users \cup {NoUser} :
          Load(a, op, i, to, who)
    BY <1>2, RequestLoads
  <2>2. UNCHANGED <<origin, copy, approved>>
        /\ incidents' = Noted(i, If("doubled", op = "schedule" /\ \E b \in Users : Scheduling(b, i)))
    BY <2>1 DEF Load, posts
  <2>3. Grows
    BY <2>2, NotedGrows
  <2>4. \A j \in Items : RowsOf(j)' \subseteq RowsOf(j)
    BY <2>1, LoadFlow
  <2> QED BY <2>2, <2>3, <2>4, CopyStands
<1>3. ASSUME NEW a \in Actors, ScheduleEnds(a)
      PROVE CopyInv'
  <2>1. Done(a) /\ UNCHANGED <<item, worker, origin, copy, approved>>
        /\ incidents' = Noted(req[a].item, If("strayed", Doing(a, "commit")))
    BY <1>3 DEF ScheduleEnds, rows, posts
  <2>2. Grows
    BY <2>1, NotedGrows
  <2> QED BY <2>1, <2>2, EndFlow, CopyStands
<1>4. ASSUME PublishingMoves
      PROVE CopyInv'
  <2>1. UNCHANGED <<item, req, worker, origin, copy, approved>>
    BY <1>4 DEF PublishingMoves, PublishOutcome, PublishByHand, ByHand, Unhurt, rows, history
  <2>2. \/ UNCHANGED incidents
        \/ \E p \in Posts : \E kinds : incidents' = Noted(origin[p], kinds)
    BY <1>4 DEF PublishingMoves, PublishOutcome, PublishByHand, ByHand, history
  <2>3. Grows
    BY <2>1, <2>2, NotedGrows DEF Grows
  <2> QED BY <2>1, <2>3, OthersFlow, CopyStands
<1>5. ASSUME NEW u \in Users, Leave(u)
      PROVE CopyInv'
  <2>1. UNCHANGED <<item, req, worker, origin, copy, approved, incidents>>
    BY <1>5 DEF Leave, rows, posts, history
  <2> QED BY <2>1, OthersFlow, CopyStands DEF Grows
<1>6. ASSUME NEW u \in Users, ForgetUser(u)
      PROVE CopyInv'
  <2>1. UNCHANGED <<origin, copy, approved, incidents>>
    BY <1>6 DEF ForgetUser, posts, history
  <2> SUFFICES ASSUME NEW i \in Items, "retouched" \notin incidents[i], NEW r \in RowsOf(i)'
               PROVE r.status \in Settled => r.version \in approved[i]
    BY <2>1 DEF CopyInv
  <2>2. item[i] \in RowsOf(i) /\ item[i] \in ItemRows
    BY DEF RowsOf, TypeInv, RowsTyped
  <2>3. PICK old \in RowsOf(i) : r.status = old.status /\ r.version = old.version
    <3> DEFINE new == [item[i] EXCEPT !.copywriter = NoUser]
    <3>1. new.status = item[i].status /\ new.version = item[i].version
      BY <2>2 DEF ItemRows
    <3> HIDE DEF new
    <3>2. r \in RowsOf(i) \/ r = new
      BY <1>6, ForgetFlow DEF new
    <3> QED BY <2>2, <3>1, <3>2
  <2> QED BY <2>3 DEF CopyInv
<1> QED BY <1>1, <1>2, <1>3, <1>4, <1>5, <1>6, CopyWrite, CopySchedule, CopySync, CopyWorker
        DEF Next, Respond

\* Whatever handlers write over each other, on whatever they have read, an item
\* that is past its review and every post made for it carry a version of the
\* caption that a review approved - until a caption is revised after a failed
\* publish, which the code lets pass without another review.
THEOREM CopyHolds == Spec => []CopyInv
<1>1. Init => TypeInv /\ CopyInv
  BY InitTyped, CopyInit
<1>2. TypeInv /\ CopyInv /\ [Next]_vars => (TypeInv /\ CopyInv)'
  BY StepTyped, CopyStep
<1> QED BY <1>1, <1>2, PTL DEF Spec

-----------------------------------------------------------------------------
(***************************************************************************)
(* What content says of publishing (TruthInv), in its parts.               *)
(***************************************************************************)
\* Each says of a row, a request, a handler what it is, given posts and letters.
WentOut(p, posted) == posted[p] \in {"PUBLISHED", "DELETED"}

RowTrue(r, posted) == r.status = "PUBLISHED" => r.post \in Posts /\ WentOut(r.post, posted)
RowsTrue == \A i \in Items : \A r \in RowsOf(i) : RowTrue(r, post)

RequestTrue(r, posted) == r.op = "sync" /\ r.seen = "PUBLISHED" => WentOut(r.row.post, posted)
RequestsTrue == \A a \in Actors : RequestTrue(req[a], post)

HandlerTrue(h, posted, letters) ==
  /\ h.pc = "apply" /\ h.seen = "PUBLISHED" => WentOut(h.row.post, posted)
  /\ h.pc = "ask" /\ h.msg # 0 => letters[h.msg].msg.post = h.row.post
HandlersTrue == \A w \in Workers : HandlerTrue(worker[w], post, stream)

LettersTrue ==
  \A k \in DOMAIN stream : stream[k].msg.status = "PUBLISHED" => WentOut(stream[k].msg.post, post)

TruthParts == RowsTrue /\ RequestsTrue /\ HandlersTrue /\ LettersTrue

LEMMA TruthIsParts == TruthInv <=> TruthParts
BY DEF TruthInv, TruthParts, RowsTrue, RowTrue, RequestsTrue, RequestTrue, HandlersTrue,
       HandlerTrue, LettersTrue, Out, WentOut

\* What is out stays out, and a message says what it said.
OutKept == \A p \in Posts : WentOut(p, post) => WentOut(p, post')
MessagesKept ==
  \A k \in DOMAIN stream : k \in DOMAIN stream' /\ stream'[k].msg = stream[k].msg

LEMMA PostPutKeeps ==
  ASSUME TypeInv, NEW p \in Posts, NEW s, post' = [post EXCEPT ![p] = s],
         WentOut(p, post) => s \in {"PUBLISHED", "DELETED"}
  PROVE OutKept
BY DEF OutKept, WentOut, TypeInv, PostsTyped

LEMMA OutStays ==
  ASSUME TypeInv, [Next]_vars
  PROVE OutKept
<1>1. CASE UNCHANGED post
  BY <1>1 DEF OutKept, WentOut
<1>2. ASSUME NEW p \in Posts, NEW s, NEW heard, PublishOutcome(p, s, heard)
      PROVE OutKept
  BY <1>2, PostPutKeeps DEF PublishOutcome, WentOut
<1>3. ASSUME NEW p \in Posts, NEW s, PublishByHand(p, s)
      PROVE OutKept
  BY <1>3, PostPutKeeps DEF PublishByHand, Publishing!Claimable, WentOut
<1>4. ASSUME NEW p \in Posts, NEW to, ByHand(p, to)
      PROVE OutKept
  <2>1. WentOut(p, post) => to \in {"PUBLISHED", "DELETED"}
    BY <1>4 DEF ByHand, PostMay, PostExists, Publishing!Statuses, Publishing!Transitions, WentOut
  <2> QED BY <1>4, <2>1, PostPutKeeps DEF ByHand
<1>5. ASSUME NEW a \in Actors, NEW p \in Posts, NEW u, SavePost(a, p, u)
      PROVE OutKept
  <2>1. ~WentOut(p, post)
    BY <1>5 DEF SavePost, MaySave, Publishing!CanEdit, Publishing!EditableStatuses, WentOut
  <2> QED BY <1>5, <2>1, PostPutKeeps DEF SavePost
<1>6. ASSUME NEW a \in Actors, NEW step \in {"approve", "queue"}, NEW to, NEW next,
             CallPost(a, step, to, next)
      PROVE OutKept
  <2>1. req[a].post \in Posts
    <3>1. req[a].op = "schedule" /\ req[a].step = step
      BY <1>6 DEF CallPost, Doing
    <3> QED BY <3>1, InHand DEF TypeInv, Admitted
  <2>2. ~WentOut(req[a].post, post)
    BY <1>6 DEF CallPost, MayCall, PostExists, Publishing!CanTransition, Publishing!Statuses,
                Publishing!Transitions, WentOut
  <2> QED BY <1>6, <2>1, <2>2, PostPutKeeps DEF CallPost
<1>7. ASSUME NEW a \in Actors, ScheduleStep(a)
      PROVE OutKept
  <2>1. CASE LinkPost(a) \/ CommitSchedule(a)
    BY <1>1, <2>1 DEF LinkPost, CommitSchedule, PutRow, posts
  <2> QED BY <1>5, <1>6, <1>7, <2>1 DEF ScheduleStep, ApprovePost, SchedulePost
<1>8. ASSUME NEW a \in Actors, Request(a) \/ Write(a) \/ SyncRead(a) \/ SyncWrite(a)
                               \/ ScheduleEnds(a)
      PROVE UNCHANGED post
  BY <1>8 DEF Request, Load, Write, Update, StampDesign, Move, Revise, ReviseFails, Delete,
              PutRow, SyncRead, SyncWrite, Applies, ScheduleEnds, posts
<1>9. ASSUME NEW w \in Workers,
             \/ \E k \in DOMAIN stream : Receive(w, k)
             \/ StartRun(w) \/ WorkerStep(w) \/ AskFails(w) \/ WorkerFails(w) \/ AckLate(w)
      PROVE UNCHANGED post
  BY <1>9 DEF Receive, StartRun, WorkerStep, NextItem, AskPost, AskFails, Told, ApplyPost,
              Applies, WorkerFails, AckLate, posts
<1>10. ASSUME NEW u \in Users, Leave(u) \/ ForgetUser(u)
       PROVE UNCHANGED post
  BY <1>10 DEF Leave, ForgetUser, posts
<1>11. ASSUME PublishingMoves
       PROVE OutKept
  BY <1>2, <1>3, <1>4, <1>11 DEF PublishingMoves
<1>12. CASE UNCHANGED vars
  BY <1>1, <1>12 DEF vars
<1> QED BY <1>1, <1>7, <1>8, <1>9, <1>10, <1>11, <1>12 DEF Next, Respond

\* Part by part: what stands stays true, what is put has to be.
LEMMA RowsStand ==
  ASSUME RowsTrue, OutKept, \A i \in Items : RowsOf(i)' \subseteq RowsOf(i)
  PROVE RowsTrue'
<1> SUFFICES ASSUME NEW i \in Items, NEW r \in RowsOf(i)' PROVE RowTrue(r, post')
  BY DEF RowsTrue
<1>1. RowTrue(r, post)
  BY DEF RowsTrue
<1> QED BY <1>1 DEF RowTrue, OutKept

LEMMA RowsWritten ==
  ASSUME RowsTrue, OutKept, NEW j, NEW new,
         \A i \in Items : RowsOf(i)' \subseteq RowsOf(i) \cup For(i, j, new), RowTrue(new, post')
  PROVE RowsTrue'
<1> SUFFICES ASSUME NEW i \in Items, NEW r \in RowsOf(i)' PROVE RowTrue(r, post')
  BY DEF RowsTrue
<1>1. CASE r \in RowsOf(i)
  BY <1>1 DEF RowsTrue, RowTrue, OutKept
<1>2. CASE r = new
  BY <1>2
<1> QED BY <1>1, <1>2 DEF For

LEMMA RequestStands ==
  ASSUME TypeInv, RequestsTrue, OutKept, NEW a \in Actors
  PROVE RequestTrue(req[a], post')
<1> SUFFICES ASSUME req[a].op = "sync", req[a].seen = "PUBLISHED"
             PROVE WentOut(req[a].row.post, post')
  BY DEF RequestTrue
<1>1. req[a].row.post \in Posts
  BY InHand DEF TypeInv, Admitted
<1> QED BY <1>1 DEF RequestsTrue, RequestTrue, OutKept

LEMMA RequestsStand ==
  ASSUME TypeInv, RequestsTrue, OutKept, UNCHANGED req
  PROVE RequestsTrue'
BY RequestStands DEF RequestsTrue

LEMMA RequestsPut ==
  ASSUME TypeInv, RequestsTrue, OutKept, NEW a \in Actors, NEW r,
         req' = [req EXCEPT ![a] = r], RequestTrue(r, post')
  PROVE RequestsTrue'
<1> SUFFICES ASSUME NEW b \in Actors PROVE RequestTrue(req'[b], post')
  BY DEF RequestsTrue
<1>1. req'[b] = IF b = a THEN r ELSE req[b]
  BY DEF TypeInv, RequestsTyped
<1> QED BY <1>1, RequestStands

LEMMA RequestsEnd ==
  ASSUME TypeInv, RequestsTrue, OutKept, NEW a \in Actors, Done(a)
  PROVE RequestsTrue'
<1>1. RequestTrue(NoReq, post')
  BY DEF RequestTrue, NoReq
<1> QED BY <1>1, RequestsPut DEF Done

LEMMA HandlerStands ==
  ASSUME TypeInv, HandlersTrue, OutKept, MessagesKept, NEW w \in Workers
  PROVE HandlerTrue(worker[w], post', stream')
<1>1. ASSUME worker[w].pc = "apply", worker[w].seen = "PUBLISHED"
      PROVE WentOut(worker[w].row.post, post')
  <2>1. worker[w].row.post \in Posts
    BY <1>1, AtWork DEF TypeInv, Handles
  <2> QED BY <1>1, <2>1 DEF HandlersTrue, HandlerTrue, OutKept
<1>2. ASSUME worker[w].pc = "ask", worker[w].msg # 0
      PROVE stream'[worker[w].msg].msg.post = worker[w].row.post
  <2>1. worker[w].msg \in DOMAIN stream
    BY <1>2, MessageThere DEF TypeInv, InRun
  <2> QED BY <1>2, <2>1 DEF HandlersTrue, HandlerTrue, MessagesKept
<1> QED BY <1>1, <1>2 DEF HandlerTrue

LEMMA HandlersStand ==
  ASSUME TypeInv, HandlersTrue, OutKept, MessagesKept, UNCHANGED worker
  PROVE HandlersTrue'
BY HandlerStands DEF HandlersTrue

LEMMA HandlersPut ==
  ASSUME TypeInv, HandlersTrue, OutKept, MessagesKept, NEW w \in Workers, NEW h,
         worker' = [worker EXCEPT ![w] = h], HandlerTrue(h, post', stream')
  PROVE HandlersTrue'
<1> SUFFICES ASSUME NEW v \in Workers PROVE HandlerTrue(worker'[v], post', stream')
  BY DEF HandlersTrue
<1>1. worker'[v] = IF v = w THEN h ELSE worker[v]
  BY DEF TypeInv, HandlersTyped
<1> QED BY <1>1, HandlerStands

LEMMA LettersStand ==
  ASSUME TypeInv, LettersTrue, OutKept, MessagesKept, DOMAIN stream' = DOMAIN stream
  PROVE LettersTrue'
<1> SUFFICES ASSUME NEW k \in DOMAIN stream, stream[k].msg.status = "PUBLISHED"
             PROVE WentOut(stream[k].msg.post, post')
  BY DEF LettersTrue, MessagesKept
<1>1. stream[k] \in Letters
  BY DEF TypeInv
<1>2. stream[k].msg.post \in Posts
  BY <1>1 DEF Letters
<1> QED BY <1>2 DEF LettersTrue, OutKept

LEMMA LettersGrow ==
  ASSUME TypeInv, LettersTrue, OutKept, NEW p \in Posts, NEW s \in {"PUBLISHED", "FAILED"},
         Emit([post |-> p, status |-> s]), s = "PUBLISHED" => WentOut(p, post')
  PROVE LettersTrue' /\ MessagesKept
<1> DEFINE e == [msg |-> [post |-> p, status |-> s], state |-> "waiting", tries |-> 0]
<1>1. stream \in Seq(Letters) /\ e \in Letters
  BY DEF TypeInv, Letters, LetterStates
<1>2. stream' = Append(stream, e)
  BY DEF Emit
<1>3. e.msg.post = p /\ e.msg.status = s
  OBVIOUS
<1> HIDE DEF e
<1>4. /\ \A k \in DOMAIN stream : k \in DOMAIN stream' /\ stream'[k] = stream[k]
      /\ \A k \in DOMAIN stream' : k \in DOMAIN stream \/ stream'[k] = e
  BY <1>1, <1>2
<1>5. ASSUME NEW k \in DOMAIN stream, stream[k].msg.status = "PUBLISHED"
      PROVE WentOut(stream[k].msg.post, post')
  <2>0. stream[k] \in Letters
    BY <1>1
  <2>1. stream[k].msg.post \in Posts
    BY <2>0 DEF Letters
  <2> QED BY <1>5, <2>1 DEF LettersTrue, OutKept
<1> QED BY <1>3, <1>4, <1>5 DEF LettersTrue, MessagesKept

LEMMA TruthInit == Init => TruthParts
<1> SUFFICES ASSUME Init PROVE TruthParts
  OBVIOUS
<1>1. RowsTrue
  <2>1. ASSUME NEW i \in Items, NEW r \in RowsOf(i) PROVE r = item[i]
    BY ContentAssumption DEF Init, RowsOf, NoReq, Asleep
  <2>2. \A i \in Items : item[i].status # "PUBLISHED"
    BY ContentAssumption DEF Init
  <2> QED BY <2>1, <2>2 DEF RowsTrue, RowTrue
<1>2. RequestsTrue
  BY DEF Init, NoReq, RequestsTrue, RequestTrue
<1>3. HandlersTrue
  BY DEF Init, Asleep, HandlersTrue, HandlerTrue
<1>4. LettersTrue
  BY DEF Init, BusInit, LettersTrue
<1> QED BY <1>1, <1>2, <1>3, <1>4 DEF TruthParts

\* The row a request or a handler carries is true, and stays so.
LEMMA CarriedTrue ==
  ASSUME RowsTrue, OutKept, NEW i \in Items, NEW r \in RowsOf(i)
  PROVE RowTrue(r, post')
BY DEF RowsTrue, RowTrue, OutKept

LEMMA TruthLoad ==
  ASSUME TypeInv, TruthParts, OutKept, NEW a \in Actors, Request(a)
  PROVE TruthParts'
<1>1. PICK op \in Ops, i \in Items, to \in ItemStatuses, who \in Users \cup {NoUser} :
        Load(a, op, i, to, who)
  BY RequestLoads
<1> DEFINE r == [NoReq EXCEPT !.op = op, !.step = FirstStep(op), !.item = i,
                              !.row = item[i], !.to = to, !.who = who]
<1>2. req' = [req EXCEPT ![a] = r] /\ UNCHANGED <<stream, worker>>
  BY <1>1 DEF Load
<1>3. RequestTrue(r, post')
  BY DEF RequestTrue, NoReq
<1>4. RowsTrue'
  BY <1>1, LoadFlow, RowsStand DEF TruthParts
<1>5. RequestsTrue'
  <2> HIDE DEF r
  <2> QED BY <1>2, <1>3, RequestsPut DEF TruthParts
<1>6. HandlersTrue' /\ LettersTrue'
  BY <1>2, HandlersStand, LettersStand DEF TruthParts, MessagesKept
<1> QED BY <1>4, <1>5, <1>6 DEF TruthParts

\* A request that writes new and is done, new saying nothing that is not so.
LEMMA TruthPutRow ==
  ASSUME TypeInv, TruthParts, OutKept, NEW a \in Actors, NEW new, NEW kinds,
         PutRow(a, new, kinds), RowTrue(new, post')
  PROVE TruthParts'
<1>1. \A i \in Items : RowsOf(i)' \subseteq RowsOf(i) \cup For(i, req[a].item, new)
  BY PutRowFlow
<1>2. RowsTrue'
  BY <1>1, RowsWritten DEF TruthParts
<1>3. RequestsTrue' /\ HandlersTrue' /\ LettersTrue'
  BY RequestsEnd, HandlersStand, LettersStand DEF PutRow, TruthParts, MessagesKept
<1> QED BY <1>2, <1>3 DEF TruthParts

LEMMA TruthWrite ==
  ASSUME TypeInv, TruthParts, OutKept, NEW a \in Actors, Write(a)
  PROVE TruthParts'
<1>1. req[a].op # "none"
  BY DEF Write, Update, StampDesign, Move, Revise, ReviseFails, Delete, Writing
<1>2. /\ req[a] \in InFlight /\ Admitted(a, req[a]) /\ req[a].row \in ItemRows
      /\ req[a].item \in Items
  BY <1>1, InHand DEF InFlight, TypeInv
<1> DEFINE row == req[a].row
<1>3. RowTrue(row, post')
  BY <1>2, Carried, CarriedTrue DEF TruthParts
<1>4. CASE Update(a)
  <2> DEFINE new == [row EXCEPT !.copywriter = req[a].who]
  <2>1. new.status = row.status /\ new.post = row.post
    BY <1>2 DEF ItemRows
  <2>2. PutRow(a, new, {})
    BY <1>4 DEF Update
  <2> HIDE DEF new, row
  <2>3. RowTrue(new, post')
    BY <1>3, <2>1 DEF RowTrue
  <2> QED BY <2>2, <2>3, TruthPutRow
<1>5. CASE StampDesign(a)
  BY <1>3, <1>5, TruthPutRow DEF StampDesign
<1>6. CASE Move(a)
  <2> DEFINE new == [row EXCEPT !.status = req[a].to]
  <2>1. new.status = req[a].to
    BY <1>2 DEF ItemRows
  <2>2. PutRow(a, new, {})
    BY <1>6 DEF Move
  <2>3. req[a].to \in ItemTransitions[row.status] /\ row.status \in ItemStatuses
    BY <1>2, <1>6 DEF Move, Writing, Admitted, ItemRows
  <2>4. req[a].to # "PUBLISHED"
    BY <2>3 DEF ItemTransitions, ItemStatuses
  <2> HIDE DEF new, row
  <2>5. RowTrue(new, post')
    BY <2>1, <2>4 DEF RowTrue
  <2> QED BY <2>2, <2>5, TruthPutRow
<1>7. CASE Revise(a)
  <2> DEFINE new == [row EXCEPT !.version = row.version + 1, !.status = StatusAfterRevise(row.status)]
             kinds == If("retouched", row.status = "FAILED")
  <2>1. PutRow(a, new, kinds)
    BY <1>7 DEF Revise
  <2>2. ~IsLocked(row.status)
    BY <1>2, <1>7 DEF Revise, Writing, Admitted
  <2>3. new.status # "PUBLISHED"
    BY <1>2, <2>2 DEF ItemRows, StatusAfterRevise, IsLocked
  <2> HIDE DEF new, kinds
  <2>4. RowTrue(new, post')
    BY <2>3 DEF RowTrue
  <2> QED BY <2>1, <2>4, TruthPutRow
<1>8. CASE ReviseFails(a) \/ Delete(a)
  <2>1. Done(a) /\ UNCHANGED <<item, worker, stream>>
    BY <1>8 DEF ReviseFails, Delete, rows
  <2>2. RowsTrue'
    BY <2>1, EndFlow, RowsStand DEF TruthParts
  <2> QED BY <2>1, <2>2, RequestsEnd, HandlersStand, LettersStand DEF TruthParts, MessagesKept
<1> QED BY <1>4, <1>5, <1>6, <1>7, <1>8 DEF Write

LEMMA TruthSchedule ==
  ASSUME TypeInv, TruthParts, OutKept, NEW a \in Actors, ScheduleStep(a)
  PROVE TruthParts'
<1>1. req[a].op = "schedule"
  BY DEF ScheduleStep, SavePost, LinkPost, ApprovePost, SchedulePost, CallPost,
         CommitSchedule, Doing
<1>2. /\ req[a] \in InFlight /\ req[a].row \in ItemRows
      /\ req[a].item \in Items /\ req[a].row.status \in {"APPROVED", "FAILED"}
      /\ req \in [Actors -> InFlight \cup {NoReq}]
  BY <1>1, InHand DEF InFlight, TypeInv, RequestsTyped, Admitted, CanSchedule
<1>3. ASSUME NEW r, req' = [req EXCEPT ![a] = r], r.op = "schedule",
             UNCHANGED <<worker, stream>>, RowsTrue'
      PROVE TruthParts'
  <2>1. RequestTrue(r, post')
    BY <1>3 DEF RequestTrue
  <2>2. RequestsTrue' /\ HandlersTrue' /\ LettersTrue'
    BY <1>3, <2>1, RequestsPut, HandlersStand, LettersStand DEF TruthParts, MessagesKept
  <2> QED BY <1>3, <2>2 DEF TruthParts
<1>4. ASSUME NEW p \in Posts, NEW u \in Users, SavePost(a, p, u)
      PROVE TruthParts'
  <2> DEFINE r == [req[a] EXCEPT !.post = p,
                                 !.step = IF NeedsLink(req[a], p) THEN "link" ELSE "approve"]
  <2>1. r.op = "schedule"
    BY <1>1, <1>2 DEF InFlight
  <2>2. req' = [req EXCEPT ![a] = r] /\ UNCHANGED <<worker, stream>>
    BY <1>2, <1>4 DEF SavePost
  <2>3. RowsTrue'
    BY <1>4, CallsFlow, RowsStand DEF TruthParts
  <2> HIDE DEF r
  <2> QED BY <1>3, <2>1, <2>2, <2>3
<1>5. ASSUME NEW step, NEW to, NEW next, CallPost(a, step, to, next),
             ApprovePost(a) \/ SchedulePost(a)
      PROVE TruthParts'
  <2> DEFINE r == [req[a] EXCEPT !.step = next]
  <2>1. r.op = "schedule"
    BY <1>1, <1>2 DEF InFlight
  <2>2. req' = [req EXCEPT ![a] = r] /\ UNCHANGED <<worker, stream>>
    BY <1>2, <1>5 DEF CallPost
  <2>3. RowsTrue'
    BY <1>5, CallsFlow, RowsStand DEF TruthParts
  <2> HIDE DEF r
  <2> QED BY <1>3, <2>1, <2>2, <2>3
<1>6. CASE LinkPost(a)
  <2> DEFINE r == [req[a] EXCEPT !.row = Linked(req[a]), !.step = "approve"]
  <2>1. r.op = "schedule"
    BY <1>1, <1>2 DEF InFlight
  <2>2. req' = [req EXCEPT ![a] = r] /\ UNCHANGED <<worker, stream>>
    BY <1>2, <1>6 DEF LinkPost
  <2>3. Linked(req[a]).status = req[a].row.status
    BY <1>2 DEF Linked, ItemRows
  <2>4. RowTrue(Linked(req[a]), post')
    BY <1>2, <2>3 DEF RowTrue
  <2>5. \A i \in Items : RowsOf(i)' \subseteq RowsOf(i) \cup For(i, req[a].item, Linked(req[a]))
    BY <1>6, LinkFlow
  <2>6. RowsTrue'
    BY <2>4, <2>5, RowsWritten DEF TruthParts
  <2> HIDE DEF r
  <2> QED BY <1>3, <2>1, <2>2, <2>6
<1>7. CASE CommitSchedule(a)
  <2> DEFINE new == [req[a].row EXCEPT !.status = "SCHEDULED", !.by = a]
  <2>1. new.status # "PUBLISHED"
    BY <1>2 DEF ItemRows
  <2>2. PutRow(a, new, {})
    BY <1>7 DEF CommitSchedule
  <2> HIDE DEF new
  <2>3. RowTrue(new, post')
    BY <2>1 DEF RowTrue
  <2> QED BY <2>2, <2>3, TruthPutRow
<1> QED BY <1>4, <1>5, <1>6, <1>7 DEF ScheduleStep, ApprovePost, SchedulePost

\* What apply makes of a row says nothing its writer was not told.
LEMMA FoldTrue ==
  ASSUME NEW row \in ItemRows, NEW seen, NEW posted, RowTrue(row, posted), row.post \in Posts,
         seen = "PUBLISHED" => WentOut(row.post, posted)
  PROVE RowTrue(Folded(row, seen), posted)
<1>1. /\ Folded(row, seen).status = Fold(row.status, seen)
      /\ Folded(row, seen).post = row.post
  BY FoldedType
<1>2. Fold(row.status, seen) = "PUBLISHED" => row.status = "PUBLISHED" \/ seen = "PUBLISHED"
  BY DEF Fold
<1> QED BY <1>1, <1>2 DEF RowTrue

LEMMA TruthSync ==
  ASSUME TypeInv, TruthParts, OutKept, NEW a \in Actors, SyncRead(a) \/ SyncWrite(a)
  PROVE TruthParts'
<1>1. req[a].op = "sync"
  BY DEF SyncRead, SyncWrite, Writing
<1>2. /\ req[a] \in InFlight /\ req[a].row \in ItemRows /\ req[a].row.post \in Posts
      /\ req[a].item \in Items /\ req \in [Actors -> InFlight \cup {NoReq}]
  BY <1>1, InHand DEF InFlight, TypeInv, RequestsTyped, Admitted
<1>3. UNCHANGED <<worker, stream>>
  BY DEF SyncRead, SyncWrite
<1>4. HandlersTrue' /\ LettersTrue'
  BY <1>3, HandlersStand, LettersStand DEF TruthParts, MessagesKept
<1>5. CASE SyncRead(a)
  <2> DEFINE r == [req[a] EXCEPT !.step = "write", !.seen = post[req[a].row.post]]
  <2>1. r.row = req[a].row /\ r.seen = post[req[a].row.post]
    BY <1>2 DEF InFlight
  <2>2. req' = [req EXCEPT ![a] = r] \/ Done(a)
    BY <1>5 DEF SyncRead, Done
  <2>3. RequestTrue(r, post')
    <3>1. UNCHANGED post
      BY <1>5 DEF SyncRead, posts
    <3> HIDE DEF r
    <3> QED BY <2>1, <3>1 DEF RequestTrue, WentOut
  <2>4. RowsTrue'
    BY <1>5, CallsFlow, RowsStand DEF TruthParts
  <2> HIDE DEF r
  <2>5. RequestsTrue'
    BY <2>2, <2>3, RequestsPut, RequestsEnd DEF TruthParts
  <2> QED BY <1>4, <2>4, <2>5 DEF TruthParts
<1>6. CASE SyncWrite(a)
  <2>1. RowTrue(req[a].row, post')
    BY <1>2, Carried, CarriedTrue DEF TruthParts
  <2>2. req[a].seen = "PUBLISHED" => WentOut(req[a].row.post, post')
    BY <1>1, RequestStands DEF TruthParts, RequestTrue
  <2>3. RowTrue(Folded(req[a].row, req[a].seen), post')
    BY <1>2, <2>1, <2>2, FoldTrue
  <2>4. \A i \in Items : RowsOf(i)' \subseteq
          RowsOf(i) \cup For(i, req[a].item, Folded(req[a].row, req[a].seen))
    BY <1>6, SyncWriteFlow
  <2>5. RowsTrue'
    BY <2>3, <2>4, RowsWritten DEF TruthParts
  <2>6. RequestsTrue'
    BY <1>6, RequestsEnd DEF SyncWrite, TruthParts
  <2> QED BY <1>4, <2>5, <2>6 DEF TruthParts
<1> QED BY <1>5, <1>6

-----------------------------------------------------------------------------
\* The messages of the stream when a handler takes, acks or returns one.
LEMMA MessagesMoved ==
  ASSUME TypeInv, NEW k \in DOMAIN stream, Deliver(k) \/ Ack(k) \/ Return(k)
  PROVE MessagesKept /\ DOMAIN stream' = DOMAIN stream
BY StreamMoves DEF TypeInv, MessagesKept

LEMMA FinishMoves ==
  ASSUME TypeInv, NEW w \in Workers, worker[w].pc # "idle", Finish(w)
  PROVE /\ MessagesKept /\ DOMAIN stream' = DOMAIN stream
        /\ worker' = [worker EXCEPT ![w] = Rest(w)]
        /\ HandlerTrue(Rest(w), post', stream')
<1>1. UNCHANGED stream \/ (worker[w].msg \in DOMAIN stream /\ Ack(worker[w].msg))
  BY MessageThere DEF Finish, TypeInv
<1>2. MessagesKept /\ DOMAIN stream' = DOMAIN stream
  BY <1>1, MessagesMoved DEF MessagesKept
<1>3. Rest(w).pc \in {"idle", "next"}
  BY DEF Rest, Asleep
<1> QED BY <1>2, <1>3 DEF Finish, HandlerTrue

LEMMA TruthReceive ==
  ASSUME TypeInv, TruthParts, OutKept, NEW w \in Workers, NEW k \in DOMAIN stream, Receive(w, k)
  PROVE TruthParts'
<1>1. UNCHANGED req
  BY DEF Receive
<1>2. MessagesKept /\ DOMAIN stream' = DOMAIN stream
  <2>1. CASE Deliver(k)
    BY <2>1, MessagesMoved
  <2>2. CASE stream' = [stream EXCEPT ![k].state = "acked", ![k].tries = @ + 1]
    <3> DEFINE e == [stream[k] EXCEPT !.state = "acked", !.tries = stream[k].tries + 1]
    <3>1. stream[k] \in Letters
      BY DEF TypeInv
    <3>2. e.msg = stream[k].msg
      BY <3>1 DEF Letters
    <3>3. stream' = [stream EXCEPT ![k] = e]
      BY <2>2
    <3> HIDE DEF e
    <3> QED BY <3>2, <3>3 DEF MessagesKept
  <2> QED BY <2>1, <2>2 DEF Receive
<1>3. HandlersTrue'
  <2>1. CASE UNCHANGED worker
    BY <1>2, <2>1, HandlersStand DEF TruthParts
  <2>2. ASSUME NEW i \in ItemsOf(stream[k].msg.post), worker' = [worker EXCEPT ![w] =
                 [Asleep EXCEPT !.pc = "ask", !.msg = k, !.item = i, !.row = item[i]]]
        PROVE HandlersTrue'
    <3> DEFINE h == [Asleep EXCEPT !.pc = "ask", !.msg = k, !.item = i, !.row = item[i]]
    <3>1. h.pc = "ask" /\ h.msg = k /\ h.row = item[i]
      BY DEF Asleep
    <3>2. item[i].post = stream[k].msg.post
      BY <2>2 DEF ItemsOf
    <3>3. HandlerTrue(h, post', stream')
      <4> HIDE DEF h
      <4> QED BY <1>2, <3>1, <3>2 DEF HandlerTrue, MessagesKept
    <3>4. worker' = [worker EXCEPT ![w] = h]
      BY <2>2
    <3> HIDE DEF h
    <3> QED BY <1>2, <3>3, <3>4, HandlersPut DEF TruthParts
  <2> QED BY <2>1, <2>2 DEF Receive
<1>4. RowsTrue'
  BY ReceiveFlow, RowsStand DEF TruthParts
<1> QED BY <1>1, <1>2, <1>3, <1>4, RequestsStand, LettersStand DEF TruthParts

LEMMA TruthRun ==
  ASSUME TypeInv, TruthParts, OutKept, NEW w \in Workers, StartRun(w) \/ NextItem(w)
  PROVE TruthParts'
<1>1. UNCHANGED <<req, stream>>
  BY DEF StartRun, NextItem
<1>2. PICK h : worker' = [worker EXCEPT ![w] = h] /\ HandlerTrue(h, post', stream')
  <2>1. CASE StartRun(w)
    <3>1. PICK t : worker' = [worker EXCEPT ![w] = [Asleep EXCEPT !.pc = "next", !.todo = t]]
      BY <2>1 DEF StartRun
    <3>2. [Asleep EXCEPT !.pc = "next", !.todo = t].pc = "next"
      BY DEF Asleep
    <3> QED BY <3>1, <3>2 DEF HandlerTrue
  <2>2. CASE NextItem(w)
    <3> DEFINE rest(x) == [worker[w] EXCEPT !.todo = worker[w].todo \ {x}]
               ask(x)  == [rest(x) EXCEPT !.pc = "ask", !.item = x.item, !.row = x.row]
    <3>1. PICK x \in worker[w].todo :
            \E h \in {rest(x), ask(x), Asleep} : worker' = [worker EXCEPT ![w] = h]
      BY <2>2 DEF NextItem
    <3>2. PICK h \in {rest(x), ask(x), Asleep} : worker' = [worker EXCEPT ![w] = h]
      BY <3>1
    <3>3. worker[w] \in Handlers /\ worker[w].pc = "next" /\ worker[w].msg = 0
      <4>1. worker[w].pc = "next"
        BY <2>2 DEF NextItem, WorkerAt
      <4>2. worker[w] \in Handlers /\ Handles(worker[w], DOMAIN stream)
        BY <4>1, AtWork DEF TypeInv
      <4> QED BY <4>1, <4>2 DEF Handles, Asleep
    <3>4. rest(x).pc = "next" /\ ask(x).pc = "ask" /\ ask(x).msg = 0 /\ Asleep.pc = "idle"
      BY <3>3 DEF Handlers, Asleep
    <3> HIDE DEF rest, ask
    <3> QED BY <3>2, <3>4 DEF HandlerTrue
  <2> QED BY <2>1, <2>2
<1>3. HandlersTrue'
  BY <1>1, <1>2, HandlersPut DEF TruthParts, MessagesKept
<1>4. RowsTrue'
  BY StartRunFlow, NextItemFlow, RowsStand DEF TruthParts
<1> QED BY <1>1, <1>3, <1>4, RequestsStand, LettersStand DEF TruthParts, MessagesKept

LEMMA TruthTold ==
  ASSUME TypeInv, TruthParts, OutKept, NEW w \in Workers, NEW found \in BOOLEAN,
         worker[w].pc = "ask", Told(w, found)
  PROVE TruthParts'
<1> DEFINE seen == IF found THEN post[worker[w].row.post] ELSE Message(w).status
           h == [worker[w] EXCEPT !.pc = "apply", !.seen = seen]
<1>1. UNCHANGED <<req, post>>
  BY DEF Told, posts
<1>2. worker[w] \in Handlers /\ Handles(worker[w], DOMAIN stream)
  BY AtWork DEF TypeInv
<1>3. HandlersTrue' /\ MessagesKept /\ DOMAIN stream' = DOMAIN stream
  <2>1. CASE Finish(w)
    BY <2>1, FinishMoves, HandlersPut DEF TruthParts
  <2>2. CASE /\ ~(InRun(w) /\ ~found) /\ UNCHANGED stream
             /\ worker' = [worker EXCEPT ![w].pc = "apply", ![w].seen = seen]
    <3>1. seen = "PUBLISHED" => WentOut(worker[w].row.post, post)
      <4>1. CASE found
        BY <4>1 DEF WentOut
      <4>2. CASE ~found
        <5>1. worker[w].msg \in DOMAIN stream /\ worker[w].msg # 0
          BY <2>2, <4>2, MessageThere DEF TypeInv, InRun
        <5>2. stream[worker[w].msg].msg.post = worker[w].row.post
          BY <5>1 DEF TruthParts, HandlersTrue, HandlerTrue
        <5>3. Message(w).status = "PUBLISHED" => WentOut(Message(w).post, post)
          BY <5>1 DEF TruthParts, LettersTrue, Message
        <5> QED BY <4>2, <5>2, <5>3 DEF Message
      <4> QED BY <4>1, <4>2
    <3>2. worker' = [worker EXCEPT ![w] = h]
      BY <2>2 DEF TypeInv, HandlersTyped
    <3>3. h.pc = "apply" /\ h.seen = seen /\ h.row = worker[w].row
      <4> HIDE DEF seen
      <4> QED BY <1>2 DEF Handlers
    <3>4. HandlerTrue(h, post', stream')
      <4> HIDE DEF h, seen
      <4> QED BY <1>1, <3>1, <3>3 DEF HandlerTrue
    <3> HIDE DEF h, seen
    <3> QED BY <2>2, <3>2, <3>4, HandlersPut DEF TruthParts, MessagesKept
  <2> QED BY <2>1, <2>2 DEF Told
<1>4. RowsTrue'
  BY ToldFlow, RowsStand DEF TruthParts
<1> QED BY <1>1, <1>3, <1>4, RequestsStand, LettersStand DEF TruthParts

LEMMA TruthApply ==
  ASSUME TypeInv, TruthParts, OutKept, NEW w \in Workers, ApplyPost(w)
  PROVE TruthParts'
<1> DEFINE row == worker[w].row
           seen == worker[w].seen
<1>1. worker[w].pc = "apply" /\ Finish(w) /\ UNCHANGED req
  BY DEF ApplyPost, WorkerAt
<1>2. row \in ItemRows /\ row.post \in Posts /\ worker[w].item \in Items
  BY <1>1, AtWork DEF TypeInv, Handles
<1>3. MessagesKept /\ DOMAIN stream' = DOMAIN stream /\ HandlersTrue'
  BY <1>1, FinishMoves, HandlersPut DEF TruthParts
<1>4. RowTrue(row, post')
  BY <1>2, HandledCarried, CarriedTrue DEF TruthParts
<1>5. seen = "PUBLISHED" => WentOut(row.post, post')
  BY <1>1, <1>3, HandlerStands DEF TruthParts, HandlerTrue
<1>6. RowTrue(Folded(row, seen), post')
  BY <1>2, <1>4, <1>5, FoldTrue
<1>7. RowsTrue'
  BY <1>6, ApplyFlow, RowsWritten DEF TruthParts
<1> QED BY <1>1, <1>3, <1>7, RequestsStand, LettersStand DEF TruthParts

LEMMA TruthFailure ==
  ASSUME TypeInv, TruthParts, OutKept, NEW w \in Workers, WorkerFails(w) \/ AckLate(w)
  PROVE TruthParts'
<1>1. UNCHANGED req /\ worker[w].pc # "idle"
  BY DEF WorkerFails, AckLate, WorkerAt
<1>2. UNCHANGED stream \/ (worker[w].msg \in DOMAIN stream /\ Return(worker[w].msg))
  BY <1>1, MessageThere DEF WorkerFails, AckLate, TypeInv
<1>3. MessagesKept /\ DOMAIN stream' = DOMAIN stream
  BY <1>2, MessagesMoved DEF MessagesKept
<1>4. HandlersTrue'
  <2>1. HandlerTrue(Asleep, post', stream')
    BY DEF HandlerTrue, Asleep
  <2>2. worker' = [worker EXCEPT ![w] = Asleep] \/ UNCHANGED worker
    BY DEF WorkerFails, AckLate
  <2> QED BY <1>3, <2>1, <2>2, HandlersPut, HandlersStand DEF TruthParts
<1>5. RowsTrue'
  BY FailureFlow, RowsStand DEF TruthParts
<1> QED BY <1>1, <1>3, <1>4, <1>5, RequestsStand, LettersStand DEF TruthParts

\* Publishing goes on, or somebody leaves: no row is written but to clear a name.
LEMMA TruthOutside ==
  ASSUME TypeInv, TruthParts, OutKept, PublishingMoves \/ (\E u \in Users : Leave(u) \/ ForgetUser(u))
  PROVE TruthParts'
<1>1. UNCHANGED <<req, worker>>
  BY DEF PublishingMoves, PublishOutcome, PublishByHand, ByHand, Unhurt, Leave, ForgetUser
<1>2. LettersTrue' /\ MessagesKept
  <2>1. CASE UNCHANGED stream
    BY <2>1, LettersStand DEF TruthParts, MessagesKept
  <2>2. ASSUME NEW p \in Posts, NEW s \in {"PUBLISHED", "FAILED"},
               Emit([post |-> p, status |-> s]), post' = [post EXCEPT ![p] = s]
        PROVE LettersTrue' /\ MessagesKept
    <3>1. s = "PUBLISHED" => WentOut(p, post')
      BY <2>2 DEF TypeInv, PostsTyped, WentOut
    <3> QED BY <2>2, <3>1, LettersGrow DEF TruthParts
  <2> QED BY <2>1, <2>2
        DEF PublishingMoves, PublishOutcome, PublishByHand, ByHand, Leave, ForgetUser
<1>3. RowsTrue'
  <2>1. CASE UNCHANGED item
    BY <1>1, <2>1, OthersFlow, RowsStand DEF TruthParts
  <2>2. ASSUME NEW u \in Users, ForgetUser(u) PROVE RowsTrue'
    <3> SUFFICES ASSUME NEW i \in Items, NEW r \in RowsOf(i)' PROVE RowTrue(r, post')
      BY DEF RowsTrue
    <3> DEFINE new == [item[i] EXCEPT !.copywriter = NoUser]
    <3>1. item[i] \in RowsOf(i) /\ item[i] \in ItemRows
      BY DEF RowsOf, TypeInv, RowsTyped
    <3>2. new.status = item[i].status /\ new.post = item[i].post
      BY <3>1 DEF ItemRows
    <3>3. r \in RowsOf(i) \/ r = new
      BY <2>2, ForgetFlow
    <3> HIDE DEF new
    <3>4. RowTrue(item[i], post')
      BY <3>1, CarriedTrue DEF TruthParts
    <3>5. r \in RowsOf(i) => RowTrue(r, post')
      BY CarriedTrue DEF TruthParts
    <3> QED BY <3>2, <3>3, <3>4, <3>5 DEF RowTrue
  <2> QED BY <2>1, <2>2
        DEF PublishingMoves, PublishOutcome, PublishByHand, ByHand, Unhurt, Leave, rows
<1> QED BY <1>1, <1>2, <1>3, RequestsStand, HandlersStand DEF TruthParts

LEMMA TruthStep ==
  ASSUME TypeInv, TruthParts, [Next]_vars
  PROVE TruthParts'
<1>1. OutKept
  BY OutStays
<1>2. CASE UNCHANGED vars
  <2>1. UNCHANGED <<item, req, worker, stream>> /\ MessagesKept
    BY <1>2 DEF vars, MessagesKept
  <2> QED BY <1>1, <2>1, OthersFlow, RowsStand, RequestsStand, HandlersStand, LettersStand
        DEF TruthParts
<1>3. ASSUME NEW a \in Actors, ScheduleEnds(a)
      PROVE TruthParts'
  <2>1. Done(a) /\ UNCHANGED <<item, worker, stream>> /\ MessagesKept
    BY <1>3 DEF ScheduleEnds, rows, MessagesKept
  <2>2. RowsTrue'
    BY <1>1, <2>1, EndFlow, RowsStand DEF TruthParts
  <2> QED BY <1>1, <2>1, <2>2, RequestsEnd, HandlersStand, LettersStand DEF TruthParts
<1>4. ASSUME NEW w \in Workers, AskPost(w) \/ AskFails(w)
      PROVE TruthParts'
  <2>1. worker[w].pc = "ask"
    BY <1>4 DEF AskPost, AskFails, WorkerAt
  <2>2. CASE AskPost(w)
    <3>1. PICK t \in Tokens(worker[w].row.by) :
            Told(w, t = "good" /\ PostExists(worker[w].row.post))
      BY <2>2 DEF AskPost
    <3>2. PICK found \in BOOLEAN : Told(w, found)
      BY <3>1, Zenon
    <3> QED BY <1>1, <2>1, <3>2, TruthTold
  <2>3. CASE AskFails(w)
    <3>1. Told(w, FALSE)
      BY <2>3 DEF AskFails
    <3> QED BY <1>1, <2>1, <3>1, TruthTold
  <2> QED BY <1>4, <2>2, <2>3
<1> QED BY <1>1, <1>2, <1>3, <1>4, TruthLoad, TruthWrite, TruthSchedule, TruthSync, TruthOutside,
        TruthReceive, TruthRun, TruthApply, TruthFailure
        DEF Next, Respond, WorkerStep

\* Content never says PUBLISHED of what was not: not in the table, not in any
\* row some handler is about to write, not when it hears of an outcome late,
\* twice or out of order, and whatever is written over what.
THEOREM TruthHolds == Spec => []TruthInv
<1>1. Init => TypeInv /\ TruthParts
  BY InitTyped, TruthInit
<1>2. TypeInv /\ TruthParts /\ [Next]_vars => (TypeInv /\ TruthParts)'
  BY StepTyped, TruthStep
<1> QED BY <1>1, <1>2, TruthIsParts, PTL DEF Spec

-----------------------------------------------------------------------------
(***************************************************************************)
(* The posts of an item (Tracked, PublishedOnce). Neither is inductive: it *)
(* takes that a post is the item's that names it, that one person at a     *)
(* time schedules an item, and that the item still names the post this     *)
(* person read with it. The last two hold of items nothing happened to     *)
(* that the properties name as a cause.                                    *)
(***************************************************************************)
Causes == {"overwritten", "doubled", "strayed", "byhand"}
Clean(i) == incidents[i] \cap Causes = {}

\* A row of i, a request that has saved its post, given statuses and origins.
RowOwned(i, r, posted, made) == r.post \in Posts => made[r.post] = i /\ posted[r.post] # "NONE"
RowsOwned == \A i \in Items : \A r \in RowsOf(i) : RowOwned(i, r, post, origin)

RequestOwned(r, posted, made) ==
  r.op = "schedule" /\ r.step # "save" => made[r.post] = r.item /\ posted[r.post] # "NONE"
RequestsOwned == \A a \in Actors : RequestOwned(req[a], post, origin)

OneScheduler ==
  \A i \in Items, a, b \in Actors :
    Clean(i) /\ Scheduling(a, i) /\ Scheduling(b, i) => a = b

SchedulersRead ==
  \A i \in Items, a \in Actors :
    Clean(i) /\ Scheduling(a, i) => item[i].post = req[a].row.post

TrackParts == RowsOwned /\ RequestsOwned /\ OneScheduler /\ SchedulersRead /\ Tracked

-----------------------------------------------------------------------------
\* A post there is stays the item's it was made for.
OwnersKept == \A p \in Posts : post[p] # "NONE" => origin'[p] = origin[p] /\ post'[p] # "NONE"

LEMMA OwnersPut ==
  ASSUME TypeInv, NEW p \in Posts, NEW s, s # "NONE", post' = [post EXCEPT ![p] = s],
         UNCHANGED origin
  PROVE OwnersKept
BY DEF OwnersKept, TypeInv, PostsTyped

LEMMA OwnersStay ==
  ASSUME TypeInv, RowsOwned, [Next]_vars
  PROVE OwnersKept
<1>1. CASE UNCHANGED <<post, origin>>
  BY <1>1 DEF OwnersKept
<1>2. ASSUME NEW p \in Posts, NEW s, NEW heard, PublishOutcome(p, s, heard)
      PROVE OwnersKept
  BY <1>2, OwnersPut DEF PublishOutcome
<1>3. ASSUME NEW p \in Posts, NEW s, PublishByHand(p, s)
      PROVE OwnersKept
  BY <1>3, OwnersPut DEF PublishByHand
<1>4. ASSUME NEW p \in Posts, NEW to \in Publishing!Statuses \cup {"DELETED"}, ByHand(p, to)
      PROVE OwnersKept
  BY <1>4, OwnersPut DEF ByHand, Publishing!Statuses
<1>5. ASSUME NEW a \in Actors, NEW p \in Posts, NEW u, SavePost(a, p, u)
      PROVE OwnersKept
  <2>1. post' = [post EXCEPT ![p] = "DRAFT"] /\ origin' = [origin EXCEPT ![p] = req[a].item]
    BY <1>5 DEF SavePost
  <2>2. post[p] # "NONE" => origin[p] = req[a].item
    <3>1. req[a].item \in Items
      BY <1>5, InHand DEF SavePost, Doing, TypeInv, InFlight
    <3>2. RowOwned(req[a].item, req[a].row, post, origin)
      BY <3>1, Carried DEF RowsOwned
    <3> QED BY <1>5, <3>2 DEF SavePost, RowOwned
  <2> QED BY <2>1, <2>2 DEF OwnersKept, TypeInv, PostsTyped
<1>6. ASSUME NEW a \in Actors, NEW step \in {"approve", "queue"}, NEW to \in {"APPROVED", "SCHEDULED"},
             NEW next, CallPost(a, step, to, next)
      PROVE OwnersKept
  <2>1. req[a].post \in Posts
    <3>1. req[a].op = "schedule" /\ req[a].step = step
      BY <1>6 DEF CallPost, Doing
    <3> QED BY <3>1, InHand DEF TypeInv, Admitted
  <2> QED BY <1>6, <2>1, OwnersPut DEF CallPost
<1>7. ASSUME NEW a \in Actors, ScheduleStep(a)
      PROVE OwnersKept
  <2>1. CASE LinkPost(a) \/ CommitSchedule(a)
    BY <1>1, <2>1 DEF LinkPost, CommitSchedule, PutRow, posts
  <2> QED BY <1>5, <1>6, <1>7, <2>1 DEF ScheduleStep, ApprovePost, SchedulePost
<1>8. ASSUME NEW a \in Actors, Request(a) \/ Write(a) \/ SyncRead(a) \/ SyncWrite(a)
                               \/ ScheduleEnds(a)
      PROVE UNCHANGED <<post, origin>>
  BY <1>8 DEF Request, Load, Write, Update, StampDesign, Move, Revise, ReviseFails, Delete,
              PutRow, SyncRead, SyncWrite, Applies, ScheduleEnds, posts
<1>9. ASSUME NEW w \in Workers,
             \/ \E k \in DOMAIN stream : Receive(w, k)
             \/ StartRun(w) \/ WorkerStep(w) \/ AskFails(w) \/ WorkerFails(w) \/ AckLate(w)
      PROVE UNCHANGED <<post, origin>>
  BY <1>9 DEF Receive, StartRun, WorkerStep, NextItem, AskPost, AskFails, Told, ApplyPost,
              Applies, WorkerFails, AckLate, posts
<1>10. ASSUME NEW u \in Users, Leave(u) \/ ForgetUser(u)
       PROVE UNCHANGED <<post, origin>>
  BY <1>10 DEF Leave, ForgetUser, posts
<1>11. ASSUME PublishingMoves
       PROVE OwnersKept
  BY <1>2, <1>3, <1>4, <1>11 DEF PublishingMoves
<1>12. CASE UNCHANGED vars
  BY <1>1, <1>12 DEF vars
<1> QED BY <1>1, <1>7, <1>8, <1>9, <1>10, <1>11, <1>12 DEF Next, Respond

\* Incidents are not forgotten.
LEMMA IncidentsStay ==
  ASSUME TypeInv, [Next]_vars
  PROVE \A i \in Items : incidents[i] \subseteq incidents'[i]
<1>1. CASE UNCHANGED incidents
  BY <1>1
<1>2. ASSUME NEW j, NEW kinds, incidents' = Noted(j, kinds)
      PROVE \A i \in Items : incidents[i] \subseteq incidents'[i]
  BY <1>2 DEF Noted, TypeInv, RestTyped
<1>3. ASSUME NEW a \in Actors, NEW new, NEW kinds, PutRow(a, new, kinds)
      PROVE \A i \in Items : incidents[i] \subseteq incidents'[i]
  BY <1>2, <1>3 DEF PutRow
<1>4. ASSUME NEW a \in Actors, Request(a) \/ ScheduleEnds(a) \/ SyncRead(a) \/ SyncWrite(a)
      PROVE \A i \in Items : incidents[i] \subseteq incidents'[i]
  BY <1>1, <1>2, <1>4 DEF Request, Load, ScheduleEnds, SyncRead, SyncWrite, Applies, history
<1>5. ASSUME NEW a \in Actors, Write(a)
      PROVE \A i \in Items : incidents[i] \subseteq incidents'[i]
  BY <1>1, <1>2, <1>3, <1>5 DEF Write, Update, StampDesign, Move, Revise, ReviseFails, Delete,
                                history
<1>6. ASSUME NEW a \in Actors, ScheduleStep(a)
      PROVE \A i \in Items : incidents[i] \subseteq incidents'[i]
  BY <1>1, <1>2, <1>3, <1>6 DEF ScheduleStep, SavePost, LinkPost, ApprovePost, SchedulePost,
                                CallPost, CommitSchedule, history
<1>7. ASSUME PublishingMoves
      PROVE \A i \in Items : incidents[i] \subseteq incidents'[i]
  BY <1>1, <1>2, <1>7 DEF PublishingMoves, PublishOutcome, PublishByHand, ByHand, history
<1>8. ASSUME NEW w \in Workers,
             \/ \E k \in DOMAIN stream : Receive(w, k)
             \/ StartRun(w) \/ WorkerStep(w) \/ AskFails(w) \/ WorkerFails(w) \/ AckLate(w)
      PROVE \A i \in Items : incidents[i] \subseteq incidents'[i]
  BY <1>1, <1>2, <1>8 DEF Receive, StartRun, WorkerStep, NextItem, AskPost, AskFails, Told,
                          ApplyPost, Applies, WorkerFails, AckLate, history
<1>9. ASSUME NEW u \in Users, Leave(u) \/ ForgetUser(u)
      PROVE UNCHANGED incidents
  BY <1>9 DEF Leave, ForgetUser, history
<1>10. CASE UNCHANGED vars
  BY <1>1, <1>10 DEF vars
<1> QED BY <1>1, <1>4, <1>5, <1>6, <1>7, <1>8, <1>9, <1>10 DEF Next, Respond

LEMMA CleanBefore ==
  ASSUME TypeInv, [Next]_vars, NEW i \in Items, Clean(i)'
  PROVE Clean(i)
BY IncidentsStay DEF Clean

\* What an unclean step leaves on its item.
LEMMA NotedThere ==
  ASSUME TypeInv, NEW i \in Items, NEW kinds, incidents' = Noted(i, kinds), Clean(i)'
  PROVE kinds \cap Causes = {}
BY DEF Noted, Clean, TypeInv, RestTyped

-----------------------------------------------------------------------------
(***************************************************************************)
(* What a step does to a request, to an item, to the posts.                *)
(***************************************************************************)
\* a goes on with the schedule it has in flight, for the same item.
GoesOnWith(a) ==
  /\ req[a].op = "schedule" /\ req[a].step # "commit"
  /\ req'[a].op = "schedule" /\ req'[a].item = req[a].item

Begins(a) ==
  \E op \in Ops, i \in Items : \E to, who :
    /\ Load(a, op, i, to, who)
    /\ req'[a].op = op /\ req'[a].step = FirstStep(op)
    /\ req'[a].item = i /\ req'[a].row = item[i]

Saves(a) ==
  \E p \in Posts, u \in Users :
    /\ SavePost(a, p, u)
    /\ GoesOnWith(a) /\ req'[a].row = req[a].row /\ req'[a].post = p

Links(a) ==
  /\ LinkPost(a)
  /\ GoesOnWith(a) /\ req'[a].row = Linked(req[a]) /\ req'[a].post = req[a].post

Calls(a) ==
  /\ ApprovePost(a) \/ SchedulePost(a)
  /\ GoesOnWith(a) /\ req'[a].row = req[a].row /\ req'[a].post = req[a].post
  /\ req[a].step # "save"

Ends(a) ==
  /\ req'[a].op # "schedule"
  /\ Doing(a, "commit") => CommitSchedule(a) \/ ScheduleEnds(a)

RequestMoves(a) == Begins(a) \/ Saves(a) \/ Links(a) \/ Calls(a) \/ Ends(a)

LEMMA LoadMoves ==
  ASSUME TypeInv, NEW a \in Actors, Request(a) PROVE Begins(a)
<1>1. PICK op \in Ops, i \in Items, to \in ItemStatuses, who \in Users \cup {NoUser} :
        Load(a, op, i, to, who)
  BY RequestLoads
<1> DEFINE r == [NoReq EXCEPT !.op = op, !.step = FirstStep(op), !.item = i,
                              !.row = item[i], !.to = to, !.who = who]
<1>2. r.op = op /\ r.step = FirstStep(op) /\ r.item = i /\ r.row = item[i]
  BY DEF NoReq
<1>3. req' = [req EXCEPT ![a] = r]
  BY <1>1 DEF Load
<1> HIDE DEF r
<1>4. req'[a] = r
  BY <1>3 DEF TypeInv, RequestsTyped
<1> QED BY <1>1, <1>2, <1>4 DEF Begins

LEMMA DoneMoves ==
  ASSUME TypeInv, NEW a \in Actors, Done(a),
         Doing(a, "commit") => CommitSchedule(a) \/ ScheduleEnds(a)
  PROVE Ends(a)
BY DEF Done, Ends, NoReq, TypeInv, RequestsTyped

LEMMA ScheduleMoves ==
  ASSUME TypeInv, NEW a \in Actors, ScheduleStep(a) PROVE RequestMoves(a)
<1>1. req[a].op = "schedule"
  BY DEF ScheduleStep, SavePost, LinkPost, ApprovePost, SchedulePost, CallPost,
         CommitSchedule, Doing
<1>2. req[a] \in InFlight /\ req \in [Actors -> InFlight \cup {NoReq}]
  BY <1>1, InHand DEF TypeInv, RequestsTyped
<1>3. ASSUME NEW p \in Posts, NEW u \in Users, SavePost(a, p, u)
      PROVE Saves(a)
  <2> DEFINE r == [req[a] EXCEPT !.post = p,
                                 !.step = IF NeedsLink(req[a], p) THEN "link" ELSE "approve"]
  <2>1. r.op = req[a].op /\ r.item = req[a].item /\ r.row = req[a].row /\ r.post = p
    BY <1>2 DEF InFlight
  <2>2. req' = [req EXCEPT ![a] = r] /\ req[a].step = "save"
    BY <1>2, <1>3 DEF SavePost, Doing
  <2> HIDE DEF r
  <2>3. req'[a] = r
    BY <1>2, <2>2
  <2> QED BY <1>1, <1>3, <2>1, <2>2, <2>3 DEF Saves, GoesOnWith
<1>4. CASE LinkPost(a)
  <2> DEFINE r == [req[a] EXCEPT !.row = Linked(req[a]), !.step = "approve"]
  <2>1. /\ r.op = req[a].op /\ r.item = req[a].item /\ r.row = Linked(req[a])
        /\ r.post = req[a].post
    BY <1>2 DEF InFlight
  <2>2. req' = [req EXCEPT ![a] = r] /\ req[a].step = "link"
    BY <1>2, <1>4 DEF LinkPost, Doing
  <2> HIDE DEF r
  <2>3. req'[a] = r
    BY <1>2, <2>2
  <2> QED BY <1>1, <1>4, <2>1, <2>2, <2>3 DEF RequestMoves, Links, GoesOnWith
<1>5. ASSUME NEW step \in {"approve", "queue"}, NEW to, NEW next, CallPost(a, step, to, next),
             ApprovePost(a) \/ SchedulePost(a)
      PROVE Calls(a)
  <2> DEFINE r == [req[a] EXCEPT !.step = next]
  <2>1. r.op = req[a].op /\ r.item = req[a].item /\ r.row = req[a].row /\ r.post = req[a].post
    BY <1>2 DEF InFlight
  <2>2. req' = [req EXCEPT ![a] = r] /\ req[a].step = step
    BY <1>2, <1>5 DEF CallPost, Doing
  <2> HIDE DEF r
  <2>3. req'[a] = r
    BY <1>2, <2>2
  <2> QED BY <1>1, <1>5, <2>1, <2>2, <2>3 DEF Calls, GoesOnWith
<1>6. CASE CommitSchedule(a)
  BY <1>6, DoneMoves DEF CommitSchedule, PutRow, RequestMoves
<1> QED BY <1>3, <1>4, <1>5, <1>6 DEF ScheduleStep, RequestMoves, ApprovePost, SchedulePost

LEMMA RequestsMove ==
  ASSUME TypeInv, [Next]_vars, NEW a \in Actors, req'[a] # req[a]
  PROVE RequestMoves(a)
<1>0. req \in [Actors -> InFlight \cup {NoReq}]
  BY DEF TypeInv, RequestsTyped
<1>1. ASSUME NEW b \in Actors, NEW r, req' = [req EXCEPT ![b] = r]
      PROVE b = a
  BY <1>0, <1>1
<1>2. ASSUME NEW b \in Actors, Request(b)
      PROVE RequestMoves(a)
  <2>1. b = a
    BY <1>1, <1>2 DEF Request, Load
  <2> QED BY <1>2, <2>1, LoadMoves DEF RequestMoves
<1>3. ASSUME NEW b \in Actors, Write(b)
      PROVE RequestMoves(a)
  <2>1. Done(b) /\ ~Doing(b, "commit")
    BY <1>3 DEF Write, Update, StampDesign, Move, Revise, ReviseFails, Delete, PutRow, Writing,
                Doing
  <2>2. b = a
    BY <1>1, <2>1 DEF Done
  <2> QED BY <2>1, <2>2, DoneMoves DEF RequestMoves
<1>4. ASSUME NEW b \in Actors, ScheduleStep(b)
      PROVE RequestMoves(a)
  <2>1. ASSUME NEW p \in Posts, NEW u \in Users, SavePost(b, p, u)
        PROVE b = a
    BY <1>0, <2>1 DEF SavePost
  <2>2. ASSUME LinkPost(b) \/ ApprovePost(b) \/ SchedulePost(b) \/ CommitSchedule(b)
        PROVE b = a
    BY <1>0, <2>2 DEF LinkPost, ApprovePost, SchedulePost, CallPost, CommitSchedule, PutRow, Done
  <2>3. b = a
    BY <1>4, <2>1, <2>2 DEF ScheduleStep
  <2> QED BY <1>4, <2>3, ScheduleMoves
<1>5. ASSUME NEW b \in Actors, ScheduleEnds(b)
      PROVE RequestMoves(a)
  <2>1. b = a
    BY <1>1, <1>5 DEF ScheduleEnds, Done
  <2> QED BY <1>5, <2>1, DoneMoves DEF ScheduleEnds, RequestMoves
<1>6. ASSUME NEW b \in Actors, SyncRead(b) \/ SyncWrite(b)
      PROVE RequestMoves(a)
  <2>1. req[b].op = "sync" /\ req[b] \in InFlight
    BY <1>6, InHand DEF SyncRead, SyncWrite, Writing, TypeInv
  <2>2. PICK r : req' = [req EXCEPT ![b] = r] /\ r.op # "schedule"
    <3> DEFINE s == [req[b] EXCEPT !.step = "write", !.seen = post[req[b].row.post]]
    <3>1. s.op = "sync" /\ NoReq.op # "schedule"
      BY <2>1 DEF InFlight, NoReq
    <3>2. req' = [req EXCEPT ![b] = s] \/ req' = [req EXCEPT ![b] = NoReq]
      BY <1>6 DEF SyncRead, SyncWrite, Done
    <3> HIDE DEF s
    <3> QED BY <3>1, <3>2
  <2>3. b = a /\ req'[a] = r
    BY <1>0, <1>1, <2>2
  <2> QED BY <2>1, <2>2, <2>3 DEF RequestMoves, Ends, Doing
<1>7. CASE UNCHANGED req
  BY <1>7
<1>8. ASSUME NEW w \in Workers,
             \/ \E k \in DOMAIN stream : Receive(w, k)
             \/ StartRun(w) \/ WorkerStep(w) \/ AskFails(w) \/ WorkerFails(w) \/ AckLate(w)
      PROVE UNCHANGED req
  BY <1>8 DEF Receive, StartRun, WorkerStep, NextItem, AskPost, AskFails, Told, ApplyPost,
              WorkerFails, AckLate
<1>9. ASSUME PublishingMoves \/ \E u \in Users : Leave(u) \/ ForgetUser(u)
      PROVE UNCHANGED req
  BY <1>9 DEF PublishingMoves, PublishOutcome, PublishByHand, ByHand, Leave, ForgetUser
<1>10. CASE UNCHANGED vars
  BY <1>10 DEF vars
<1> QED BY <1>2, <1>3, <1>4, <1>5, <1>6, <1>7, <1>8, <1>9, <1>10 DEF Next, Respond

Goes(p) == post[p] \in {"SCHEDULED", "PUBLISHED"}
Active(i) == Visible(i) /\ IsLocked(item[i].status)

\* A step that leaves i clean leaves it its post, and an item that stands for a
\* post which is to go out or went out goes on to - unless it links another one;
\* then it stood for none.
KeepsPost(i) ==
  item'[i].post = item[i].post /\ (Active(i) /\ Goes(item[i].post) => Active(i)')
GetsPost(i, a) ==
  /\ LinkPost(a) /\ req[a].item = i
  /\ ~Active(i) /\ item'[i] = Linked(req[a])

\* A row written over the one it was made from.
LEMMA RowWritten ==
  ASSUME TypeInv, NEW i \in Items, NEW j \in Items, NEW row, NEW new,
         item' = [item EXCEPT ![j] = new], UNCHANGED deleted,
         i = j => item[j] = row,
         new.post = row.post, i = j /\ IsLocked(row.status) /\ Goes(row.post) => IsLocked(new.status)
  PROVE KeepsPost(i)
<1>1. item'[i] = IF i = j THEN new ELSE item[i]
  BY DEF TypeInv, RowsTyped
<1>2. CASE i = j
  BY <1>1, <1>2 DEF KeepsPost, Active, Visible, IsLocked
<1>3. CASE i # j
  BY <1>1, <1>3 DEF KeepsPost, Active, Visible
<1> QED BY <1>2, <1>3

LEMMA Unhurtful ==
  ASSUME NEW i \in Items, UNCHANGED <<item, deleted>>
  PROVE KeepsPost(i)
BY DEF KeepsPost, Active, Visible

LEMMA PutRowKeeps ==
  ASSUME TypeInv, NEW a \in Actors, req[a].item \in Items, NEW new, NEW kinds, PutRow(a, new, kinds),
         new.post = req[a].row.post, IsLocked(req[a].row.status) => IsLocked(new.status),
         NEW i \in Items, Clean(i)'
  PROVE KeepsPost(i)
<1> DEFINE j == req[a].item
<1>1. /\ item' = [item EXCEPT ![j] = new] /\ UNCHANGED deleted
      /\ incidents' = Noted(j, kinds \cup If("overwritten", Overwrites(j, req[a].row)))
  BY DEF PutRow
<1>2. i = j => item[j] = req[a].row
  BY <1>1, NotedThere DEF If, Causes, Overwrites
<1> HIDE DEF j
<1> QED BY <1>1, <1>2, RowWritten DEF j

LEMMA AppliesKeeps ==
  ASSUME TypeInv, NEW j \in Items, NEW row \in ItemRows, NEW seen, Applies(j, row, seen),
         NEW i \in Items, Clean(i)'
  PROVE KeepsPost(i)
<1>1. /\ item' = [item EXCEPT ![j] = Folded(row, seen)] /\ UNCHANGED deleted
      /\ incidents' = Noted(j, If("overwritten", Overwrites(j, row) \/ post[row.post] # seen))
  BY DEF Applies
<1>2. i = j => item[j] = row /\ post[row.post] = seen
  BY <1>1, NotedThere DEF If, Causes, Overwrites
<1>3. /\ Folded(row, seen).status = Fold(row.status, seen)
      /\ Folded(row, seen).post = row.post
  BY FoldedType
<1>4. i = j /\ IsLocked(row.status) /\ Goes(row.post) => IsLocked(Fold(row.status, seen))
  BY <1>2 DEF Goes, Fold, IsLocked, Unposted
<1> QED BY <1>1, <1>2, <1>3, <1>4, RowWritten

\* A request writes its row with the post it has, and what was locked is.
LEMMA RowsWrite ==
  ASSUME TypeInv, NEW a \in Actors, Write(a) \/ CommitSchedule(a), ~ReviseFails(a), ~Delete(a)
  PROVE \E new, kinds :
          /\ PutRow(a, new, kinds)
          /\ new.post = req[a].row.post
          /\ IsLocked(req[a].row.status) => IsLocked(new.status)
<1>1. req[a].op # "none"
  BY DEF Write, Update, StampDesign, Move, Revise, Writing, CommitSchedule, Doing
<1>2. req[a] \in InFlight /\ Admitted(a, req[a]) /\ req[a].row \in ItemRows
  BY <1>1, InHand DEF InFlight, TypeInv
<1> DEFINE row == req[a].row
<1>3. CASE Update(a)
  <2> DEFINE new == [row EXCEPT !.copywriter = req[a].who]
  <2>1. PutRow(a, new, {}) /\ new.status = row.status /\ new.post = row.post
    BY <1>2, <1>3 DEF Update, ItemRows
  <2> HIDE DEF new
  <2> QED BY <2>1
<1>4. CASE StampDesign(a)
  BY <1>4 DEF StampDesign
<1>5. CASE Move(a)
  <2> DEFINE new == [row EXCEPT !.status = req[a].to]
  <2>1. PutRow(a, new, {}) /\ new.post = row.post
    BY <1>2, <1>5 DEF Move, ItemRows
  <2>2. req[a].to \in ItemTransitions[row.status] /\ row.status \in ItemStatuses
    BY <1>2, <1>5 DEF Move, Writing, Admitted, ItemRows
  <2>3. ~IsLocked(row.status)
    BY <2>2 DEF ItemTransitions, ItemStatuses, IsLocked
  <2> HIDE DEF new
  <2> QED BY <2>1, <2>3
<1>6. CASE Revise(a)
  <2> DEFINE new == [row EXCEPT !.version = row.version + 1,
                                !.status = StatusAfterRevise(row.status)]
             kinds == If("retouched", row.status = "FAILED")
  <2>1. PutRow(a, new, kinds) /\ new.post = row.post
    BY <1>2, <1>6 DEF Revise, ItemRows
  <2>2. ~IsLocked(row.status)
    BY <1>2, <1>6 DEF Revise, Writing, Admitted
  <2> HIDE DEF new, kinds
  <2> QED BY <2>1, <2>2
<1>7. CASE CommitSchedule(a)
  <2> DEFINE new == [row EXCEPT !.status = "SCHEDULED", !.by = a]
  <2>1. PutRow(a, new, {}) /\ new.status = "SCHEDULED" /\ new.post = row.post
    BY <1>2, <1>7 DEF CommitSchedule, ItemRows
  <2> HIDE DEF new
  <2> QED BY <2>1 DEF IsLocked
<1> QED BY <1>3, <1>4, <1>5, <1>6, <1>7 DEF Write

LEMMA WriteKeeps ==
  ASSUME TypeInv, NEW a \in Actors, Write(a) \/ CommitSchedule(a), NEW i \in Items, Clean(i)'
  PROVE KeepsPost(i)
<1>1. req[a].op # "none"
  BY DEF Write, Update, StampDesign, Move, Revise, ReviseFails, Delete, Writing, CommitSchedule,
         Doing
<1>2. Admitted(a, req[a]) /\ req[a].item \in Items
  BY <1>1, InHand DEF InFlight, TypeInv
<1>3. CASE ReviseFails(a)
  BY <1>3, Unhurtful DEF ReviseFails, rows
<1>4. CASE Delete(a)
  <2>1. /\ deleted' = deleted \cup {req[a].item} /\ UNCHANGED item
        /\ incidents' =
             Noted(req[a].item, If("overwritten", Overwrites(req[a].item, req[a].row)))
    BY <1>4 DEF Delete
  <2>2. ~IsLocked(req[a].row.status)
    BY <1>2, <1>4 DEF Delete, Writing, Admitted
  <2>3. i = req[a].item => item[i] = req[a].row
    BY <1>2, <2>1, NotedThere DEF If, Causes, Overwrites
  <2> QED BY <2>1, <2>2, <2>3 DEF KeepsPost, Active, Visible
<1>5. CASE ~ReviseFails(a) /\ ~Delete(a)
  BY <1>2, <1>5, RowsWrite, PutRowKeeps
<1> QED BY <1>3, <1>4, <1>5

LEMMA ScheduleKeeps ==
  ASSUME TypeInv, NEW a \in Actors, ScheduleStep(a), NEW i \in Items, Clean(i)'
  PROVE KeepsPost(i) \/ GetsPost(i, a)
<1>1. req[a].op = "schedule"
  BY DEF ScheduleStep, SavePost, LinkPost, ApprovePost, SchedulePost, CallPost,
         CommitSchedule, Doing
<1>2. /\ req[a] \in InFlight /\ req[a].row \in ItemRows
      /\ req[a].item \in Items /\ ~IsLocked(req[a].row.status)
  BY <1>1, InHand DEF InFlight, TypeInv, Admitted, CanSchedule, IsLocked
<1>3. CASE (\E p \in Posts, u \in Users : SavePost(a, p, u)) \/ ApprovePost(a) \/ SchedulePost(a)
  BY <1>3, Unhurtful DEF SavePost, ApprovePost, SchedulePost, CallPost, rows
<1>4. CASE LinkPost(a)
  <2>1. /\ item' = [item EXCEPT ![req[a].item] = Linked(req[a])] /\ UNCHANGED deleted
        /\ incidents' =
             Noted(req[a].item, If("overwritten", Overwrites(req[a].item, req[a].row)))
    BY <1>4 DEF LinkPost
  <2>2. CASE i = req[a].item
    <3>1. item[i] = req[a].row
      BY <1>2, <2>1, <2>2, NotedThere DEF If, Causes, Overwrites
    <3>2. item'[i] = Linked(req[a])
      BY <2>1, <2>2 DEF TypeInv, RowsTyped
    <3> QED BY <1>2, <1>4, <2>2, <3>1, <3>2 DEF GetsPost, Active
  <2>3. CASE i # req[a].item
    <3>1. item'[i] = item[i] /\ UNCHANGED deleted
      BY <1>2, <2>1, <2>3 DEF TypeInv, RowsTyped
    <3> QED BY <3>1 DEF KeepsPost, Active, Visible
  <2> QED BY <2>2, <2>3
<1>5. CASE CommitSchedule(a)
  BY <1>5, WriteKeeps
<1> QED BY <1>3, <1>4, <1>5 DEF ScheduleStep

LEMMA ItemsMove ==
  ASSUME TypeInv, [Next]_vars, NEW i \in Items, Clean(i)'
  PROVE KeepsPost(i) \/ \E a \in Actors : GetsPost(i, a)
<1>1. ASSUME NEW a \in Actors, Request(a) \/ ScheduleEnds(a) \/ SyncRead(a)
      PROVE KeepsPost(i)
  BY <1>1, Unhurtful DEF Request, Load, ScheduleEnds, SyncRead, rows
<1>2. ASSUME NEW a \in Actors, SyncWrite(a)
      PROVE KeepsPost(i)
  <2>1. req[a] \in InFlight /\ req[a].row \in ItemRows /\ req[a].item \in Items
    BY <1>2, InHand DEF SyncWrite, Writing, TypeInv, InFlight, Admitted, ItemRows
  <2> QED BY <1>2, <2>1, AppliesKeeps DEF SyncWrite
<1>3. ASSUME NEW w \in Workers, ApplyPost(w)
      PROVE KeepsPost(i)
  <2>1. worker[w].pc = "apply" /\ Applies(worker[w].item, worker[w].row, worker[w].seen)
    BY <1>3 DEF ApplyPost, WorkerAt
  <2>2. worker[w].row \in ItemRows /\ worker[w].item \in Items
    BY <2>1, AtWork DEF TypeInv, Handles
  <2> QED BY <2>1, <2>2, AppliesKeeps
<1>4. ASSUME NEW w \in Workers,
             \/ \E k \in DOMAIN stream : Receive(w, k)
             \/ StartRun(w) \/ NextItem(w) \/ AskPost(w)
             \/ AskFails(w) \/ WorkerFails(w) \/ AckLate(w)
      PROVE KeepsPost(i)
  <2>1. UNCHANGED <<item, deleted>>
    BY <1>4 DEF Receive, StartRun, NextItem, AskPost, AskFails, Told, WorkerFails, AckLate, rows
  <2> QED BY <2>1, Unhurtful
<1>5. ASSUME PublishingMoves \/ \E u \in Users : Leave(u)
      PROVE KeepsPost(i)
  <2>1. UNCHANGED <<item, deleted>>
    BY <1>5 DEF PublishingMoves, PublishOutcome, PublishByHand, ByHand, Unhurt, Leave, rows
  <2> QED BY <2>1, Unhurtful
<1>6. ASSUME NEW u \in Users, ForgetUser(u)
      PROVE KeepsPost(i)
  <2>1. UNCHANGED deleted /\ item'[i] \in {item[i], [item[i] EXCEPT !.copywriter = NoUser]}
    BY <1>6 DEF ForgetUser
  <2>2. item[i] \in ItemRows
    BY DEF TypeInv, RowsTyped
  <2>3. item'[i].status = item[i].status /\ item'[i].post = item[i].post
    BY <2>1, <2>2 DEF ItemRows
  <2> QED BY <2>1, <2>3 DEF KeepsPost, Active, Visible
<1>7. CASE UNCHANGED vars
  BY <1>7, Unhurtful DEF vars
<1> QED BY <1>1, <1>2, <1>3, <1>4, <1>5, <1>6, <1>7, WriteKeeps, ScheduleKeeps
        DEF Next, Respond, WorkerStep

\* A post that goes out after a step did before, unless somebody took it up in
\* publishing or has just scheduled it and will tell the item.
LEMMA PostsMove ==
  ASSUME TypeInv, RowsOwned, [Next]_vars, NEW p \in Posts, Goes(p)'
  PROVE \/ Goes(p) /\ origin'[p] = origin[p]
        \/ \E i \in Items : origin'[p] = i /\ ~Clean(i)'
        \/ \E a \in Users : Doing(a, "commit")' /\ req'[a].post = p
<1>1. CASE post'[p] = post[p]
  BY <1>1, OwnersStay DEF OwnersKept, Goes
<1> SUFFICES ASSUME post'[p] # post[p] PROVE
        \/ Goes(p) /\ origin'[p] = origin[p]
        \/ \E i \in Items : origin'[p] = i /\ ~Clean(i)'
        \/ \E a \in Users : Doing(a, "commit")' /\ req'[a].post = p
  BY <1>1
<1>2. post \in [Posts -> PostStates]
  BY DEF TypeInv, PostsTyped
<1>3. ASSUME NEW q \in Posts, NEW s, NEW heard, PublishOutcome(q, s, heard)
      PROVE Goes(p) /\ origin'[p] = origin[p]
  <2>1. p = q
    BY <1>2, <1>3 DEF PublishOutcome
  <2> QED BY <1>3, <2>1 DEF PublishOutcome, Goes
<1>4. ASSUME NEW q \in Posts, NEW s, PublishByHand(q, s) \/ ByHand(q, s)
      PROVE \E i \in Items : origin'[p] = i /\ ~Clean(i)'
  <2>1. p = q /\ post'[p] = s /\ UNCHANGED origin
    BY <1>2, <1>4 DEF PublishByHand, ByHand
  <2>2. post[p] # "NONE" /\ (ByHand(q, s) => s # "PUBLISHED")
    BY <1>4, <2>1 DEF PublishByHand, ByHand, PostExists, PostMay, Publishing!Claimable,
                      Publishing!Statuses, Publishing!Transitions
  <2>3. PICK i \in Items : origin[p] = i
    BY <2>2 DEF TypeInv, PostsTyped
  <2>4. incidents' = Noted(i, {"byhand"})
    BY <1>4, <2>1, <2>2, <2>3 DEF PublishByHand, ByHand, If, Goes
  <2>5. ~Clean(i)'
    BY <2>4, NotedThere DEF Causes
  <2> QED BY <2>1, <2>3, <2>5
<1>5. ASSUME NEW a \in Actors, NEW q \in Posts, NEW u, SavePost(a, q, u)
      PROVE FALSE
  BY <1>2, <1>5 DEF SavePost, Goes
<1>6. ASSUME NEW a \in Actors, ApprovePost(a)
      PROVE FALSE
  BY <1>2, <1>6 DEF ApprovePost, CallPost, Goes
<1>7. ASSUME NEW a \in Actors, SchedulePost(a)
      PROVE a \in Users /\ Doing(a, "commit")' /\ req'[a].post = p
  <2>1. req[a] \in InFlight /\ Admitted(a, req[a]) /\ req[a].op = "schedule"
    BY <1>7, InHand DEF SchedulePost, CallPost, Doing, TypeInv
  <2>2. req'[a] = [req[a] EXCEPT !.step = "commit"]
    BY <1>7 DEF SchedulePost, CallPost, TypeInv, RequestsTyped
  <2>3. p = req[a].post
    BY <1>2, <1>7 DEF SchedulePost, CallPost
  <2> QED BY <2>1, <2>2, <2>3 DEF Doing, InFlight, Admitted
<1>8. ASSUME NEW a \in Actors, ScheduleStep(a)
      PROVE \E b \in Users : Doing(b, "commit")' /\ req'[b].post = p
  <2>1. CASE LinkPost(a) \/ CommitSchedule(a)
    BY <2>1 DEF LinkPost, CommitSchedule, PutRow, posts
  <2> QED BY <1>5, <1>6, <1>7, <1>8, <2>1 DEF ScheduleStep
<1>9. ASSUME NEW a \in Actors, Request(a) \/ Write(a) \/ SyncRead(a) \/ SyncWrite(a)
                               \/ ScheduleEnds(a)
      PROVE UNCHANGED post
  BY <1>9 DEF Request, Load, Write, Update, StampDesign, Move, Revise, ReviseFails, Delete,
              PutRow, SyncRead, SyncWrite, Applies, ScheduleEnds, posts
<1>10. ASSUME NEW w \in Workers,
              \/ \E k \in DOMAIN stream : Receive(w, k)
              \/ StartRun(w) \/ WorkerStep(w) \/ AskFails(w) \/ WorkerFails(w) \/ AckLate(w)
       PROVE UNCHANGED post
  BY <1>10 DEF Receive, StartRun, WorkerStep, NextItem, AskPost, AskFails, Told, ApplyPost,
               Applies, WorkerFails, AckLate, posts
<1>11. ASSUME NEW u \in Users, Leave(u) \/ ForgetUser(u)
       PROVE UNCHANGED post
  BY <1>11 DEF Leave, ForgetUser, posts
<1>12. CASE UNCHANGED vars
  BY <1>12 DEF vars
<1> QED BY <1>3, <1>4, <1>8, <1>9, <1>10, <1>11, <1>12 DEF Next, Respond, PublishingMoves

\* Rows pass on the post they have; a row that gets one gets the request's.
LEMMA RowsMove ==
  ASSUME TypeInv, [Next]_vars, NEW i \in Items, NEW r \in RowsOf(i)'
  PROVE \/ \E old \in RowsOf(i) : r.post = old.post
        \/ \E a \in Actors : LinkPost(a) /\ req[a].item = i /\ r.post = req[a].post
<1> DEFINE Known == \E old \in RowsOf(i) : r.post = old.post
<1>1. CASE RowsOf(i)' \subseteq RowsOf(i)
  BY <1>1
<1>2. ASSUME NEW j, NEW new, NEW old \in RowsOf(j), new.post = old.post,
             RowsOf(i)' \subseteq RowsOf(i) \cup For(i, j, new)
      PROVE Known
  BY <1>2 DEF For
<1>3. ASSUME NEW a \in Actors, Request(a) \/ SyncRead(a) \/ ScheduleEnds(a)
      PROVE RowsOf(i)' \subseteq RowsOf(i)
  <2>1. CASE Request(a)
    BY <2>1, RequestLoads, LoadFlow
  <2>2. CASE SyncRead(a)
    BY <2>2, CallsFlow
  <2>3. CASE ScheduleEnds(a)
    BY <2>3, EndFlow DEF ScheduleEnds, rows
  <2> QED BY <1>3, <2>1, <2>2, <2>3
<1>4. ASSUME NEW a \in Actors, Write(a) \/ CommitSchedule(a)
      PROVE Known
  <2>1. CASE ReviseFails(a) \/ Delete(a)
    <3>1. Done(a) /\ UNCHANGED <<item, worker>>
      BY <2>1 DEF ReviseFails, Delete, rows
    <3> QED BY <1>1, <3>1, EndFlow
  <2>2. CASE ~ReviseFails(a) /\ ~Delete(a)
    <3>1. PICK new, kinds : PutRow(a, new, kinds) /\ new.post = req[a].row.post
      BY <1>4, <2>2, RowsWrite
    <3>2. RowsOf(i)' \subseteq RowsOf(i) \cup For(i, req[a].item, new)
      BY <3>1, PutRowFlow
    <3> QED BY <1>2, <3>1, <3>2, Carried
  <2> QED BY <2>1, <2>2
<1>5. ASSUME NEW a \in Actors, ScheduleStep(a)
      PROVE Known \/ (LinkPost(a) /\ req[a].item = i /\ r.post = req[a].post)
  <2>1. CASE (\E p \in Posts, u \in Users : SavePost(a, p, u)) \/ ApprovePost(a) \/ SchedulePost(a)
    BY <1>1, <2>1, CallsFlow
  <2>2. CASE LinkPost(a)
    <3>1. req[a].row \in ItemRows
      BY <2>2, InHand DEF LinkPost, Doing, TypeInv, InFlight, Admitted, ItemRows
    <3>2. Linked(req[a]).post = req[a].post
      BY <3>1 DEF Linked, ItemRows
    <3>3. RowsOf(i)' \subseteq RowsOf(i) \cup For(i, req[a].item, Linked(req[a]))
      BY <2>2, LinkFlow
    <3> QED BY <2>2, <3>2, <3>3 DEF For
  <2> QED BY <1>4, <1>5, <2>1, <2>2 DEF ScheduleStep
<1>6. ASSUME NEW a \in Actors, SyncWrite(a)
      PROVE Known
  <2>1. req[a].row \in ItemRows
    BY <1>6, InHand DEF SyncWrite, Writing, TypeInv, InFlight, Admitted, ItemRows
  <2> QED BY <1>2, <1>6, <2>1, SyncWriteFlow, Carried, FoldedType
<1>7. ASSUME NEW w \in Workers, ApplyPost(w)
      PROVE Known
  <2>1. worker[w].row \in ItemRows
    BY <1>7, AtWork DEF ApplyPost, WorkerAt, TypeInv, Handles
  <2> QED BY <1>2, <1>7, <2>1, ApplyFlow, HandledCarried, FoldedType
<1>8. ASSUME NEW w \in Workers, AskPost(w) \/ AskFails(w)
      PROVE RowsOf(i)' \subseteq RowsOf(i)
  <2>1. worker[w].pc = "ask"
    BY <1>8 DEF AskPost, AskFails, WorkerAt
  <2>2. CASE AskPost(w)
    <3>1. PICK t \in Tokens(worker[w].row.by) :
            Told(w, t = "good" /\ PostExists(worker[w].row.post))
      BY <2>2 DEF AskPost
    <3>2. PICK found \in BOOLEAN : Told(w, found)
      BY <3>1, Zenon
    <3> QED BY <2>1, <3>2, ToldFlow
  <2>3. CASE AskFails(w)
    <3>1. Told(w, FALSE)
      BY <2>3 DEF AskFails
    <3> QED BY <2>1, <3>1, ToldFlow
  <2> QED BY <1>8, <2>2, <2>3
<1>9. ASSUME NEW w \in Workers,
             \/ \E k \in DOMAIN stream : Receive(w, k)
             \/ StartRun(w) \/ NextItem(w) \/ WorkerFails(w) \/ AckLate(w)
      PROVE RowsOf(i)' \subseteq RowsOf(i)
  BY <1>9, ReceiveFlow, StartRunFlow, NextItemFlow, FailureFlow
<1>10. ASSUME PublishingMoves \/ (\E u \in Users : Leave(u)) \/ UNCHANGED vars
       PROVE RowsOf(i)' \subseteq RowsOf(i)
  <2>1. UNCHANGED <<item, req, worker>>
    BY <1>10 DEF PublishingMoves, PublishOutcome, PublishByHand, ByHand, Unhurt, Leave, rows, vars
  <2> QED BY <2>1, OthersFlow
<1>11. ASSUME NEW u \in Users, ForgetUser(u)
       PROVE Known
  <2> DEFINE new == [item[i] EXCEPT !.copywriter = NoUser]
  <2>1. item[i] \in RowsOf(i) /\ item[i] \in ItemRows
    BY DEF RowsOf, TypeInv, RowsTyped
  <2>2. new.post = item[i].post
    BY <2>1 DEF ItemRows
  <2>3. RowsOf(i)' \subseteq RowsOf(i) \cup {new}
    BY <1>11, ForgetFlow
  <2> HIDE DEF new
  <2> QED BY <2>1, <2>2, <2>3
<1> HIDE DEF Known
<1>12. RowsOf(i)' \subseteq RowsOf(i) => Known
  BY DEF Known
<1> QED BY <1>3, <1>4, <1>5, <1>6, <1>7, <1>8, <1>9, <1>10, <1>11, <1>12
        DEF Next, Respond, WorkerStep, Known

LEMMA RowsOwnedStep ==
  ASSUME TypeInv, RowsOwned, RequestsOwned, [Next]_vars
  PROVE RowsOwned'
<1> SUFFICES ASSUME NEW i \in Items, NEW r \in RowsOf(i)', r.post \in Posts
             PROVE origin'[r.post] = i /\ post'[r.post] # "NONE"
  BY DEF RowsOwned, RowOwned
<1>1. origin[r.post] = i /\ post[r.post] # "NONE"
  <2>1. ASSUME NEW old \in RowsOf(i), r.post = old.post
        PROVE origin[r.post] = i /\ post[r.post] # "NONE"
    BY <2>1 DEF RowsOwned, RowOwned
  <2>2. ASSUME NEW a \in Actors, LinkPost(a), req[a].item = i, r.post = req[a].post
        PROVE origin[r.post] = i /\ post[r.post] # "NONE"
    BY <2>2 DEF LinkPost, Doing, RequestsOwned, RequestOwned
  <2> QED BY <2>1, <2>2, RowsMove
<1> QED BY <1>1, OwnersStay DEF OwnersKept

LEMMA RequestsOwnedStep ==
  ASSUME TypeInv, RowsOwned, RequestsOwned, [Next]_vars
  PROVE RequestsOwned'
<1> SUFFICES ASSUME NEW a \in Actors, req'[a].op = "schedule", req'[a].step # "save"
             PROVE origin'[req'[a].post] = req'[a].item /\ post'[req'[a].post] # "NONE"
  BY DEF RequestsOwned, RequestOwned
<1>1. ASSUME req[a].op = "schedule", req[a].step # "save",
             req'[a].post = req[a].post, req'[a].item = req[a].item
      PROVE origin'[req'[a].post] = req'[a].item /\ post'[req'[a].post] # "NONE"
  <2>1. req[a].post \in Posts
    BY <1>1, InHand DEF TypeInv, Admitted
  <2>2. origin[req[a].post] = req[a].item /\ post[req[a].post] # "NONE"
    BY <1>1 DEF RequestsOwned, RequestOwned
  <2> QED BY <1>1, <2>1, <2>2, OwnersStay DEF OwnersKept
<1>2. CASE req'[a] = req[a]
  BY <1>1, <1>2
<1>3. CASE Begins(a)
  BY <1>3 DEF Begins, FirstStep
<1>4. CASE Saves(a)
  <2>1. PICK p \in Posts, u \in Users :
          SavePost(a, p, u) /\ req'[a].item = req[a].item /\ req'[a].post = p
    BY <1>4 DEF Saves, GoesOnWith
  <2>2. post'[p] = "DRAFT" /\ origin'[p] = req[a].item
    BY <2>1 DEF SavePost, TypeInv, PostsTyped
  <2> QED BY <2>1, <2>2
<1>5. CASE Links(a)
  BY <1>1, <1>5 DEF Links, GoesOnWith, LinkPost, Doing
<1>6. CASE Calls(a)
  BY <1>1, <1>6 DEF Calls, GoesOnWith
<1> QED BY <1>2, <1>3, <1>4, <1>5, <1>6, RequestsMove DEF RequestMoves, Ends

LEMMA OneSchedulerStep ==
  ASSUME TypeInv, OneScheduler, [Next]_vars
  PROVE OneScheduler'
<1> SUFFICES ASSUME NEW i \in Items, NEW a \in Actors, NEW b \in Actors, Clean(i)',
                    Scheduling(a, i)', Scheduling(b, i)', a # b
             PROVE FALSE
  BY DEF OneScheduler
<1>1. \A c \in Actors : Scheduling(c, i)' => Scheduling(c, i) \/ Begins(c)
  <2> SUFFICES ASSUME NEW c \in Actors, Scheduling(c, i)', req'[c] # req[c]
               PROVE Scheduling(c, i) \/ Begins(c)
    BY DEF Scheduling
  <2> QED BY RequestsMove DEF RequestMoves, Saves, Links, Calls, Ends, GoesOnWith, Scheduling
<1>2. ASSUME NEW c \in Actors, NEW d \in Actors, c # d, Begins(c), Scheduling(c, i)',
             Scheduling(d, i)'
      PROVE FALSE
  <2>1. PICK op \in Ops, j \in Items : \E to, who :
          Load(c, op, j, to, who) /\ req'[c].op = op /\ req'[c].item = j
    BY <1>2 DEF Begins
  <2>2. op = "schedule" /\ j = i
    BY <1>2, <2>1 DEF Scheduling
  <2>3. req'[d] = req[d]
    BY <1>2, <2>1 DEF Load, TypeInv, RequestsTyped
  <2>4. Scheduling(d, i) /\ d \in Users
    BY <1>2, <2>3, InHand DEF Scheduling, TypeInv, Admitted
  <2>5. incidents' = Noted(i, {"doubled"})
    BY <2>1, <2>2, <2>4 DEF Load, If
  <2> QED BY <2>5, NotedThere DEF Causes
<1>3. ~Begins(a) /\ ~Begins(b)
  BY <1>2
<1> QED BY <1>1, <1>3, CleanBefore DEF OneScheduler

LEMMA SchedulersReadStep ==
  ASSUME TypeInv, OneScheduler, SchedulersRead, [Next]_vars
  PROVE SchedulersRead'
<1> SUFFICES ASSUME NEW i \in Items, NEW a \in Actors, Clean(i)', Scheduling(a, i)'
             PROVE item'[i].post = req'[a].row.post
  BY DEF SchedulersRead
<1>1. CASE Begins(a)
  BY <1>1 DEF Begins, Load, rows, Scheduling
<1>2. CASE Links(a)
  <2>1. req[a].item = i /\ LinkPost(a) /\ req'[a].row = Linked(req[a])
    BY <1>2 DEF Links, GoesOnWith, Scheduling
  <2>2. item'[i] = Linked(req[a])
    BY <2>1 DEF LinkPost, TypeInv, RowsTyped
  <2> QED BY <2>1, <2>2
<1>3. ASSUME Scheduling(a, i), req'[a].row = req[a].row, ~LinkPost(a)
      PROVE item'[i].post = req'[a].row.post
  <2>1. item[i].post = req[a].row.post
    BY <1>3, CleanBefore DEF SchedulersRead
  <2>2. ASSUME NEW b \in Actors, GetsPost(i, b)
        PROVE FALSE
    <3>1. Scheduling(b, i) /\ b # a
      BY <1>3, <2>2 DEF GetsPost, LinkPost, Doing, Scheduling
    <3> QED BY <1>3, <3>1, CleanBefore DEF OneScheduler
  <2> QED BY <1>3, <2>1, <2>2, ItemsMove DEF KeepsPost
<1>4. CASE req'[a] = req[a]
  <2>1. ~LinkPost(a)
    <3> SUFFICES ASSUME LinkPost(a) PROVE FALSE
      OBVIOUS
    <3>1. req[a] \in InFlight
      BY InHand DEF LinkPost, Doing, TypeInv
    <3> QED BY <1>4, <3>1 DEF LinkPost, Doing, InFlight, TypeInv, RequestsTyped
  <2> QED BY <1>3, <1>4, <2>1 DEF Scheduling
<1>5. CASE Saves(a)
  BY <1>3, <1>5 DEF Saves, GoesOnWith, SavePost, LinkPost, Doing, Scheduling
<1>6. CASE Calls(a)
  BY <1>3, <1>6 DEF Calls, GoesOnWith, ApprovePost, SchedulePost, CallPost, LinkPost, Doing,
                    Scheduling
<1> QED BY <1>1, <1>2, <1>4, <1>5, <1>6, RequestsMove DEF RequestMoves, Ends, Scheduling

\* The ways a post that goes out is tracked.
Telling(p) == \E a \in Users : Doing(a, "commit") /\ req[a].post = p
Stands(i, p) == Active(i) /\ item[i].post = p

LEMMA TrackedBy ==
  Tracked <=> \A p \in Posts : Goes(p) => ~Clean(origin[p]) \/ Telling(p) \/ Stands(origin[p], p)
BY DEF Tracked, Goes, Clean, Causes, Telling, Stands, Active, IsLocked

\* Who is about to tell the item goes on to, tells it, or strays.
LEMMA TellingStep ==
  ASSUME TypeInv, RequestsOwned, [Next]_vars, NEW p \in Posts, Telling(p),
         NEW i \in Items, origin[p] = i, Clean(i)'
  PROVE Telling(p)' \/ Stands(i, p)'
<1>1. PICK a \in Users : Doing(a, "commit") /\ req[a].post = p
  BY DEF Telling
<1>2. CASE req'[a] = req[a]
  BY <1>1, <1>2 DEF Telling, Doing
<1>3. CASE req'[a] # req[a]
  <2>1. a \in Actors
    BY DEF Actors
  <2>2. CommitSchedule(a) \/ ScheduleEnds(a)
    <3>1. req[a].op = "schedule" /\ req[a].step = "commit" /\ req[a] # NoReq
      BY <1>1 DEF Doing, NoReq
    <3> QED BY <1>1, <1>3, <2>1, <3>1, RequestsMove
            DEF RequestMoves, Begins, Load, Saves, Links, Calls, Ends, GoesOnWith
  <2>3. req[a].item = i /\ req[a] \in InFlight /\ Admitted(a, req[a]) /\ req[a].row \in ItemRows
    BY <1>1, <2>1, InHand DEF RequestsOwned, RequestOwned, Doing, TypeInv, InFlight, Admitted,
                              ItemRows
  <2>4. CASE CommitSchedule(a)
    <3> DEFINE new == [req[a].row EXCEPT !.status = "SCHEDULED", !.by = a]
    <3>1. PutRow(a, new, {}) /\ new.status = "SCHEDULED" /\ new.post = p
      BY <1>1, <2>3, <2>4 DEF CommitSchedule, ItemRows, Admitted, Doing
    <3> HIDE DEF new
    <3>2. /\ item' = [item EXCEPT ![i] = new] /\ UNCHANGED deleted
          /\ incidents' = Noted(i, If("overwritten", Overwrites(i, req[a].row)))
      BY <2>3, <3>1 DEF PutRow
    <3>3. item'[i] = new /\ Visible(i)
      BY <3>2, NotedThere DEF TypeInv, RowsTyped, If, Causes, Overwrites
    <3> QED BY <3>1, <3>2, <3>3 DEF Stands, Active, Visible, IsLocked
  <2>5. CASE ScheduleEnds(a)
    <3>1. incidents' = Noted(i, {"strayed"})
      BY <1>1, <2>3, <2>5 DEF ScheduleEnds, If
    <3> QED BY <3>1, NotedThere DEF Causes
  <2> QED BY <2>2, <2>4, <2>5
<1> QED BY <1>2, <1>3

LEMMA TrackedStep ==
  ASSUME TypeInv, RowsOwned, RequestsOwned, Tracked, [Next]_vars
  PROVE Tracked'
<1> SUFFICES ASSUME NEW p \in Posts, Goes(p)', Goes(p), NEW i \in Items,
                    origin[p] = i, origin'[p] = i, Clean(i)'
             PROVE Telling(p)' \/ Stands(i, p)'
  <2>1. ASSUME NEW p \in Posts, Goes(p)'
        PROVE ~Clean(origin[p])' \/ Telling(p)' \/ Stands(origin[p], p)'
    <3>1. CASE Goes(p) /\ origin'[p] = origin[p]
      <4>1. PICK i \in Items : origin[p] = i
        BY <3>1 DEF Goes, TypeInv, PostsTyped
      <4> QED BY <2>1, <3>1, <4>1
    <3>2. ASSUME NEW i \in Items, origin'[p] = i, ~Clean(i)'
          PROVE ~Clean(origin[p])'
      BY <3>2 DEF Clean
    <3>3. ASSUME NEW a \in Users, Doing(a, "commit")', req'[a].post = p
          PROVE Telling(p)'
      BY <3>3 DEF Telling
    <3> QED BY <2>1, <3>1, <3>2, <3>3, PostsMove
  <2> QED BY <2>1 DEF Tracked, Goes, Clean, Causes, Telling, Stands, Active, IsLocked
<1>1. Telling(p) \/ Stands(i, p)
  BY CleanBefore, TrackedBy
<1>2. CASE Telling(p)
  BY <1>2, TellingStep
<1>3. CASE Stands(i, p)
  <2>1. KeepsPost(i)
    BY <1>3, ItemsMove DEF Stands, GetsPost
  <2> QED BY <1>3, <2>1 DEF Stands, KeepsPost
<1> QED BY <1>1, <1>2, <1>3

LEMMA TrackInit == Init => TrackParts
<1> SUFFICES ASSUME Init PROVE TrackParts
  OBVIOUS
<1>1. ASSUME NEW i \in Items, NEW r \in RowsOf(i) PROVE r = item[i]
  BY ContentAssumption DEF Init, RowsOf, NoReq, Asleep
<1>2. \A i \in Items : item[i].post = NoPost
  BY DEF Init
<1>3. RowsOwned
  BY <1>1, <1>2, ContentAssumption DEF RowsOwned, RowOwned
<1>4. RequestsOwned /\ OneScheduler /\ SchedulersRead
  BY DEF Init, NoReq, RequestsOwned, RequestOwned, OneScheduler, SchedulersRead, Scheduling
<1>5. Tracked
  BY DEF Init, Tracked
<1> QED BY <1>3, <1>4, <1>5 DEF TrackParts

LEMMA TrackStep ==
  ASSUME TypeInv, TrackParts, [Next]_vars
  PROVE TrackParts'
BY RowsOwnedStep, RequestsOwnedStep, OneSchedulerStep, SchedulersReadStep, TrackedStep
   DEF TrackParts

LEMMA TrackHeld == Spec => [](TypeInv /\ TrackParts)
<1>1. Init => TypeInv /\ TrackParts
  BY InitTyped, TrackInit
<1>2. TypeInv /\ TrackParts /\ [Next]_vars => (TypeInv /\ TrackParts)'
  BY StepTyped, TrackStep
<1> QED BY <1>1, <1>2, PTL DEF Spec

\* A post that is to go out or went out, whatever handlers do at the same time,
\* is the one its item stands for, or the one somebody is about to tell the item
\* of - but for the causes named.
THEOREM TrackedHolds == Spec => []Tracked
<1>1. TrackParts => Tracked
  BY DEF TrackParts
<1> QED BY <1>1, TrackHeld, PTL

\* Both ways a post of a clean item is tracked lead to the post the item names.
LEMMA OnePost ==
  ASSUME TypeInv, TrackParts, NEW i \in Items, Clean(i),
         NEW p \in Posts, origin[p] = i, post[p] = "PUBLISHED"
  PROVE p = item[i].post
<1>1. Telling(p) \/ Stands(i, p)
  BY TrackedBy DEF TrackParts, Goes
<1>2. ASSUME NEW a \in Users, Doing(a, "commit"), req[a].post = p
      PROVE p = item[i].post
  <2>1. a \in Actors /\ req[a].op = "schedule" /\ req[a].step = "commit"
    BY <1>2 DEF Actors, Doing
  <2>2. req[a].row.post = p
    BY <1>2, <2>1, InHand DEF TypeInv, Admitted
  <2>3. Scheduling(a, i)
    BY <1>2, <2>1 DEF TrackParts, RequestsOwned, RequestOwned, Scheduling
  <2> QED BY <2>1, <2>2, <2>3 DEF TrackParts, SchedulersRead
<1> QED BY <1>1, <1>2 DEF Telling, Stands

LEMMA OnceFollows == TypeInv /\ TrackParts => PublishedOnce
<1> SUFFICES ASSUME TypeInv, TrackParts, NEW i \in Items, Clean(i)
             PROVE Cardinality({p \in Posts : origin[p] = i /\ post[p] = "PUBLISHED"}) <= 1
  BY DEF PublishedOnce, Clean, Causes
<1> DEFINE out == {p \in Posts : origin[p] = i /\ post[p] = "PUBLISHED"}
<1>1. out \subseteq {item[i].post}
  BY OnePost
<1>2. out = {} \/ out = {item[i].post}
  BY <1>1
<1>3. Cardinality(out) \in {0, 1}
  BY <1>2, FS_EmptySet, FS_Singleton
<1> QED BY <1>3

\* An item goes out once: whatever happens at the same time, in content, in
\* publishing and between them, no two posts of an item are published - but for
\* the causes named.
THEOREM OnceHolds == Spec => []PublishedOnce
BY OnceFollows, TrackHeld, PTL
=============================================================================
