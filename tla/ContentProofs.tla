---------------------------- MODULE ContentProofs ----------------------------
(***************************************************************************)
(* Proofs about Content, for every value of its constants: the types of    *)
(* its variables, with what requests and handlers carry.                   *)
(***************************************************************************)
EXTENDS Content, SequenceTheorems, TLAPS

(***************************************************************************)
(* TypeOK is not inductive: versions have to stay below the bound the      *)
(* number of requests sets. The parts, each about few variables:           *)
(***************************************************************************)
RowsTyped ==
  /\ item \in [Items -> ItemRows]
  /\ \A i \in Items : item[i].version <= ops + 1

PostsTyped ==
  /\ post \in [Posts -> PostStates]
  /\ origin \in [Posts -> Items \cup {NoItem}]
  /\ author \in [Posts -> Users \cup {NoUser}]
  /\ copy \in [Posts -> Versions]
  /\ \A p \in Posts : post[p] # "NONE" => origin[p] \in Items

InBounds(r, n) ==
  /\ r.row.version <= n + 1
  /\ r.op = "revise" => r.row.version <= n

RequestsTyped ==
  /\ req \in [Actors -> InFlight \cup {NoReq}]
  /\ \A a \in Actors : req[a] # NoReq => Admitted(a, req[a]) /\ InBounds(req[a], ops)

HandlerInBounds(h, n) ==
  /\ \A x \in h.todo : x.row.version <= n + 1
  /\ h.pc \in {"ask", "apply"} => h.row.version <= n + 1

HandlersTyped ==
  /\ worker \in [Workers -> Handlers \cup {Asleep}]
  /\ \A w \in Workers : worker[w] # Asleep =>
       Handles(worker[w], DOMAIN stream) /\ HandlerInBounds(worker[w], ops)

RestTyped ==
  /\ deleted \subseteq Items
  /\ revisions \in [Items -> [Versions -> Users \cup {NoUser}]]
  /\ presence \in [Users -> {"here", "left", "forgotten"}]
  /\ ops \in 0..MaxOps
  /\ faults \in 0..MaxFaults
  /\ approved \in [Items -> SUBSET Versions]
  /\ incidents \in [Items -> SUBSET Incidents]

TypeInv ==
  /\ RowsTyped /\ PostsTyped /\ RequestsTyped /\ HandlersTyped /\ RestTyped
  /\ stream \in Seq(Letters)

-----------------------------------------------------------------------------
LEMMA Counts ==
  ASSUME RestTyped PROVE ops \in Nat /\ MaxOps \in Nat /\ MaxFaults \in Nat /\ ops <= MaxOps
BY ContentAssumption DEF RestTyped

LEMMA FoldType ==
  ASSUME NEW s \in ItemStatuses, NEW p PROVE Fold(s, p) \in ItemStatuses
BY DEF Fold, ItemStatuses

LEMMA FoldedType ==
  ASSUME NEW row \in ItemRows, NEW seen
  PROVE /\ Folded(row, seen) \in ItemRows
        /\ Folded(row, seen).status = Fold(row.status, seen)
        /\ Folded(row, seen).version = row.version
        /\ Folded(row, seen).post = row.post
BY FoldType DEF Folded, ItemRows

\* A request that stands, ends, or is put in a new state.
LEMMA RequestsStay ==
  ASSUME RequestsTyped, RestTyped, UNCHANGED req, ops' \in Nat, ops' >= ops
  PROVE RequestsTyped'
<1> SUFFICES ASSUME NEW a \in Actors, req[a] # NoReq
             PROVE Admitted(a, req[a]) /\ InBounds(req[a], ops')
  BY DEF RequestsTyped, Admitted
<1>1. Admitted(a, req[a])
  BY DEF RequestsTyped
<1>2. req[a].row.version \in Nat
  BY DEF RequestsTyped, InFlight, ItemRows, Versions
<1>3. InBounds(req[a], ops')
  BY <1>2, Counts DEF RequestsTyped, InBounds
<1> QED BY <1>1, <1>3

LEMMA RequestEnds ==
  ASSUME RequestsTyped, NEW a \in Actors, Done(a), UNCHANGED ops
  PROVE RequestsTyped'
<1>1. req' \in [Actors -> InFlight \cup {NoReq}]
  BY DEF RequestsTyped, Done
<1>2. ASSUME NEW b \in Actors, req'[b] # NoReq
      PROVE Admitted(b, req'[b]) /\ InBounds(req'[b], ops')
  <2>1. req'[b] = req[b] /\ b # a
    BY <1>2 DEF RequestsTyped, Done
  <2> QED BY <1>2, <2>1 DEF RequestsTyped, InBounds
<1> QED BY <1>1, <1>2 DEF RequestsTyped, Admitted

LEMMA RequestPut ==
  ASSUME RequestsTyped, RestTyped, NEW a \in Actors, NEW r \in InFlight,
         req' = [req EXCEPT ![a] = r], ops' \in Nat, ops' >= ops,
         Admitted(a, r), r.row.version <= ops' + 1, r.op = "revise" => r.row.version <= ops'
  PROVE RequestsTyped'
<1>1. req' \in [Actors -> InFlight \cup {NoReq}]
  BY DEF RequestsTyped
<1>2. ASSUME NEW b \in Actors, req'[b] # NoReq
      PROVE Admitted(b, req'[b]) /\ InBounds(req'[b], ops')
  <2>1. CASE b = a
    BY <2>1 DEF RequestsTyped, InBounds
  <2>2. CASE b # a
    <3>1. req'[b] = req[b] /\ req[b] # NoReq
      BY <1>2, <2>2 DEF RequestsTyped
    <3>2. req[b].row.version \in Nat
      BY <3>1 DEF RequestsTyped, InFlight, ItemRows, Versions
    <3>3. Admitted(b, req[b]) /\ InBounds(req[b], ops)
      BY <3>1 DEF RequestsTyped
    <3> QED BY <3>1, <3>2, <3>3, Counts DEF InBounds
  <2> QED BY <2>1, <2>2
<1> QED BY <1>1, <1>2 DEF RequestsTyped, Admitted

\* A handler that stands, or is put in a new state.
LEMMA HandlerKeeps ==
  ASSUME NEW h \in Handlers, NEW d, NEW e, d \subseteq e, NEW m \in Nat, NEW n \in Nat, m <= n,
         Handles(h, d), HandlerInBounds(h, m)
  PROVE Handles(h, e) /\ HandlerInBounds(h, n)
<1>1. Handles(h, e)
  BY DEF Handles
<1>2. ASSUME NEW x \in h.todo PROVE x.row.version <= n + 1
  <2>1. x.row.version \in Nat
    BY DEF Handlers, ItemRows, Versions
  <2> QED BY <2>1 DEF HandlerInBounds
<1>3. ASSUME h.pc \in {"ask", "apply"} PROVE h.row.version <= n + 1
  <2>1. h.row.version \in Nat
    BY <1>3 DEF Handles, ItemRows, Versions
  <2> QED BY <1>3, <2>1 DEF HandlerInBounds
<1> QED BY <1>1, <1>2, <1>3 DEF HandlerInBounds

LEMMA HandlersStay ==
  ASSUME HandlersTyped, RestTyped, UNCHANGED worker, DOMAIN stream \subseteq DOMAIN stream',
         ops' \in Nat, ops' >= ops
  PROVE HandlersTyped'
<1>1. ASSUME NEW w \in Workers, worker[w] # Asleep
      PROVE Handles(worker[w], DOMAIN stream') /\ HandlerInBounds(worker[w], ops')
  <2>1. worker[w] \in Handlers
    BY <1>1 DEF HandlersTyped
  <2>2. Handles(worker[w], DOMAIN stream) /\ HandlerInBounds(worker[w], ops)
    BY <1>1 DEF HandlersTyped
  <2> QED BY <2>1, <2>2, HandlerKeeps, Counts
<1> QED BY <1>1 DEF HandlersTyped

LEMMA HandlerPut ==
  ASSUME HandlersTyped, RestTyped, NEW w \in Workers, NEW h \in Handlers \cup {Asleep},
         worker' = [worker EXCEPT ![w] = h], DOMAIN stream \subseteq DOMAIN stream',
         UNCHANGED ops,
         h # Asleep => Handles(h, DOMAIN stream') /\ HandlerInBounds(h, ops)
  PROVE HandlersTyped'
<1>1. worker' \in [Workers -> Handlers \cup {Asleep}]
  BY DEF HandlersTyped
<1>2. ASSUME NEW v \in Workers, worker'[v] # Asleep
      PROVE Handles(worker'[v], DOMAIN stream') /\ HandlerInBounds(worker'[v], ops')
  <2>1. CASE v = w
    BY <1>2, <2>1 DEF HandlersTyped
  <2>2. CASE v # w
    <3>1. worker'[v] = worker[v] /\ worker[v] \in Handlers
      BY <1>2, <2>2 DEF HandlersTyped
    <3>2. Handles(worker[v], DOMAIN stream) /\ HandlerInBounds(worker[v], ops)
      BY <1>2, <3>1 DEF HandlersTyped
    <3> QED BY <3>1, <3>2, HandlerKeeps, Counts
  <2> QED BY <2>1, <2>2
<1> QED BY <1>1, <1>2 DEF HandlersTyped

\* What becomes of the stream.
LEMMA StreamPut ==
  ASSUME NEW s \in Seq(Letters), NEW k \in DOMAIN s, NEW e \in Letters
  PROVE [s EXCEPT ![k] = e] \in Seq(Letters) /\ DOMAIN [s EXCEPT ![k] = e] = DOMAIN s
<1>1. k \in 1..Len(s)
  OBVIOUS
<1> QED BY <1>1, ExceptSeq

LEMMA StreamGrows ==
  ASSUME stream \in Seq(Letters),
         NEW msg \in [post : Posts, status : {"PUBLISHED", "FAILED"}], Emit(msg)
  PROVE stream' \in Seq(Letters) /\ DOMAIN stream \subseteq DOMAIN stream'
<1>1. [msg |-> msg, state |-> "waiting", tries |-> 0] \in Letters
  BY DEF Letters, LetterStates
<1> QED BY <1>1 DEF Emit

LEMMA StreamMoves ==
  ASSUME stream \in Seq(Letters), NEW k \in DOMAIN stream,
         Deliver(k) \/ Ack(k) \/ Return(k)
  PROVE /\ stream' \in Seq(Letters)
        /\ DOMAIN stream' = DOMAIN stream
        /\ \A m \in DOMAIN stream : stream'[m].msg = stream[m].msg
<1>1. stream[k] \in Letters
  OBVIOUS
<1>2. \E e \in Letters : e.msg = stream[k].msg /\ stream' = [stream EXCEPT ![k] = e]
  <2>1. CASE Deliver(k)
    <3> DEFINE e == [stream[k] EXCEPT !.state = "out", !.tries = stream[k].tries + 1]
    <3>0. stream[k].tries + 1 \in Nat
      BY <1>1 DEF Letters
    <3>1. e \in Letters /\ e.msg = stream[k].msg
      BY <1>1, <3>0 DEF Letters, LetterStates
    <3>2. stream' = [stream EXCEPT ![k] = e]
      BY <2>1 DEF Deliver
    <3> QED BY <3>1, <3>2
  <2>2. CASE Ack(k)
    <3> DEFINE e == [stream[k] EXCEPT !.state = "acked"]
    <3>1. e \in Letters /\ e.msg = stream[k].msg
      BY <1>1 DEF Letters, LetterStates
    <3>2. stream' = [stream EXCEPT ![k] = e]
      BY <2>2 DEF Ack
    <3> QED BY <3>1, <3>2
  <2>3. CASE Return(k)
    <3> DEFINE e == [stream[k] EXCEPT !.state =
                  IF @ # "out" THEN @
                  ELSE IF stream[k].tries < MaxDeliver THEN "waiting" ELSE "dropped"]
    <3>1. e \in Letters /\ e.msg = stream[k].msg
      BY <1>1 DEF Letters, LetterStates
    <3>2. stream' = [stream EXCEPT ![k] = e]
      BY <2>3 DEF Return
    <3> QED BY <3>1, <3>2
  <2> QED BY <2>1, <2>2, <2>3
<1>3. PICK e \in Letters : e.msg = stream[k].msg /\ stream' = [stream EXCEPT ![k] = e]
  BY <1>2
<1>4. stream' \in Seq(Letters) /\ DOMAIN stream' = DOMAIN stream
  BY <1>3, StreamPut
<1>5. ASSUME NEW m \in DOMAIN stream PROVE stream'[m].msg = stream[m].msg
  BY <1>3
<1> QED BY <1>4, <1>5

-----------------------------------------------------------------------------
\* What is at hand in a request, and in a handler.
LEMMA InHand ==
  ASSUME RequestsTyped, NEW a \in Actors, req[a].op # "none"
  PROVE req[a] \in InFlight /\ Admitted(a, req[a]) /\ InBounds(req[a], ops)
BY DEF RequestsTyped, NoReq

LEMMA AtWork ==
  ASSUME HandlersTyped, NEW w \in Workers, worker[w].pc # "idle"
  PROVE /\ worker[w] \in Handlers
        /\ Handles(worker[w], DOMAIN stream)
        /\ HandlerInBounds(worker[w], ops)
BY DEF HandlersTyped, Asleep

LEMMA RowsStay ==
  ASSUME RowsTyped, RestTyped, UNCHANGED item, ops' \in Nat, ops' >= ops
  PROVE RowsTyped'
<1> SUFFICES ASSUME NEW i \in Items PROVE item[i].version <= ops' + 1
  BY DEF RowsTyped
<1>1. item[i].version \in Nat
  BY DEF RowsTyped, ItemRows, Versions
<1> QED BY <1>1, Counts DEF RowsTyped

LEMMA RowsPut ==
  ASSUME RowsTyped, NEW i, NEW new \in ItemRows, new.version <= ops + 1,
         item' = [item EXCEPT ![i] = new], UNCHANGED ops
  PROVE RowsTyped'
<1>1. item' \in [Items -> ItemRows]
  BY DEF RowsTyped
<1>2. ASSUME NEW j \in Items PROVE item'[j].version <= ops' + 1
  BY DEF RowsTyped
<1> QED BY <1>1, <1>2 DEF RowsTyped

LEMMA IncidentsNoted ==
  ASSUME RestTyped, NEW i, NEW kinds \in SUBSET Incidents
  PROVE Noted(i, kinds) \in [Items -> SUBSET Incidents]
BY DEF RestTyped, Noted

LEMMA FaultsCount ==
  ASSUME RestTyped, Fault PROVE faults' \in 0..MaxFaults
BY ContentAssumption DEF RestTyped, Fault

-----------------------------------------------------------------------------
LEMMA InitTyped == Init => TypeInv
<1> SUFFICES ASSUME Init PROVE TypeInv
  OBVIOUS
<1> USE ContentAssumption
<1>1. 0 \in Nat /\ 1 \in Versions /\ 0 \in Versions /\ FirstVersion \in {0, 1}
  BY DEF Versions, FirstVersion
<1>2. RowsTyped
  <2>1. item \in [Items -> ItemRows]
    BY <1>1 DEF Init, ItemRows, ItemStatuses
  <2>2. ASSUME NEW i \in Items PROVE item[i].version <= ops + 1
    BY <1>1 DEF Init
  <2> QED BY <2>1, <2>2 DEF RowsTyped
<1>3. PostsTyped
  BY <1>1 DEF Init, PostsTyped, PostStates
<1>4. RequestsTyped
  BY DEF Init, RequestsTyped
<1>5. HandlersTyped
  BY DEF Init, HandlersTyped
<1>6. RestTyped
  <2>1. \A i \in Items : item[i].copywriter \in Users \cup {NoUser}
    BY <1>2 DEF RowsTyped, ItemRows
  <2>2. revisions \in [Items -> [Versions -> Users \cup {NoUser}]]
    BY <2>1 DEF Init
  <2>3. approved \in [Items -> SUBSET Versions]
    BY <1>1 DEF Init
  <2> QED BY <2>2, <2>3 DEF Init, RestTyped
<1>7. stream \in Seq(Letters)
  BY DEF Init, BusInit
<1> QED BY <1>2, <1>3, <1>4, <1>5, <1>6, <1>7 DEF TypeInv

\* A request that reads an item.
LEMMA LoadTyped ==
  ASSUME TypeInv, NEW a \in Actors, NEW op \in Ops, NEW i \in Items, NEW to \in ItemStatuses,
         NEW who \in Users \cup {NoUser}, Load(a, op, i, to, who)
  PROVE TypeInv'
<1> USE DEF TypeInv
<1>1. ops' = ops + 1 /\ ops' \in Nat /\ ops' >= ops /\ ops' \in 0..MaxOps
  BY Counts, ContentAssumption DEF Load, RestTyped
<1>2. item[i] \in ItemRows /\ item[i].version <= ops + 1 /\ item[i].version \in Nat
  BY DEF RowsTyped, ItemRows, Versions
<1>3. RequestsTyped'
  <2> DEFINE r == [NoReq EXCEPT !.op = op, !.step = FirstStep(op), !.item = i,
                                !.row = item[i], !.to = to, !.who = who]
  <2>1. FirstStep(op) \in {"save", "read", "write"}
    BY DEF FirstStep
  <2>2. r \in InFlight
    BY <1>2, <2>1 DEF InFlight, NoReq, PostStates
  <2>3. /\ r.op = op /\ r.step = FirstStep(op) /\ r.row = item[i] /\ r.to = to
        /\ r.post = NoPost
    BY DEF NoReq
  <2>4. May(op, a, i, to)
    BY DEF Load
  <2>5. Admitted(a, r)
    <3> HIDE DEF r
    <3>1. op \in {"revise", "schedule"} => a \in Users
      BY <2>4 DEF May
    <3>2. op \in {"move", "decide"} => to \in ItemTransitions[item[i].status]
      BY <2>4 DEF May, CanMove, ItemTransitions, ItemStatuses
    <3>3. op \in {"revise", "delete"} => ~IsLocked(item[i].status)
      BY <2>4 DEF May
    <3>4. op = "sync" => item[i].post \in Posts
      BY <1>2, <2>4 DEF May, ItemRows
    <3>5. op = "schedule" => CanSchedule(item[i].status) /\ FirstStep(op) = "save"
      BY <2>4 DEF May, FirstStep
    <3> QED BY <2>3, <3>1, <3>2, <3>3, <3>4, <3>5 DEF Admitted
  <2>6. req' = [req EXCEPT ![a] = r]
    BY DEF Load
  <2>7. r.row.version <= ops' + 1 /\ (r.op = "revise" => r.row.version <= ops')
    BY <1>1, <1>2, <2>3, Counts
  <2> HIDE DEF r
  <2> QED BY <1>1, <2>2, <2>5, <2>6, <2>7, RequestPut
<1>4. RowsTyped' /\ PostsTyped' /\ HandlersTyped'
  BY <1>1, RowsStay, HandlersStay DEF Load, rows, posts, PostsTyped
<1>5. RestTyped'
  <2>1. incidents' \in [Items -> SUBSET Incidents]
    BY IncidentsNoted DEF Load, If, Incidents
  <2> QED BY <1>1, <2>1 DEF Load, rows, RestTyped
<1> QED BY <1>3, <1>4, <1>5 DEF Load

\* A request that writes a row and is done, whatever it writes.
LEMMA PutRowTyped ==
  ASSUME TypeInv, NEW a \in Actors, NEW new \in ItemRows, new.version <= ops + 1,
         NEW kinds \in SUBSET Incidents, PutRow(a, new, kinds),
         revisions' \in [Items -> [Versions -> Users \cup {NoUser}]],
         approved' \in [Items -> SUBSET Versions]
  PROVE TypeInv'
<1> USE DEF TypeInv
<1>1. RowsTyped'
  BY RowsPut DEF PutRow
<1>2. RequestsTyped'
  BY RequestEnds DEF PutRow
<1>3. HandlersTyped' /\ PostsTyped'
  BY HandlersStay, Counts DEF PutRow, PostsTyped, posts
<1>4. RestTyped'
  <2>1. kinds \cup If("overwritten", Overwrites(req[a].item, req[a].row)) \in SUBSET Incidents
    BY DEF If, Incidents
  <2>2. incidents' \in [Items -> SUBSET Incidents]
    BY <2>1, IncidentsNoted DEF PutRow
  <2> QED BY <2>2 DEF PutRow, RestTyped
<1> QED BY <1>1, <1>2, <1>3, <1>4 DEF PutRow

LEMMA WriteTyped ==
  ASSUME TypeInv, NEW a \in Actors, Write(a)
  PROVE TypeInv'
<1> USE DEF TypeInv
<1>1. req[a].op # "none"
  BY DEF Write, Update, StampDesign, Move, Revise, ReviseFails, Delete, Writing
<1>2. /\ req[a] \in InFlight /\ Admitted(a, req[a]) /\ InBounds(req[a], ops)
      /\ req[a].row \in ItemRows /\ req[a].row.version \in Versions
      /\ req[a].row.version <= ops + 1 /\ req[a].row.status \in ItemStatuses
  BY <1>1, InHand DEF InFlight, ItemRows, InBounds
<1>3. /\ {} \in SUBSET Incidents
      /\ revisions \in [Items -> [Versions -> Users \cup {NoUser}]]
      /\ approved \in [Items -> SUBSET Versions]
  BY DEF RestTyped
<1>4. CASE Update(a)
  <2>1. [req[a].row EXCEPT !.copywriter = req[a].who] \in ItemRows
    BY <1>2 DEF InFlight, ItemRows
  <2>2. [req[a].row EXCEPT !.copywriter = req[a].who].version = req[a].row.version
    BY <1>2 DEF ItemRows
  <2> DEFINE new == [req[a].row EXCEPT !.copywriter = req[a].who]
  <2>3. PutRow(a, new, {}) /\ UNCHANGED <<revisions, approved>>
    BY <1>4 DEF Update
  <2>4. new \in ItemRows /\ new.version <= ops + 1
    BY <1>2, <2>1, <2>2
  <2> HIDE DEF new
  <2> QED BY <1>3, <2>3, <2>4, PutRowTyped
<1>5. CASE StampDesign(a)
  <2>1. PutRow(a, req[a].row, {}) /\ UNCHANGED <<revisions, approved>>
    BY <1>5 DEF StampDesign
  <2> QED BY <1>2, <1>3, <2>1, PutRowTyped
<1>6. CASE Move(a)
  <2> DEFINE new == [req[a].row EXCEPT !.status = req[a].to]
  <2>1. new \in ItemRows /\ new.version = req[a].row.version
    BY <1>2 DEF InFlight, ItemRows
  <2>2. approved' \in [Items -> SUBSET Versions]
    BY <1>2, <1>6 DEF Move, RestTyped
  <2>3. PutRow(a, new, {}) /\ UNCHANGED revisions
    BY <1>6 DEF Move
  <2> HIDE DEF new
  <2> QED BY <1>2, <2>1, <2>2, <2>3, PutRowTyped DEF RestTyped
<1>7. CASE Revise(a)
  <2> DEFINE v == req[a].row.version + 1
             s == StatusAfterRevise(req[a].row.status)
             new == [req[a].row EXCEPT !.version = v, !.status = s]
             kinds == If("retouched", req[a].row.status = "FAILED")
  <2>1. req[a].op = "revise" /\ a \in Users
    BY <1>2, <1>7 DEF Revise, Writing, Admitted
  <2>2. v \in Versions /\ v <= ops + 1
    BY <1>2, <2>1, Counts DEF InBounds, Versions
  <2>3. s \in ItemStatuses
    BY <1>2 DEF StatusAfterRevise, ItemStatuses
  <2>4. new \in ItemRows /\ new.version = v
    BY <1>2, <2>2, <2>3 DEF ItemRows
  <2>5. kinds \in SUBSET Incidents
    BY DEF If, Incidents
  <2>6. PutRow(a, new, kinds)
    BY <1>7 DEF Revise
  <2>7. revisions' = [revisions EXCEPT ![req[a].item][v] = a] /\ UNCHANGED approved
    BY <1>7 DEF Revise
  <2>8. revisions' \in [Items -> [Versions -> Users \cup {NoUser}]]
    <3> HIDE DEF v
    <3>1. req[a].item \in Items
      BY <1>2 DEF InFlight
    <3>2. [revisions[req[a].item] EXCEPT ![v] = a] \in [Versions -> Users \cup {NoUser}]
      BY <2>1, <3>1 DEF RestTyped
    <3> QED BY <2>7, <3>1, <3>2 DEF RestTyped
  <2> HIDE DEF v, s, new, kinds
  <2> QED BY <2>2, <2>4, <2>5, <2>6, <2>7, <2>8, PutRowTyped DEF RestTyped
<1>8. CASE ReviseFails(a)
  <2> USE <1>8 DEF ReviseFails, rows, posts, history
  <2>1. RequestsTyped'
    BY RequestEnds
  <2>2. RowsTyped' /\ HandlersTyped' /\ PostsTyped'
    BY RowsStay, HandlersStay, Counts DEF PostsTyped
  <2>3. RestTyped'
    BY DEF RestTyped
  <2> QED BY <2>1, <2>2, <2>3
<1>9. CASE Delete(a)
  <2> USE <1>9 DEF Delete, posts
  <2>1. RequestsTyped'
    BY RequestEnds
  <2>2. RowsTyped' /\ HandlersTyped' /\ PostsTyped'
    BY RowsStay, HandlersStay, Counts DEF PostsTyped
  <2>3. RestTyped'
    <3>1. incidents' \in [Items -> SUBSET Incidents]
      BY IncidentsNoted DEF If, Incidents
    <3> QED BY <1>2, <3>1 DEF RestTyped, InFlight
  <2> QED BY <2>1, <2>2, <2>3
<1> QED BY <1>4, <1>5, <1>6, <1>7, <1>8, <1>9 DEF Write

\* Somebody leaves, and content forgets them.
LEMMA DepartureTyped ==
  ASSUME TypeInv, NEW u \in Users, Leave(u) \/ ForgetUser(u)
  PROVE TypeInv'
<1> USE DEF TypeInv
<1>1. UNCHANGED <<stream, req, worker, ops, faults, deleted, revisions>>
      /\ UNCHANGED posts /\ UNCHANGED history
  BY DEF Leave, ForgetUser, rows
<1>2. RequestsTyped' /\ HandlersTyped' /\ PostsTyped'
  BY <1>1, RequestsStay, HandlersStay, Counts DEF PostsTyped, posts
<1>3. presence' \in [Users -> {"here", "left", "forgotten"}]
  BY DEF Leave, ForgetUser, RestTyped
<1>4. RestTyped'
  BY <1>1, <1>3 DEF RestTyped, history
<1>5. RowsTyped'
  <2>1. CASE Leave(u)
    BY <1>1, <2>1, RowsStay, Counts DEF Leave, rows
  <2>2. CASE ForgetUser(u)
    <3>1. ASSUME NEW i \in Items
          PROVE item'[i] \in ItemRows /\ item'[i].version = item[i].version
      BY <2>2 DEF ForgetUser, RowsTyped, ItemRows
    <3>2. item' \in [Items -> ItemRows]
      BY <2>2, <3>1 DEF ForgetUser
    <3> QED BY <1>1, <3>1, <3>2 DEF RowsTyped
  <2> QED BY <2>1, <2>2
<1> QED BY <1>1, <1>2, <1>4, <1>5

\* A post that is there takes another status.
LEMMA PostMoves ==
  ASSUME PostsTyped, NEW p \in Posts, post[p] # "NONE", NEW s \in PostStates,
         post' = [post EXCEPT ![p] = s], UNCHANGED <<origin, author, copy>>
  PROVE PostsTyped'
BY DEF PostsTyped

LEMMA PublishingTyped ==
  ASSUME TypeInv, PublishingMoves
  PROVE TypeInv'
<1> USE DEF TypeInv
<1>1. PICK p \in Posts :
        \/ \E s \in {"PUBLISHED", "FAILED"}, heard \in BOOLEAN : PublishOutcome(p, s, heard)
        \/ \E s \in {"PUBLISHED", "FAILED"} : PublishByHand(p, s)
        \/ \E to \in Publishing!Statuses \cup {"DELETED"} : ByHand(p, to)
  BY DEF PublishingMoves
<1>2. CASE \E s \in {"PUBLISHED", "FAILED"}, heard \in BOOLEAN : PublishOutcome(p, s, heard)
  <2>1. PICK s \in {"PUBLISHED", "FAILED"}, heard \in BOOLEAN : PublishOutcome(p, s, heard)
    BY <1>2
  <2>2. /\ UNCHANGED rows /\ UNCHANGED history
        /\ UNCHANGED <<origin, author, copy, presence, req, worker, ops>>
        /\ post[p] = "SCHEDULED" /\ post' = [post EXCEPT ![p] = s]
        /\ \/ Emit([post |-> p, status |-> s]) /\ UNCHANGED faults
           \/ Fault /\ UNCHANGED stream
    BY <2>1 DEF PublishOutcome
  <2>3. s \in PostStates
    BY DEF PostStates, Publishing!Statuses
  <2>4. stream' \in Seq(Letters) /\ DOMAIN stream \subseteq DOMAIN stream'
    BY <2>2, StreamGrows
  <2>5. faults' \in 0..MaxFaults
    BY <2>2, FaultsCount DEF RestTyped
  <2>6. PostsTyped'
    BY <2>2, <2>3, PostMoves
  <2>7. RowsTyped' /\ RequestsTyped' /\ HandlersTyped'
    BY <2>2, <2>4, RowsStay, RequestsStay, HandlersStay, Counts DEF rows
  <2>8. RestTyped'
    BY <2>2, <2>5 DEF RestTyped, rows, history
  <2> QED BY <2>4, <2>6, <2>7, <2>8
<1>3. CASE \/ \E s \in {"PUBLISHED", "FAILED"} : PublishByHand(p, s)
           \/ \E to \in Publishing!Statuses \cup {"DELETED"} : ByHand(p, to)
  <2>1. PICK s \in PostStates :
          /\ ops < MaxOps /\ ops' = ops + 1
          /\ post[p] # "NONE" /\ post' = [post EXCEPT ![p] = s]
          /\ Unhurt /\ UNCHANGED <<origin, author, copy, req>>
          /\ \/ Emit([post |-> p, status |-> s]) /\ s \in {"PUBLISHED", "FAILED"}
             \/ UNCHANGED stream
          /\ incidents' \in [Items -> SUBSET Incidents]
    <3>1. ASSUME NEW s \in {"PUBLISHED", "FAILED"}, PublishByHand(p, s)
          PROVE s \in PostStates /\ post[p] # "NONE"
      BY <3>1 DEF PublishByHand, PostStates, Publishing!Statuses, Publishing!Claimable
    <3>2. ASSUME NEW to \in Publishing!Statuses \cup {"DELETED"}, ByHand(p, to)
          PROVE to \in PostStates /\ post[p] # "NONE"
      BY <3>2 DEF ByHand, PostExists, PostStates, Publishing!Statuses
    <3>3. ASSUME NEW s, PublishByHand(p, s) \/ ByHand(p, s)
          PROVE incidents' \in [Items -> SUBSET Incidents]
      <4>1. /\ If("byhand", TRUE) \in SUBSET Incidents
            /\ If("byhand", s = "SCHEDULED") \in SUBSET Incidents
        BY DEF If, Incidents
      <4>2. CASE PublishByHand(p, s)
        BY <4>1, <4>2, IncidentsNoted DEF PublishByHand
      <4>3. CASE ByHand(p, s)
        BY <4>1, <4>3, IncidentsNoted DEF ByHand
      <4> QED BY <3>3, <4>2, <4>3
    <3> QED BY <1>3, <3>1, <3>2, <3>3 DEF PublishByHand, ByHand
  <2>2. stream' \in Seq(Letters) /\ DOMAIN stream \subseteq DOMAIN stream'
    BY <2>1, StreamGrows
  <2>3. ops' \in 0..MaxOps /\ ops' \in Nat /\ ops' >= ops
    BY <2>1, Counts
  <2>4. PostsTyped'
    BY <2>1, PostMoves
  <2>5. RowsTyped' /\ RequestsTyped' /\ HandlersTyped'
    BY <2>1, <2>2, <2>3, RowsStay, RequestsStay, HandlersStay DEF rows, Unhurt
  <2>6. RestTyped'
    BY <2>1, <2>3 DEF RestTyped, rows, Unhurt
  <2> QED BY <2>2, <2>4, <2>5, <2>6
<1> QED BY <1>1, <1>2, <1>3

-----------------------------------------------------------------------------
\* The request goes on with r; what else there is stands.
LEMMA GoesOn ==
  ASSUME TypeInv, NEW a \in Actors, NEW r \in InFlight, req' = [req EXCEPT ![a] = r],
         Admitted(a, r), InBounds(r, ops), UNCHANGED <<stream, worker, ops>>
  PROVE RequestsTyped' /\ HandlersTyped' /\ stream' \in Seq(Letters)
<1> USE DEF TypeInv
<1>1. RequestsTyped'
  <2>1. ops' = ops /\ ops' \in Nat /\ ops' >= ops
    BY Counts
  <2>2. r.row.version <= ops' + 1 /\ (r.op = "revise" => r.row.version <= ops')
    BY <2>1 DEF InBounds
  <2> QED BY <2>1, <2>2, RequestPut
<1>2. HandlersTyped'
  BY HandlersStay, Counts
<1> QED BY <1>1, <1>2

\* A schedule that is let in stays let in, with a post from its save on.
LEMMA ScheduleGoesOn ==
  ASSUME NEW a, NEW r \in InFlight, Admitted(a, r), r.op = "schedule",
         NEW row \in ItemRows, row.status = r.row.status, NEW p \in Posts,
         NEW step \in {"link", "approve", "queue", "commit"}, step # "link" => row.post = p
  PROVE /\ [r EXCEPT !.row = row, !.post = p, !.step = step] \in InFlight
        /\ Admitted(a, [r EXCEPT !.row = row, !.post = p, !.step = step])
<1> DEFINE s == [r EXCEPT !.row = row, !.post = p, !.step = step]
<1>1. s \in InFlight
  BY DEF InFlight
<1>2. s.op = "schedule" /\ s.row = row /\ s.post = p /\ s.step = step
  BY DEF InFlight
<1>3. Admitted(a, s)
  <2> HIDE DEF s
  <2> QED BY <1>2 DEF Admitted
<1> QED BY <1>1, <1>3

LEMMA SavePostTyped ==
  ASSUME TypeInv, NEW a \in Actors, NEW p \in Posts, NEW u \in Users, SavePost(a, p, u)
  PROVE TypeInv'
<1> USE DEF TypeInv
<1> DEFINE r == req[a]
           next == IF NeedsLink(r, p) THEN "link" ELSE "approve"
           new == [r EXCEPT !.row = r.row, !.post = p, !.step = next]
<1>1. r.op = "schedule" /\ r.step = "save"
  BY DEF SavePost, Doing
<1>2. r \in InFlight /\ Admitted(a, r) /\ InBounds(r, ops)
  BY <1>1, InHand
<1>3. r.row \in ItemRows /\ r.row.version \in Versions /\ r.item \in Items
  BY <1>2 DEF InFlight, ItemRows
<1>4. new \in InFlight /\ Admitted(a, new)
  <2>1. next \in {"link", "approve", "queue", "commit"} /\ (next # "link" => r.row.post = p)
    BY DEF NeedsLink
  <2> HIDE DEF next, r
  <2> QED BY <1>1, <1>2, <1>3, <2>1, ScheduleGoesOn
<1>5. new.op = "schedule" /\ new.row = r.row
  BY <1>1, <1>2 DEF InFlight
<1>6. req' = [req EXCEPT ![a] = new]
  <2>1. new = [r EXCEPT !.post = p, !.step = next]
    BY <1>2 DEF InFlight
  <2>2. req' = [req EXCEPT ![a].post = p, ![a].step = next]
    BY DEF SavePost
  <2> QED BY <2>1, <2>2 DEF RequestsTyped
<1>7. InBounds(new, ops)
  BY <1>2, <1>5 DEF InBounds
<1>8. RequestsTyped' /\ HandlersTyped' /\ stream' \in Seq(Letters)
  <2>1. UNCHANGED <<stream, worker, ops>>
    BY DEF SavePost
  <2> HIDE DEF new
  <2> QED BY <1>4, <1>6, <1>7, <2>1, GoesOn
<1>9. PostsTyped'
  <2>1. "DRAFT" \in PostStates
    BY DEF PostStates, Publishing!Statuses
  <2>2. /\ post' = [post EXCEPT ![p] = "DRAFT"] /\ origin' = [origin EXCEPT ![p] = r.item]
        /\ copy' = [copy EXCEPT ![p] = r.row.version]
        /\ author' = author \/ author' = [author EXCEPT ![p] = u]
    BY DEF SavePost
  <2> HIDE DEF r
  <2> QED BY <1>3, <2>1, <2>2 DEF PostsTyped
<1>10. RowsTyped' /\ RestTyped'
  BY RowsStay, Counts DEF SavePost, rows, history, RestTyped
<1> QED BY <1>8, <1>9, <1>10

LEMMA LinkPostTyped ==
  ASSUME TypeInv, NEW a \in Actors, LinkPost(a)
  PROVE TypeInv'
<1> USE DEF TypeInv
<1> DEFINE r == req[a]
           row == [r.row EXCEPT !.post = r.post]
           new == [r EXCEPT !.row = row, !.post = r.post, !.step = "approve"]
<1>1. r.op = "schedule" /\ r.step = "link"
  BY DEF LinkPost, Doing
<1>2. r \in InFlight /\ Admitted(a, r) /\ InBounds(r, ops)
  BY <1>1, InHand
<1>3. r.row \in ItemRows /\ r.row.version \in Versions /\ r.item \in Items /\ r.post \in Posts
  BY <1>1, <1>2 DEF InFlight, ItemRows, Admitted
<1>4. /\ row \in ItemRows /\ row.status = r.row.status /\ row.post = r.post
      /\ row.version = r.row.version
  BY <1>3 DEF ItemRows
<1>5. new \in InFlight /\ Admitted(a, new)
  <2> HIDE DEF row, r
  <2> QED BY <1>1, <1>2, <1>3, <1>4, ScheduleGoesOn
<1>6. new.op = "schedule" /\ new.row = row
  BY <1>1, <1>2 DEF InFlight
<1>7. req' = [req EXCEPT ![a] = new]
  <2>1. new = [r EXCEPT !.row = row, !.step = "approve"]
    BY <1>2 DEF InFlight
  <2>2. req' = [req EXCEPT ![a].row = row, ![a].step = "approve"]
    BY DEF LinkPost, Linked
  <2> QED BY <2>1, <2>2 DEF RequestsTyped
<1>8. InBounds(new, ops) /\ row.version <= ops + 1
  BY <1>2, <1>4, <1>6 DEF InBounds
<1>9. RequestsTyped' /\ HandlersTyped' /\ stream' \in Seq(Letters)
  <2>1. UNCHANGED <<stream, worker, ops>>
    BY DEF LinkPost
  <2> HIDE DEF new
  <2> QED BY <1>5, <1>7, <1>8, <2>1, GoesOn
<1>10. RowsTyped'
  <2>1. item' = [item EXCEPT ![r.item] = row] /\ UNCHANGED ops
    BY DEF LinkPost, Linked
  <2> HIDE DEF row
  <2> QED BY <1>4, <1>8, <2>1, RowsPut
<1>11. RestTyped' /\ PostsTyped'
  <2>1. If("overwritten", Overwrites(r.item, r.row)) \in SUBSET Incidents
    BY DEF If, Incidents
  <2>2. incidents' \in [Items -> SUBSET Incidents]
    BY <2>1, IncidentsNoted DEF LinkPost
  <2> QED BY <2>2 DEF LinkPost, RestTyped, PostsTyped, posts
<1> QED BY <1>9, <1>10, <1>11

\* ApprovePost and SchedulePost.
LEMMA CallPostTyped ==
  ASSUME TypeInv, NEW a \in Actors,
         \/ CallPost(a, "approve", "APPROVED", "queue")
         \/ CallPost(a, "queue", "SCHEDULED", "commit")
  PROVE TypeInv'
<1> USE DEF TypeInv
<1>1. PICK step \in {"approve", "queue"}, next \in {"queue", "commit"},
           to \in {"APPROVED", "SCHEDULED"} : CallPost(a, step, to, next)
  OBVIOUS
<1> DEFINE r == req[a]
           new == [r EXCEPT !.row = r.row, !.post = r.post, !.step = next]
<1>2. r.op = "schedule" /\ r.step \in {"approve", "queue"}
  BY <1>1 DEF CallPost, Doing
<1>3. r \in InFlight /\ Admitted(a, r) /\ InBounds(r, ops)
  BY <1>2, InHand
<1>4. r.row \in ItemRows /\ r.post \in Posts /\ r.row.post = r.post
  BY <1>2, <1>3 DEF InFlight, Admitted
<1>5. new \in InFlight /\ Admitted(a, new)
  <2>1. next \in {"link", "approve", "queue", "commit"}
    OBVIOUS
  <2> HIDE DEF r
  <2> QED BY <1>2, <1>3, <1>4, <2>1, ScheduleGoesOn
<1>6. new.op = "schedule" /\ new.row = r.row
  BY <1>2, <1>3 DEF InFlight
<1>7. req' = [req EXCEPT ![a] = new]
  <2>1. new = [r EXCEPT !.step = next]
    BY <1>3 DEF InFlight
  <2>2. req' = [req EXCEPT ![a].step = next]
    BY <1>1 DEF CallPost
  <2> QED BY <2>1, <2>2 DEF RequestsTyped
<1>8. InBounds(new, ops)
  BY <1>3, <1>6 DEF InBounds
<1>9. RequestsTyped' /\ HandlersTyped' /\ stream' \in Seq(Letters)
  <2>1. UNCHANGED <<stream, worker, ops>>
    BY <1>1 DEF CallPost
  <2> HIDE DEF new
  <2> QED BY <1>5, <1>7, <1>8, <2>1, GoesOn
<1>10. PostsTyped'
  <2>1. to \in PostStates
    BY DEF PostStates, Publishing!Statuses
  <2>2. post[r.post] # "NONE"
    BY <1>1 DEF CallPost, MayCall, PostExists, Publishing!Statuses
  <2>3. post' = [post EXCEPT ![r.post] = to] /\ UNCHANGED <<origin, author, copy>>
    BY <1>1 DEF CallPost
  <2> QED BY <1>4, <2>1, <2>2, <2>3, PostMoves
<1>11. RowsTyped' /\ RestTyped'
  BY <1>1, RowsStay, Counts DEF CallPost, rows, history, RestTyped
<1> QED BY <1>9, <1>10, <1>11

LEMMA CommitTyped ==
  ASSUME TypeInv, NEW a \in Actors, CommitSchedule(a)
  PROVE TypeInv'
<1> USE DEF TypeInv
<1> DEFINE new == [req[a].row EXCEPT !.status = "SCHEDULED", !.by = a]
<1>1. req[a].op = "schedule"
  BY DEF CommitSchedule, Doing
<1>2. req[a] \in InFlight /\ Admitted(a, req[a]) /\ InBounds(req[a], ops)
  BY <1>1, InHand
<1>3. new \in ItemRows /\ new.version = req[a].row.version
  BY <1>1, <1>2 DEF InFlight, ItemRows, ItemStatuses, Admitted
<1>4. PutRow(a, new, {}) /\ UNCHANGED <<revisions, approved>>
  BY DEF CommitSchedule
<1>5. new.version <= ops + 1
  BY <1>2, <1>3 DEF InBounds
<1>6. /\ {} \in SUBSET Incidents
      /\ revisions' \in [Items -> [Versions -> Users \cup {NoUser}]]
      /\ approved' \in [Items -> SUBSET Versions]
  BY <1>4 DEF RestTyped
<1> HIDE DEF new, TypeInv
<1> QED BY <1>3, <1>4, <1>5, <1>6, PutRowTyped

LEMMA ScheduleEndsTyped ==
  ASSUME TypeInv, NEW a \in Actors, ScheduleEnds(a)
  PROVE TypeInv'
<1> USE DEF TypeInv
<1>1. /\ UNCHANGED rows /\ UNCHANGED posts
      /\ UNCHANGED <<presence, stream, worker, ops, approved>>
      /\ Fault \/ UNCHANGED faults
      /\ incidents' = Noted(req[a].item, If("strayed", Doing(a, "commit")))
      /\ Done(a)
  BY DEF ScheduleEnds
<1>2. RequestsTyped'
  BY <1>1, RequestEnds
<1>3. RowsTyped' /\ HandlersTyped' /\ PostsTyped'
  BY <1>1, RowsStay, HandlersStay, Counts DEF rows, posts, PostsTyped
<1>4. RestTyped'
  <2>1. If("strayed", Doing(a, "commit")) \in SUBSET Incidents
    BY DEF If, Incidents
  <2>2. incidents' \in [Items -> SUBSET Incidents]
    BY <1>1, <2>1, IncidentsNoted
  <2>3. faults' \in 0..MaxFaults
    BY <1>1, FaultsCount DEF RestTyped
  <2> QED BY <1>1, <2>2, <2>3 DEF RestTyped, rows
<1> QED BY <1>1, <1>2, <1>3, <1>4

-----------------------------------------------------------------------------
\* A write of apply, by a request or a handler.
LEMMA AppliesTyped ==
  ASSUME RowsTyped, RestTyped, PostsTyped, NEW i, NEW row \in ItemRows,
         row.version <= ops + 1, NEW seen, Applies(i, row, seen), UNCHANGED faults
  PROVE RowsTyped' /\ RestTyped' /\ PostsTyped'
<1>1. Folded(row, seen) \in ItemRows /\ Folded(row, seen).version <= ops + 1
  BY FoldedType
<1>2. item' = [item EXCEPT ![i] = Folded(row, seen)] /\ UNCHANGED ops
  BY DEF Applies
<1>3. RowsTyped'
  BY <1>1, <1>2, RowsPut
<1>4. If("overwritten", Overwrites(i, row) \/ post[row.post] # seen) \in SUBSET Incidents
  BY DEF If, Incidents
<1>5. incidents' \in [Items -> SUBSET Incidents]
  BY <1>4, IncidentsNoted DEF Applies
<1> QED BY <1>3, <1>5 DEF Applies, RestTyped, PostsTyped, posts

LEMMA SyncTyped ==
  ASSUME TypeInv, NEW a \in Actors, SyncRead(a) \/ SyncWrite(a)
  PROVE TypeInv'
<1> USE DEF TypeInv
<1>1. req[a].op = "sync"
  BY DEF SyncRead, SyncWrite, Writing
<1>2. req[a] \in InFlight /\ Admitted(a, req[a]) /\ InBounds(req[a], ops)
  BY <1>1, InHand
<1>3. req[a].row \in ItemRows /\ req[a].row.version <= ops + 1 /\ req[a].row.post \in Posts
  BY <1>1, <1>2 DEF InFlight, InBounds, Admitted
<1>4. CASE SyncRead(a)
  <2> DEFINE seen == post[req[a].row.post]
             new == [req[a] EXCEPT !.step = "write", !.seen = seen]
  <2>1. seen \in PostStates
    BY <1>3 DEF PostsTyped
  <2>2. new \in InFlight /\ new.op = "sync" /\ new.row = req[a].row
    BY <1>1, <1>2, <2>1 DEF InFlight
  <2>3. Admitted(a, new) /\ InBounds(new, ops)
    <3> HIDE DEF new
    <3> QED BY <1>2, <1>3, <2>2 DEF Admitted, InBounds
  <2>4. req' = [req EXCEPT ![a] = new] \/ Done(a)
    BY <1>4 DEF SyncRead, Done
  <2>5. /\ UNCHANGED rows /\ UNCHANGED posts /\ UNCHANGED history
        /\ UNCHANGED <<presence, stream, worker, ops, faults>>
    BY <1>4 DEF SyncRead
  <2>6. RequestsTyped'
    <3> HIDE DEF new
    <3> QED BY <2>2, <2>3, <2>4, <2>5, GoesOn, RequestEnds
  <2>7. RowsTyped' /\ HandlersTyped' /\ PostsTyped' /\ RestTyped'
    BY <2>5, RowsStay, HandlersStay, Counts DEF rows, posts, history, PostsTyped, RestTyped
  <2> QED BY <2>5, <2>6, <2>7
<1>5. CASE SyncWrite(a)
  <2>1. /\ Applies(req[a].item, req[a].row, req[a].seen) /\ Done(a)
        /\ UNCHANGED <<stream, worker, faults>>
    BY <1>5 DEF SyncWrite
  <2>2. UNCHANGED ops
    BY <2>1 DEF Applies
  <2>3. RowsTyped' /\ RestTyped' /\ PostsTyped'
    BY <1>3, <2>1, AppliesTyped
  <2>4. RequestsTyped' /\ HandlersTyped'
    BY <2>1, <2>2, RequestEnds, HandlersStay, Counts
  <2> QED BY <2>1, <2>3, <2>4
<1> QED BY <1>4, <1>5

-----------------------------------------------------------------------------
\* The consumer. A handler that goes to the next item of its run, or to sleep.
LEMMA RestOk ==
  ASSUME HandlersTyped, NEW w \in Workers, worker[w].pc # "idle", NEW d
  PROVE /\ Rest(w) \in Handlers \cup {Asleep}
        /\ Rest(w) # Asleep => Handles(Rest(w), d) /\ HandlerInBounds(Rest(w), ops)
<1> DEFINE h == [Asleep EXCEPT !.pc = "next", !.todo = worker[w].todo]
<1>1. /\ worker[w].todo \in SUBSET [item : Items, row : ItemRows]
      /\ Handles(worker[w], DOMAIN stream) /\ HandlerInBounds(worker[w], ops)
  BY AtWork DEF Handlers
<1>2. h \in Handlers /\ h.todo = worker[w].todo /\ h.pc = "next"
  BY <1>1 DEF Handlers, Asleep, PostStates
<1>3. h = [Asleep EXCEPT !.pc = "next", !.todo = h.todo]
  BY <1>2
<1>4. Handles(h, d) /\ HandlerInBounds(h, ops)
  <2> HIDE DEF h
  <2> QED BY <1>1, <1>2, <1>3 DEF Handles, HandlerInBounds
<1>5. Rest(w) \in {h, Asleep}
  BY DEF Rest
<1> HIDE DEF h
<1> QED BY <1>2, <1>4, <1>5

\* The message a handler is at is in the stream.
LEMMA MessageThere ==
  ASSUME HandlersTyped, NEW w \in Workers, worker[w].pc # "idle", ~InRun(w)
  PROVE worker[w].msg \in DOMAIN stream /\ worker[w].pc \in {"ask", "apply"}
<1>1. worker[w] \in Handlers /\ Handles(worker[w], DOMAIN stream)
  BY AtWork
<1>2. worker[w].pc # "next"
  <2> SUFFICES ASSUME worker[w].pc = "next" PROVE worker[w].msg = 0
    BY DEF InRun
  <2> QED BY <1>1 DEF Handles, Asleep
<1>3. worker[w].pc \in {"ask", "apply"}
  BY <1>1, <1>2 DEF Handlers
<1> QED BY <1>1, <1>3 DEF Handles, InRun

LEMMA FinishTyped ==
  ASSUME HandlersTyped, RestTyped, stream \in Seq(Letters), NEW w \in Workers,
         worker[w].pc # "idle", Finish(w), UNCHANGED ops
  PROVE HandlersTyped' /\ stream' \in Seq(Letters)
<1>1. UNCHANGED stream \/ (worker[w].msg \in DOMAIN stream /\ Ack(worker[w].msg))
  BY MessageThere DEF Finish
<1>2. stream' \in Seq(Letters) /\ DOMAIN stream' = DOMAIN stream
  BY <1>1, StreamMoves
<1>3. worker' = [worker EXCEPT ![w] = Rest(w)]
  BY DEF Finish
<1> QED BY <1>2, <1>3, RestOk, HandlerPut

LEMMA ReceiveTyped ==
  ASSUME TypeInv, NEW w \in Workers, NEW k \in DOMAIN stream, Receive(w, k)
  PROVE TypeInv'
<1> USE DEF TypeInv
<1>1. /\ UNCHANGED rows /\ UNCHANGED posts /\ UNCHANGED history
      /\ UNCHANGED <<presence, req, ops, faults>>
  BY DEF Receive
<1>2. stream[k] \in Letters
  OBVIOUS
<1>3. stream' \in Seq(Letters) /\ DOMAIN stream' = DOMAIN stream
  <2>1. CASE Deliver(k)
    BY <2>1, StreamMoves
  <2>2. CASE stream' = [stream EXCEPT ![k].state = "acked", ![k].tries = @ + 1]
    <3> DEFINE e == [stream[k] EXCEPT !.state = "acked", !.tries = stream[k].tries + 1]
    <3>1. stream[k].tries + 1 \in Nat
      BY <1>2 DEF Letters
    <3>2. e \in Letters
      BY <1>2, <3>1 DEF Letters, LetterStates
    <3>3. stream' = [stream EXCEPT ![k] = e]
      BY <2>2
    <3> HIDE DEF e
    <3> QED BY <3>2, <3>3, StreamPut
  <2> QED BY <2>1, <2>2 DEF Receive
<1>4. HandlersTyped'
  <2>1. CASE UNCHANGED worker
    BY <1>1, <1>3, <2>1, HandlersStay, Counts
  <2>2. CASE \E i \in ItemsOf(stream[k].msg.post) :
               worker' = [worker EXCEPT ![w] =
                 [Asleep EXCEPT !.pc = "ask", !.msg = k, !.item = i, !.row = item[i]]]
    <3>1. PICK i \in ItemsOf(stream[k].msg.post) :
               worker' = [worker EXCEPT ![w] =
                 [Asleep EXCEPT !.pc = "ask", !.msg = k, !.item = i, !.row = item[i]]]
      BY <2>2
    <3> DEFINE h == [Asleep EXCEPT !.pc = "ask", !.msg = k, !.item = i, !.row = item[i]]
    <3>2. /\ i \in Items /\ item[i] \in ItemRows /\ item[i].version <= ops + 1
          /\ item[i].post \in Posts
      BY <1>2 DEF ItemsOf, RowsTyped, Letters
    <3>3. k \in Nat
      OBVIOUS
    <3>4. /\ h \in Handlers /\ h.pc = "ask" /\ h.todo = {} /\ h.msg = k
          /\ h.item = i /\ h.row = item[i]
      BY <3>2, <3>3 DEF Handlers, Asleep, PostStates
    <3>5. Handles(h, DOMAIN stream') /\ HandlerInBounds(h, ops)
      <4> HIDE DEF h
      <4> QED BY <1>3, <3>2, <3>4 DEF Handles, HandlerInBounds
    <3> HIDE DEF h
    <3> QED BY <1>1, <1>3, <3>1, <3>4, <3>5, HandlerPut DEF h
  <2> QED BY <2>1, <2>2 DEF Receive
<1>5. RowsTyped' /\ RequestsTyped' /\ PostsTyped' /\ RestTyped'
  BY <1>1, RowsStay, RequestsStay, Counts DEF rows, posts, history, PostsTyped, RestTyped
<1> QED BY <1>3, <1>4, <1>5

LEMMA StartRunTyped ==
  ASSUME TypeInv, NEW w \in Workers, StartRun(w)
  PROVE TypeInv'
<1> USE DEF TypeInv
<1>1. /\ UNCHANGED rows /\ UNCHANGED posts /\ UNCHANGED history
      /\ UNCHANGED <<presence, stream, req, ops, faults>>
  BY DEF StartRun
<1>2. PICK b \in DueLists \ {{}} :
        worker' = [worker EXCEPT ![w] = [Asleep EXCEPT !.pc = "next",
                     !.todo = {[item |-> i, row |-> item[i]] : i \in b}]]
  BY DEF StartRun
<1> DEFINE t == {[item |-> i, row |-> item[i]] : i \in b}
           h == [Asleep EXCEPT !.pc = "next", !.todo = t]
<1>3. \A i \in b : i \in Items /\ item[i].post # NoPost
  BY DEF DueLists
<1>4. \A x \in t : /\ x \in [item : Items, row : ItemRows] /\ x.row.post \in Posts
                   /\ x.row.version <= ops + 1
  BY <1>3 DEF RowsTyped, ItemRows
<1>5. h \in Handlers /\ h.todo = t /\ h.pc = "next"
  <2> HIDE DEF t
  <2> QED BY <1>4 DEF Handlers, Asleep, PostStates
<1>6. Handles(h, DOMAIN stream') /\ HandlerInBounds(h, ops)
  <2>1. h = [Asleep EXCEPT !.pc = "next", !.todo = h.todo]
    BY <1>5
  <2> HIDE DEF h, t
  <2> QED BY <1>4, <1>5, <2>1 DEF Handles, HandlerInBounds
<1>7. HandlersTyped'
  <2>1. worker' = [worker EXCEPT ![w] = h]
    BY <1>2
  <2> HIDE DEF h
  <2> QED BY <1>1, <1>5, <1>6, <2>1, HandlerPut
<1>8. RowsTyped' /\ RequestsTyped' /\ PostsTyped' /\ RestTyped'
  BY <1>1, RowsStay, RequestsStay, Counts DEF rows, posts, history, PostsTyped, RestTyped
<1> QED BY <1>1, <1>7, <1>8

LEMMA NextItemTyped ==
  ASSUME TypeInv, NEW w \in Workers, NextItem(w)
  PROVE TypeInv'
<1> USE DEF TypeInv
<1>1. /\ UNCHANGED rows /\ UNCHANGED posts /\ UNCHANGED history
      /\ UNCHANGED <<presence, stream, req, ops, faults>>
      /\ worker[w].pc = "next"
  BY DEF NextItem, WorkerAt
<1>2. /\ worker[w] \in Handlers /\ Handles(worker[w], DOMAIN stream)
      /\ HandlerInBounds(worker[w], ops)
  BY <1>1, AtWork
<1>3. worker[w] = [Asleep EXCEPT !.pc = "next", !.todo = worker[w].todo]
  BY <1>1, <1>2 DEF Handles
<1> DEFINE rest(x) == [worker[w] EXCEPT !.todo = worker[w].todo \ {x}]
           ask(x)  == [rest(x) EXCEPT !.pc = "ask", !.item = x.item, !.row = x.row]
<1>4. PICK x \in worker[w].todo :
        \E h \in {rest(x), ask(x), Asleep} : worker' = [worker EXCEPT ![w] = h]
  BY DEF NextItem
<1>5. /\ worker[w].todo \ {x} \in SUBSET [item : Items, row : ItemRows]
      /\ x.item \in Items /\ x.row \in ItemRows /\ x.row.post \in Posts
      /\ x.row.version <= ops + 1
      /\ \A y \in worker[w].todo \ {x} : y.row.post \in Posts /\ y.row.version <= ops + 1
  BY <1>2 DEF Handlers, Handles, HandlerInBounds
<1>6. rest(x) \in Handlers /\ Handles(rest(x), DOMAIN stream) /\ HandlerInBounds(rest(x), ops)
  <2>1. /\ rest(x) \in Handlers /\ rest(x).todo = worker[w].todo \ {x} /\ rest(x).pc = "next"
        /\ rest(x) = [Asleep EXCEPT !.pc = "next", !.todo = rest(x).todo]
    BY <1>1, <1>2, <1>3, <1>5 DEF Handlers, Asleep
  <2> HIDE DEF rest
  <2> QED BY <1>5, <2>1 DEF Handles, HandlerInBounds
<1>7. ask(x) \in Handlers /\ Handles(ask(x), DOMAIN stream) /\ HandlerInBounds(ask(x), ops)
  <2>1. /\ ask(x) \in Handlers /\ ask(x).todo = worker[w].todo \ {x} /\ ask(x).pc = "ask"
        /\ ask(x).item = x.item /\ ask(x).row = x.row /\ ask(x).msg = 0
    <3>1. worker[w].msg = 0
      BY <1>3 DEF Asleep
    <3> QED BY <1>2, <1>5, <3>1 DEF Handlers
  <2> HIDE DEF ask
  <2> QED BY <1>5, <2>1 DEF Handles, HandlerInBounds
<1>8. HandlersTyped'
  <2>1. PICK h \in {rest(x), ask(x), Asleep} : worker' = [worker EXCEPT ![w] = h]
    BY <1>4
  <2>2. /\ h \in Handlers \cup {Asleep}
        /\ h # Asleep => Handles(h, DOMAIN stream) /\ HandlerInBounds(h, ops)
    <3> HIDE DEF rest, ask
    <3> QED BY <1>6, <1>7
  <2> QED BY <1>1, <2>1, <2>2, HandlerPut
<1>9. RowsTyped' /\ RequestsTyped' /\ PostsTyped' /\ RestTyped'
  BY <1>1, RowsStay, RequestsStay, Counts DEF rows, posts, history, PostsTyped, RestTyped
<1> QED BY <1>1, <1>8, <1>9

\* A handler that asked, whatever it was told.
LEMMA ToldTyped ==
  ASSUME TypeInv, NEW w \in Workers, NEW found \in BOOLEAN, worker[w].pc = "ask",
         Told(w, found), Fault \/ UNCHANGED faults
  PROVE TypeInv'
<1> USE DEF TypeInv
<1>1. /\ UNCHANGED rows /\ UNCHANGED posts /\ UNCHANGED history
      /\ UNCHANGED <<presence, req, ops>>
  BY DEF Told
<1>2. /\ worker[w] \in Handlers /\ Handles(worker[w], DOMAIN stream)
      /\ HandlerInBounds(worker[w], ops)
  BY AtWork
<1> DEFINE seen == IF found THEN post[worker[w].row.post] ELSE Message(w).status
           h == [worker[w] EXCEPT !.pc = "apply", !.seen = seen]
<1>3. HandlersTyped' /\ stream' \in Seq(Letters)
  <2>1. CASE Finish(w)
    BY <1>1, <2>1, FinishTyped
  <2>2. CASE /\ ~(InRun(w) /\ ~found) /\ UNCHANGED stream
             /\ worker' = [worker EXCEPT ![w].pc = "apply", ![w].seen = seen]
    <3>1. seen \in PostStates
      <4>1. CASE found
        BY <1>2, <4>1 DEF Handles, PostsTyped
      <4>2. CASE ~found
        <5>1. worker[w].msg \in DOMAIN stream
          BY <2>2, <4>2, MessageThere
        <5>2. stream[worker[w].msg] \in Letters
          BY <5>1
        <5> QED BY <4>2, <5>2 DEF Message, Letters, PostStates, Publishing!Statuses
      <4> QED BY <4>1, <4>2
    <3>2. worker' = [worker EXCEPT ![w] = h]
      BY <2>2 DEF HandlersTyped
    <3>3. /\ h \in Handlers /\ h.pc = "apply" /\ h.todo = worker[w].todo
          /\ h.item = worker[w].item /\ h.row = worker[w].row /\ h.msg = worker[w].msg
      <4> HIDE DEF seen
      <4> QED BY <1>2, <3>1 DEF Handlers
    <3>4. Handles(h, DOMAIN stream) /\ HandlerInBounds(h, ops)
      <4> HIDE DEF h
      <4> QED BY <1>2, <3>3 DEF Handles, HandlerInBounds
    <3> HIDE DEF h, seen
    <3> QED BY <1>1, <2>2, <3>2, <3>3, <3>4, HandlerPut
  <2> QED BY <2>1, <2>2 DEF Told
<1>4. faults' \in 0..MaxFaults
  BY FaultsCount DEF RestTyped
<1>5. RowsTyped' /\ RequestsTyped' /\ PostsTyped' /\ RestTyped'
  BY <1>1, <1>4, RowsStay, RequestsStay, Counts
    DEF rows, posts, history, PostsTyped, RestTyped
<1> QED BY <1>3, <1>5

LEMMA ApplyPostTyped ==
  ASSUME TypeInv, NEW w \in Workers, ApplyPost(w)
  PROVE TypeInv'
<1> USE DEF TypeInv
<1>1. worker[w].pc = "apply" /\ UNCHANGED <<req, faults>>
      /\ Applies(worker[w].item, worker[w].row, worker[w].seen) /\ Finish(w)
  BY DEF ApplyPost, WorkerAt
<1>2. UNCHANGED ops
  BY <1>1 DEF Applies
<1>3. worker[w].row \in ItemRows /\ worker[w].row.version <= ops + 1
  BY <1>1, AtWork DEF Handles, HandlerInBounds
<1>4. RowsTyped' /\ RestTyped' /\ PostsTyped'
  BY <1>1, <1>3, AppliesTyped
<1>5. HandlersTyped' /\ stream' \in Seq(Letters)
  BY <1>1, <1>2, FinishTyped
<1>6. RequestsTyped'
  BY <1>1, <1>2, RequestsStay, Counts
<1> QED BY <1>4, <1>5, <1>6

\* A handler fails, or its ack is late.
LEMMA FailureTyped ==
  ASSUME TypeInv, NEW w \in Workers, WorkerFails(w) \/ AckLate(w)
  PROVE TypeInv'
<1> USE DEF TypeInv
<1>1. /\ UNCHANGED rows /\ UNCHANGED posts /\ UNCHANGED history
      /\ UNCHANGED <<presence, req, ops>> /\ Fault /\ worker[w].pc # "idle"
      /\ worker' = [worker EXCEPT ![w] = Asleep] \/ UNCHANGED worker
  BY DEF WorkerFails, AckLate, WorkerAt
<1>2. UNCHANGED stream \/ (~InRun(w) /\ Return(worker[w].msg))
  BY DEF WorkerFails, AckLate
<1>3. stream' \in Seq(Letters) /\ DOMAIN stream' = DOMAIN stream
  BY <1>1, <1>2, MessageThere, StreamMoves
<1>4. HandlersTyped'
  <2>1. CASE UNCHANGED worker
    BY <1>1, <1>3, <2>1, HandlersStay, Counts
  <2>2. CASE worker' = [worker EXCEPT ![w] = Asleep]
    BY <1>1, <1>3, <2>2, HandlerPut
  <2> QED BY <1>1, <2>1, <2>2
<1>5. faults' \in 0..MaxFaults
  BY <1>1, FaultsCount
<1>6. RowsTyped' /\ RequestsTyped' /\ PostsTyped' /\ RestTyped'
  BY <1>1, <1>5, RowsStay, RequestsStay, Counts
    DEF rows, posts, history, PostsTyped, RestTyped
<1> QED BY <1>3, <1>4, <1>6

-----------------------------------------------------------------------------
\* Every request an actor makes is one Load knows.
LEMMA RequestLoads ==
  ASSUME TypeInv, NEW a \in Actors, Request(a)
  PROVE \E op \in Ops, i \in Items, to \in ItemStatuses, who \in Users \cup {NoUser} :
          Load(a, op, i, to, who)
BY ContentAssumption DEF Request, Targets, Assigned, ItemStatuses

LEMMA StepTyped ==
  ASSUME TypeInv, [Next]_vars
  PROVE TypeInv'
<1>1. CASE UNCHANGED vars
  <2>1. RowsTyped' /\ RequestsTyped' /\ HandlersTyped'
    BY <1>1, RowsStay, RequestsStay, HandlersStay, Counts DEF vars, TypeInv
  <2> QED BY <1>1, <2>1 DEF vars, TypeInv, PostsTyped, RestTyped
<1>2. ASSUME NEW a \in Actors, Request(a)
      PROVE TypeInv'
  BY <1>2, RequestLoads, LoadTyped
<1>3. ASSUME NEW a \in Actors, Write(a)
      PROVE TypeInv'
  BY <1>3, WriteTyped
<1>4. ASSUME NEW a \in Actors, ScheduleStep(a)
      PROVE TypeInv'
  BY <1>4, SavePostTyped, LinkPostTyped, CallPostTyped, CommitTyped
    DEF ScheduleStep, ApprovePost, SchedulePost
<1>5. ASSUME NEW a \in Actors, SyncRead(a) \/ SyncWrite(a)
      PROVE TypeInv'
  BY <1>5, SyncTyped
<1>6. ASSUME NEW a \in Actors, ScheduleEnds(a)
      PROVE TypeInv'
  BY <1>6, ScheduleEndsTyped
<1>7. ASSUME PublishingMoves
      PROVE TypeInv'
  BY <1>7, PublishingTyped
<1>8. ASSUME NEW w \in Workers, NEW k \in DOMAIN stream, Receive(w, k)
      PROVE TypeInv'
  BY <1>8, ReceiveTyped
<1>9. ASSUME NEW w \in Workers, StartRun(w) \/ NextItem(w)
      PROVE TypeInv'
  BY <1>9, StartRunTyped, NextItemTyped
<1>10. ASSUME NEW w \in Workers, AskPost(w)
       PROVE TypeInv'
  <2>1. PICK t \in Tokens(worker[w].row.by) :
          Told(w, t = "good" /\ PostExists(worker[w].row.post))
    BY <1>10 DEF AskPost
  <2>2. worker[w].pc = "ask" /\ UNCHANGED faults
    BY <1>10 DEF AskPost, WorkerAt
  <2>3. PICK found \in BOOLEAN : Told(w, found)
    BY <2>1, Zenon
  <2> QED BY <2>2, <2>3, ToldTyped
<1>11. ASSUME NEW w \in Workers, AskFails(w)
       PROVE TypeInv'
  <2>1. worker[w].pc = "ask" /\ Told(w, FALSE) /\ Fault
    BY <1>11 DEF AskFails, WorkerAt
  <2> QED BY <2>1, ToldTyped
<1>12. ASSUME NEW w \in Workers, ApplyPost(w)
       PROVE TypeInv'
  BY <1>12, ApplyPostTyped
<1>13. ASSUME NEW w \in Workers, WorkerFails(w) \/ AckLate(w)
       PROVE TypeInv'
  BY <1>13, FailureTyped
<1>14. ASSUME NEW u \in Users, Leave(u) \/ ForgetUser(u)
       PROVE TypeInv'
  BY <1>14, DepartureTyped
<1> QED BY <1>1, <1>2, <1>3, <1>4, <1>5, <1>6, <1>7, <1>8, <1>9, <1>10, <1>11, <1>12, <1>13,
           <1>14 DEF Next, Respond, WorkerStep

LEMMA TypesHold == TypeInv => TypeOK
BY DEF TypeInv, RowsTyped, PostsTyped, RequestsTyped, HandlersTyped, RestTyped, TypeOK

\* Whatever the number of people, items, posts and handlers, no sequence of
\* requests, calls, events and departures leads out of the types, of which the
\* standing of requests and handlers is part.
THEOREM Typing == Spec => []TypeOK
<1>1. Spec => []TypeInv
  BY InitTyped, StepTyped, PTL DEF Spec
<1> QED BY <1>1, TypesHold, PTL
=============================================================================
