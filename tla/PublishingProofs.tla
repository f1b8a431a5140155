-------------------------- MODULE PublishingProofs --------------------------
(***************************************************************************)
(* Proofs about Publishing, for every value of its constants.              *)
(***************************************************************************)
EXTENDS Publishing, TLAPS

USE DEF JobSteps

LEMMA InstantsType ==
  ASSUME NEW op PROVE Instants(op) \subseteq Times \cup {NoTime}
BY DEF Instants

LEMMA BatchesType ==
  ASSUME NEW t, NEW b \in DueBatches(t) PROVE b \subseteq Posts
BY DEF DueBatches

LEMMA OutcomeType ==
  ASSUME NEW outs, NEW max, NEW manual
  PROVE ResolvePostOutcome(outs, max, manual) \in {"PUBLISHED", "FAILED", "SCHEDULED"}
BY DEF ResolvePostOutcome

LEMMA RowsType ==
  ASSUME NEW rows \in [Accounts -> TargetRows \cup {NoRow}], NEW keep,
         NEW id \in 0..MaxOps
  PROVE RowsAfterSave(rows, keep, id) \in [Accounts -> TargetRows \cup {NoRow}]
<1> SUFFICES ASSUME NEW a \in Accounts
             PROVE IF a \notin keep THEN NoRow \in TargetRows \cup {NoRow}
                   ELSE IF rows[a] = NoRow THEN NewRow(id) \in TargetRows
                   ELSE [rows[a] EXCEPT !.status = "DRAFT"] \in TargetRows
  BY DEF RowsAfterSave
<1>1. NewRow(id) \in TargetRows
  BY DEF NewRow, TargetRows, Statuses
<1>2. ASSUME rows[a] # NoRow PROVE [rows[a] EXCEPT !.status = "DRAFT"] \in TargetRows
  BY <1>2 DEF TargetRows, Statuses
<1> QED BY <1>1, <1>2

LEMMA MoveType ==
  ASSUME TypeOK, NEW p \in Posts, NEW s \in Statuses, MoveTargets(p, s)
  PROVE target' \in [Posts -> [Accounts -> TargetRows \cup {NoRow}]]
<1> USE DEF TypeOK
<1>1. ASSUME NEW a \in Accounts, HasRow(p, a)
      PROVE [target[p][a] EXCEPT !.status = s] \in TargetRows
  <2>1. target[p][a] \in TargetRows
    BY <1>1 DEF HasRow
  <2> QED BY <2>1 DEF TargetRows
<1> QED BY <1>1 DEF MoveTargets, HasRow

LEMMA NotedType ==
  ASSUME TypeOK, NEW p \in Posts, NEW kinds \in SUBSET Incidents
  PROVE Noted(p, kinds) \in [Posts -> SUBSET Incidents]
BY DEF TypeOK, Noted

LEMMA IfType ==
  ASSUME NEW kind \in Incidents, NEW b PROVE If(kind, b) \in SUBSET Incidents
BY DEF If

LEMMA IdleType == Idle \in Flows
BY PublishingAssumption DEF Idle, Flows, Times, NoTime

LEMMA TypeInit == Init => TypeOK
<1> SUFFICES ASSUME Init PROVE TypeOK
  OBVIOUS
<1>1. /\ ops \in 0..MaxOps /\ faults \in 0..MaxFaults /\ now \in Times
      /\ NoReq \notin InFlight
  BY PublishingAssumption DEF Init, Times, InFlight, NoReq, Ops
<1>2. flow \in [Procs -> Flows]
  BY IdleType DEF Init
<1>3. \A q \in Procs : ~Publishes(q) /\ ~At(q, "record")
  BY DEF Init, Publishes, At, Idle
<1> QED BY <1>1, <1>2, <1>3 DEF Init, TypeOK, Statuses

LEMMA TypeLoad ==
  ASSUME TypeOK, NEW u \in Users, NEW op \in Menu, NEW p \in Posts,
         NEW at \in Instants(op), Load(u, op, p, at)
  PROVE TypeOK'
<1>1. [op |-> op, no |-> ops + 1, post |-> p, from |-> status[p], at |-> at,
       stale |-> FALSE] \in InFlight
  BY InstantsType, PublishingAssumption DEF TypeOK, Load, Exists, InFlight
<1>2. ops' \in 0..MaxOps
  BY PublishingAssumption DEF TypeOK, Load
<1> QED BY <1>1, <1>2 DEF TypeOK, Load, tables, history, At, Publishes, Job

LEMMA TypeCreate ==
  ASSUME TypeOK, NEW u \in Users, NEW p \in Posts, NEW keep \in SUBSET Accounts,
         NEW at \in Times \cup {NoTime}, Create(u, p, keep, at)
  PROVE TypeOK'
<1>1. ops + 1 \in 0..MaxOps
  BY PublishingAssumption DEF TypeOK, Create
<1>2. RowsAfterSave(target[p], keep, ops + 1) \in [Accounts -> TargetRows \cup {NoRow}]
  BY <1>1, RowsType DEF TypeOK
<1> QED BY <1>1, <1>2 DEF TypeOK, Create, history, Statuses, At, Publishes, Job

LEMMA TypeWrite ==
  ASSUME TypeOK, NEW u \in Users, Write(u)
  PROVE TypeOK'
<1> DEFINE p == req[u].post
<1> USE DEF TypeOK, At, Publishes, Job
<1>a. ASSUME req[u].op # "none" PROVE req[u] \in InFlight
  BY <1>a DEF NoReq
<1>b. ASSUME Done(u) PROVE req' \in [Users -> InFlight \cup {NoReq}]
  BY <1>b DEF Done
<1>c. ASSUME NEW s \in Statuses, p \in Posts, SetStatus(u, s)
      PROVE /\ status' \in [Posts -> Statuses \cup {"UNUSED", "DELETED"}]
            /\ target' \in [Posts -> [Accounts -> TargetRows \cup {NoRow}]]
            /\ req' \in [Users -> InFlight \cup {NoReq}]
            /\ incidents' \in [Posts -> SUBSET Incidents]
            /\ UNCHANGED <<author, now, live, flow, ops, faults, holder>>
  <2>1. target' \in [Posts -> [Accounts -> TargetRows \cup {NoRow}]]
    BY <1>c, MoveType DEF SetStatus
  <2>2. /\ If("clobbered", Clobbers(u, p)) \in SUBSET Incidents
        /\ If("overtaken", req[u].stale) \in SUBSET Incidents
    BY IfType DEF Incidents
  <2>3. Noted(p, If("clobbered", Clobbers(u, p)) \cup If("overtaken", req[u].stale))
          \in [Posts -> SUBSET Incidents]
    BY <1>c, <2>2, NotedType
  <2>4. incidents' \in [Posts -> SUBSET Incidents]
    BY <1>c, <2>3 DEF SetStatus
  <2> QED BY <1>c, <2>1, <2>4, <1>b DEF SetStatus
<1>1. CASE SubmitForReview(u)
  BY <1>a, <1>c, <1>1 DEF SubmitForReview, Writing, InFlight, Statuses
<1>2. CASE Approve(u)
  BY <1>a, <1>c, <1>2 DEF Approve, Writing, InFlight, Statuses
<1>3. CASE Reject(u)
  BY <1>a, <1>c, <1>3 DEF Reject, Writing, InFlight, Statuses
<1>4. CASE Schedule(u)
  BY <1>a, <1>c, <1>4 DEF Schedule, Writing, InFlight, Statuses
<1>5. CASE Unschedule(u)
  BY <1>a, <1>c, <1>5 DEF Unschedule, Writing, InFlight, Statuses
<1>6. CASE BackToDraft(u)
  BY <1>a, <1>c, <1>6 DEF BackToDraft, Writing, InFlight, Statuses
<1>7. CASE Reschedule(u)
  BY <1>a, <1>b, <1>7 DEF Reschedule, Writing, InFlight, history
<1>8. ASSUME NEW keep \in SUBSET Accounts, Save(u, keep) PROVE TypeOK'
  <2>1. req[u] \in InFlight /\ p \in Posts
    BY <1>a, <1>8 DEF Save, Writing, InFlight
  <2>2. StatusAfterEdit(req[u].from) \in Statuses
    BY <2>1 DEF StatusAfterEdit, InFlight, Statuses
  <2>3. RowsAfterSave(target[p], keep, req[u].no)
          \in [Accounts -> TargetRows \cup {NoRow}]
    BY <2>1, RowsType DEF InFlight
  <2>4. incidents' \in [Posts -> SUBSET Incidents]
    BY <1>8, <2>1, NotedType, IfType DEF Save, Incidents
  <2>5. req' \in [Users -> InFlight \cup {NoReq}]
    <3> DEFINE g(v) == IF v = u THEN NoReq
                       ELSE IF req[v].post = p THEN [req[v] EXCEPT !.stale = TRUE]
                       ELSE req[v]
    <3>1. \A v \in Users : g(v) \in InFlight \cup {NoReq}
      <4> SUFFICES ASSUME NEW v \in Users, v # u, req[v].post = p
                   PROVE [req[v] EXCEPT !.stale = TRUE] \in InFlight
        OBVIOUS
      <4>1. req[v] \in InFlight
        BY <2>1, PublishingAssumption DEF NoReq
      <4> QED BY <4>1 DEF InFlight
    <3>2. req' = [v \in Users |-> g(v)]
      BY <1>8 DEF Save
    <3> HIDE DEF g
    <3> QED BY <3>1, <3>2
  <2> QED BY <1>8, <2>1, <2>2, <2>3, <2>4, <2>5 DEF Save, InFlight
<1>9. CASE Delete(u)
  BY <1>9, <1>a, <1>b DEF Delete, Writing, InFlight, history
<1>10. CASE Gone(u)
  BY <1>10, <1>b DEF Gone, history, tables
<1> QED BY <1>1, <1>2, <1>3, <1>4, <1>5, <1>6, <1>7, <1>8, <1>9, <1>10 DEF Write

-----------------------------------------------------------------------------
FlowsTyped ==
  /\ flow \in [Procs -> Flows]
  /\ \A q \in Procs : /\ Publishes(q) => Job(q) \in Posts
                      /\ At(q, "record") => flow[q].row \in Rows

LEMMA EndJobType ==
  ASSUME TypeOK, NEW q \in Procs
  PROVE NextJob(q) \in Flows /\ NextJob(q).pc \in {"idle", "next"}
<1>1. [Idle EXCEPT !.pc = "next", !.todo = flow[q].todo] \in Flows
  BY IdleType DEF TypeOK, Flows, Idle
<1> QED BY <1>1, IdleType DEF NextJob, Idle

\* How a step of process q that replaces its flow by f keeps the flows typed.
LEMMA FlowStep ==
  ASSUME TypeOK, NEW q \in Procs, NEW f \in Flows,
         flow' = [flow EXCEPT ![q] = f],
         f.pc \in JobSteps => f.job \in Posts,
         f.pc = "record" => f.row \in Rows
  PROVE FlowsTyped'
BY DEF TypeOK, FlowsTyped, Publishes, At, Job

LEMMA ReleaseType ==
  ASSUME TypeOK, NEW q, NEW ps, Release(q, ps)
  PROVE holder' \in [Posts -> Procs \cup {NoProc}]
BY DEF TypeOK, Release

LEMMA TypeWork ==
  ASSUME TypeOK, NEW w \in Workers, \/ \E t \in 0..now : Tick(w, t)
                                    \/ Work(w)
  PROVE TypeOK'
<1> w \in Procs
  BY DEF Procs
<1>1. ASSUME NEW t \in 0..now, Tick(w, t) PROVE TypeOK'
  <2>1. PICK batch \in DueBatches(t) :
          flow' = [flow EXCEPT ![w] = [Idle EXCEPT !.pc = "claim", !.runAt = t, !.todo = batch]]
    BY <1>1 DEF Tick
  <2> DEFINE f == [Idle EXCEPT !.pc = "claim", !.runAt = t, !.todo = batch]
  <2>2. batch \subseteq Posts /\ t \in Times
    BY BatchesType, PublishingAssumption DEF Times, TypeOK
  <2>3. f \in Flows /\ f.pc = "claim"
    BY <2>2, IdleType DEF Flows, Idle
  <2> HIDE DEF f
  <2> QED BY <1>1, <2>1, <2>3, FlowStep DEF FlowsTyped, Tick, TypeOK, tables, history, f
<1>2. ASSUME NEW p \in Posts, ClaimDue(w, p) PROVE TypeOK'
  <2> DEFINE g == flow[w]
             f == [g EXCEPT !.todo = @ \ {p},
                            !.held = IF Due(p, g.runAt) THEN @ \cup {p} ELSE @,
                            !.pc = IF g.todo = {p} THEN "reread" ELSE @]
  <2>1. f \in Flows /\ f.pc \in {"claim", "reread"}
    <3>1. g \in Flows /\ g.pc = "claim"
      BY <1>2 DEF TypeOK, ClaimDue, At
    <3>2. CASE Due(p, g.runAt) /\ g.todo = {p}
      BY <3>1, <3>2 DEF Flows
    <3>3. CASE Due(p, g.runAt) /\ g.todo # {p}
      BY <3>1, <3>3 DEF Flows
    <3>4. CASE ~Due(p, g.runAt) /\ g.todo = {p}
      BY <3>1, <3>4 DEF Flows
    <3>5. CASE ~Due(p, g.runAt) /\ g.todo # {p}
      BY <3>1, <3>5 DEF Flows
    <3> QED BY <3>2, <3>3, <3>4, <3>5
  <2>2. flow' = [flow EXCEPT ![w] = f]
    BY <1>2 DEF ClaimDue
  <2>3. /\ status' \in [Posts -> Statuses \cup {"UNUSED", "DELETED"}]
        /\ holder' \in [Posts -> Procs \cup {NoProc}]
    BY <1>2 DEF ClaimDue, Claim, TypeOK, Statuses
  <2> HIDE DEF f
  <2> QED BY <1>2, <2>1, <2>2, <2>3, FlowStep DEF FlowsTyped, ClaimDue, TypeOK
<1>3. ASSUME NEW p \in Posts, StartJob(w, p) PROVE TypeOK'
  <2> DEFINE g == flow[w]
             f == [g EXCEPT !.pc = "load", !.job = p, !.todo = @ \ {p}]
  <2>0. g \in Flows
    BY DEF TypeOK
  <2>1. f \in Flows /\ f.pc = "load" /\ f.job = p
    BY <2>0 DEF Flows
  <2>2. flow' = [flow EXCEPT ![w] = f]
    BY <1>3 DEF StartJob, TypeOK, Flows
  <2> HIDE DEF f
  <2> QED BY <1>3, <2>1, <2>2, FlowStep DEF FlowsTyped, StartJob, TypeOK, tables, history
<1>4. ASSUME Reread(w) PROVE TypeOK'
  <2> DEFINE mine == {p \in flow[w].held : status[p] = "PUBLISHING"}
             f == IF mine = {} THEN Idle ELSE [Idle EXCEPT !.pc = "next", !.todo = mine]
  <2>1. f \in Flows /\ f.pc \in {"idle", "next"}
    BY IdleType DEF TypeOK, Flows, Idle
  <2>2. flow' = [flow EXCEPT ![w] = f]
    BY <1>4 DEF Reread
  <2>3. holder' \in [Posts -> Procs \cup {NoProc}]
    BY <1>4, ReleaseType DEF Reread
  <2> HIDE DEF f
  <2> QED BY <1>4, <2>1, <2>2, <2>3, FlowStep DEF FlowsTyped, Reread, TypeOK, tables
<1> QED BY <1>1, <1>2, <1>3, <1>4 DEF Work

LEMMA TypeClaim ==
  ASSUME TypeOK, NEW u \in Users, PublishNow(u) \/ ClaimLost(u)
  PROVE TypeOK'
<1> DEFINE p == req[u].post
           f == [Idle EXCEPT !.pc = "load", !.job = p]
<1> u \in Procs
  BY DEF Procs
<1>1. req' \in [Users -> InFlight \cup {NoReq}]
  BY DEF TypeOK, PublishNow, ClaimLost
<1>2. p \in Posts
  BY DEF TypeOK, PublishNow, ClaimLost, InFlight, NoReq
<1>3. f \in Flows /\ f.pc = "load" /\ f.job = p
  BY <1>2, IdleType DEF Flows, Idle
<1>4. CASE PublishNow(u)
  <2>1. flow' = [flow EXCEPT ![u] = f]
    BY <1>4 DEF PublishNow
  <2>2. /\ status' \in [Posts -> Statuses \cup {"UNUSED", "DELETED"}]
        /\ holder' \in [Posts -> Procs \cup {NoProc}]
    BY <1>2, <1>4 DEF PublishNow, Claim, TypeOK, Statuses
  <2> HIDE DEF f
  <2> QED BY <1>1, <1>2, <1>3, <1>4, <2>1, <2>2, FlowStep DEF FlowsTyped, PublishNow, TypeOK
<1>5. CASE ClaimLost(u)
  BY <1>1, <1>5 DEF ClaimLost, TypeOK, tables, history, At, Publishes, Job
<1> QED BY <1>4, <1>5

LEMMA TypePublishStep ==
  ASSUME TypeOK, NEW q \in Procs, PublishStep(q)
  PROVE TypeOK'
<1> DEFINE p == Job(q)
           g == flow[q]
<1>0. g \in Flows /\ (Publishes(q) => p \in Posts)
  BY DEF TypeOK
<1>1. ASSUME ReadPost(q) PROVE TypeOK'
  <2> DEFINE pending == {a \in Targets(p) : target[p][a].status # "PUBLISHED"}
             rows == {[acc |-> a, id |-> target[p][a].id,
                       attempts |-> target[p][a].attempts] : a \in pending}
             outs == {[status |-> "PUBLISHED", attempts |-> target[p][a].attempts] :
                        a \in Targets(p) \ pending}
             f == [g EXCEPT !.pc = "mark", !.rows = rows, !.outs = outs]
  <2>1. p \in Posts
    BY <1>0, <1>1 DEF ReadPost, At, Publishes
  <2>2. \A a \in Targets(p) : a \in Accounts /\ target[p][a] \in TargetRows
    BY <2>1 DEF TypeOK, Targets, HasRow
  <2>3. rows \in SUBSET Rows /\ outs \in SUBSET Outcomes
    BY <2>2 DEF Rows, Outcomes, TargetRows
  <2> HIDE DEF rows, outs
  <2>4. f \in Flows /\ f.pc = "mark" /\ f.job = p
    BY <1>0, <2>3 DEF Flows, Job
  <2>5. flow' = [flow EXCEPT ![q] = f]
    BY <1>1 DEF ReadPost, rows, outs, TypeOK, Flows
  <2> HIDE DEF f
  <2>9. FlowsTyped'
    BY <2>1, <2>4, <2>5, FlowStep
  <2> QED BY <1>1, <2>1, <2>4, <2>5, <2>9 DEF FlowsTyped, ReadPost, TypeOK, tables, history
<1>2. ASSUME MarkTargets(q) PROVE TypeOK'
  <2> DEFINE marked == {r.acc : r \in {x \in g.rows : RowStands(p, x)}}
             f == [g EXCEPT !.pc = IF g.rows = {} THEN "finish" ELSE "send"]
  <2>1. p \in Posts
    BY <1>0, <1>2 DEF MarkTargets, At, Publishes
  <2>2. f \in Flows /\ f.pc \in {"finish", "send"} /\ f.job = p
    BY <1>0 DEF Flows, Job
  <2>3. flow' = [flow EXCEPT ![q] = f]
    BY <1>2 DEF MarkTargets
  <2>4. \A a \in marked : target[p][a] # NoRow
    BY DEF RowStands, HasRow
  <2> HIDE DEF marked
  <2>5. \A a \in Accounts : (IF a \in marked THEN [target[p][a] EXCEPT !.status = "PUBLISHING"]
                             ELSE target[p][a]) \in TargetRows \cup {NoRow}
    <3> TAKE a \in Accounts
    <3>1. CASE a \in marked
      <4>1. target[p][a] \in TargetRows
        BY <2>1, <2>4, <3>1 DEF TypeOK
      <4> QED BY <3>1, <4>1 DEF TargetRows, Statuses
    <3>2. CASE a \notin marked
      BY <2>1, <3>2 DEF TypeOK
    <3> QED BY <3>1, <3>2
  <2>6. target' \in [Posts -> [Accounts -> TargetRows \cup {NoRow}]]
    <3>1. target' = [target EXCEPT ![p] = [a \in Accounts |->
             IF a \in marked THEN [target[p][a] EXCEPT !.status = "PUBLISHING"]
             ELSE target[p][a]]]
      BY <1>2, <2>1 DEF MarkTargets, marked, TypeOK
    <3> QED BY <2>1, <2>5, <3>1 DEF TypeOK
  <2> HIDE DEF f
  <2>9. FlowsTyped'
    BY <2>1, <2>2, <2>3, FlowStep
  <2> QED BY <1>2, <2>1, <2>2, <2>3, <2>6, <2>9 DEF FlowsTyped, MarkTargets, TypeOK, history
<1>3. ASSUME NEW r \in g.rows, NEW answer \in Answers, SendTarget(q, r, answer)
      PROVE TypeOK'
  <2> DEFINE f == [g EXCEPT !.pc = "record", !.rows = @ \ {r}, !.row = r,
                            !.ok = (answer = "ok")]
  <2>1. p \in Posts /\ r \in Rows
    BY <1>0, <1>3 DEF SendTarget, At, Publishes, Flows
  <2>2. f \in Flows /\ f.pc = "record" /\ f.job = p /\ f.row = r
    BY <1>0, <2>1 DEF Flows, Job
  <2>3. flow' = [flow EXCEPT ![q] = f]
    BY <1>3 DEF SendTarget, TypeOK, Flows
  <2>4. live' \in [Posts -> [Accounts -> Nat]]
    BY <1>3, <2>1 DEF SendTarget, TypeOK, Rows
  <2>5. incidents' \in [Posts -> SUBSET Incidents]
    BY <1>3, <2>1, NotedType, IfType DEF SendTarget, Incidents
  <2> HIDE DEF f
  <2>9. FlowsTyped'
    BY <2>1, <2>2, <2>3, FlowStep
  <2> QED BY <1>3, <2>1, <2>2, <2>3, <2>4, <2>5, <2>9 DEF FlowsTyped, SendTarget, TypeOK, tables, history
<1>4. ASSUME RecordTarget(q) PROVE TypeOK'
  <2> DEFINE r == g.row
             s == IF g.ok THEN "PUBLISHED" ELSE "FAILED"
             out == [status |-> s, attempts |-> r.attempts + 1]
             f == [g EXCEPT !.pc = IF g.rows = {} THEN "finish" ELSE "send",
                            !.row = NoRow, !.ok = FALSE, !.outs = @ \cup {out}]
  <2>1. p \in Posts /\ r \in Rows
    BY <1>0, <1>4 DEF RecordTarget, At, Publishes, TypeOK
  <2>2. out \in Outcomes /\ s \in Statuses /\ r.attempts + 1 \in Nat /\ r.acc \in Accounts
    BY <2>1 DEF Outcomes, Rows, Statuses
  <2> HIDE DEF out
  <2>3. f \in Flows /\ f.pc \in {"finish", "send"} /\ f.job = p
    BY <1>0, <2>2 DEF Flows, Job
  <2>4. flow' = [flow EXCEPT ![q] = f]
    BY <1>4 DEF RecordTarget, TypeOK, Flows, out
  <2>5. target' \in [Posts -> [Accounts -> TargetRows \cup {NoRow}]]
    <3>1. CASE RowStands(p, r)
      <4> DEFINE row == target[p][r.acc]
      <4>1. row \in TargetRows
        BY <2>1, <2>2, <3>1 DEF RowStands, HasRow, TypeOK
      <4>2. [row EXCEPT !.status = s, !.attempts = r.attempts + 1] \in TargetRows
        BY <4>1, <2>2 DEF TargetRows
      <4>3. target' = [target EXCEPT ![p] = [target[p] EXCEPT
                 ![r.acc] = [row EXCEPT !.status = s, !.attempts = r.attempts + 1]]]
        BY <1>4, <2>1, <2>2, <3>1, <4>1 DEF RecordTarget, TypeOK, TargetRows
      <4> QED BY <2>1, <2>2, <4>2, <4>3 DEF TypeOK
    <3>2. CASE ~RowStands(p, r)
      BY <1>4, <3>2 DEF RecordTarget, TypeOK
    <3> QED BY <3>1, <3>2
  <2> HIDE DEF f
  <2>9. FlowsTyped'
    BY <2>1, <2>3, <2>4, FlowStep
  <2> QED BY <1>4, <2>1, <2>3, <2>4, <2>5, <2>9 DEF FlowsTyped, RecordTarget, TypeOK, history
<1>5. ASSUME FinishPost(q) PROVE TypeOK'
  <2> DEFINE f == [g EXCEPT !.pc = "log"]
  <2>1. p \in Posts
    BY <1>0, <1>5 DEF FinishPost, At, Publishes
  <2>2. f \in Flows /\ f.pc = "log" /\ f.job = p
    BY <1>0 DEF Flows, Job
  <2>3. flow' = [flow EXCEPT ![q] = f]
    BY <1>5 DEF FinishPost
  <2>4. status' \in [Posts -> Statuses \cup {"UNUSED", "DELETED"}]
    BY <1>5, <2>1, OutcomeType DEF FinishPost, TypeOK, Statuses
  <2>5. incidents' \in [Posts -> SUBSET Incidents]
    BY <1>5, <2>1, NotedType, IfType DEF FinishPost, Incidents
  <2>6. holder' \in [Posts -> Procs \cup {NoProc}]
    BY <1>5, ReleaseType DEF FinishPost
  <2> HIDE DEF f
  <2>9. FlowsTyped'
    BY <2>1, <2>2, <2>3, FlowStep
  <2>10. UNCHANGED <<sched, author, approvedBy, target, now, live, req, ops,
                     faults, approvals, unseen>>
    BY <1>5 DEF FinishPost
  <2> QED BY <2>4, <2>5, <2>6, <2>9, <2>10 DEF FlowsTyped, TypeOK
<1>6. ASSUME LogOutcome(q) PROVE TypeOK'
  BY <1>6, EndJobType, FlowStep DEF FlowsTyped, LogOutcome, EndJob, TypeOK, tables, history
<1>7. ASSUME PostVanished(q) PROVE TypeOK'
  BY <1>7, EndJobType, FlowStep, ReleaseType DEF FlowsTyped, PostVanished, EndJob, TypeOK, tables
<1> QED BY <1>1, <1>2, <1>3, <1>4, <1>5, <1>6, <1>7 DEF PublishStep

LEMMA TypeFailure ==
  ASSUME TypeOK, Failure
  PROVE TypeOK'
<1>1. ASSUME NEW w \in Workers, NEW written \in BOOLEAN, MarkFailed(w, written)
      PROVE TypeOK'
  <2> w \in Procs
    BY DEF Procs
  <2>1. Job(w) \in Posts
    BY <1>1 DEF MarkFailed, TypeOK, Publishes
  <2>2. incidents' \in [Posts -> SUBSET Incidents]
    BY <1>1, <2>1, NotedType, IfType DEF MarkFailed, Incidents
  <2>3. status' \in [Posts -> Statuses \cup {"UNUSED", "DELETED"}]
    BY <1>1, <2>1 DEF MarkFailed, TypeOK, Statuses
  <2>4. faults' \in 0..MaxFaults
    BY <1>1, PublishingAssumption DEF MarkFailed, Fault, TypeOK
  <2> QED BY <1>1, <2>2, <2>3, <2>4, EndJobType, FlowStep, ReleaseType
          DEF FlowsTyped, MarkFailed, EndJob, TypeOK
<1>2. ASSUME NEW q \in Procs, Abandon(q) PROVE TypeOK'
  <2>1. incidents' \in [Posts -> SUBSET Incidents]
    BY <1>2, IfType DEF Abandon, Incidents, TypeOK, If
  <2>2. faults' \in 0..MaxFaults
    BY <1>2, PublishingAssumption DEF Abandon, Fault, TypeOK
  <2>3. req' \in [Users -> InFlight \cup {NoReq}]
    BY <1>2 DEF Abandon, TypeOK
  <2>4. Idle.pc = "idle"
    BY DEF Idle
  <2> QED BY <1>2, <2>1, <2>2, <2>3, <2>4, IdleType, FlowStep, ReleaseType
          DEF FlowsTyped, Abandon, TypeOK, tables
<1> QED BY <1>1, <1>2 DEF Failure

LEMMA TypeStep == TypeOK /\ [Next]_vars => TypeOK'
<1> SUFFICES ASSUME TypeOK, [Next]_vars PROVE TypeOK'
  OBVIOUS
<1>1. CASE Advance
  BY <1>1, PublishingAssumption
     DEF Advance, TypeOK, Times, tables, history, At, Publishes, Job
<1>2. ASSUME NEW u \in Users, Request(u) \/ Respond(u) PROVE TypeOK'
  BY <1>2, TypeLoad, TypeCreate, TypeWrite, TypeClaim DEF Request, Respond
<1>3. CASE UNCHANGED vars
  BY <1>3 DEF TypeOK, vars, At, Publishes, Job
<1> QED BY <1>1, <1>2, <1>3, TypeWork, TypePublishStep, TypeFailure DEF Next

\* Every variable keeps its type, and a flow that publishes has a post.
THEOREM Typing == Spec => []TypeOK
BY TypeInit, TypeStep, PTL DEF Spec

-----------------------------------------------------------------------------
(***************************************************************************)
(* Publishing implements ReviewGate, for every value of its constants:     *)
(* GateInv is inductive, and under it every step clears a post, shows a    *)
(* cleared one or leaves both alone.                                       *)
(***************************************************************************)

\* How a step keeps GateInv. Approvals stay and so does the author of a post
\* once inserted, so what was cleared stays cleared; a status past review is
\* given to cleared posts only; requests and flows satisfy their parts with
\* what was cleared before the step.
GateFrame ==
  /\ \A p \in Posts : /\ approvals[p] \subseteq approvals'[p]
                      /\ author'[p] = author[p] \/ status[p] = "UNUSED"
  /\ \A p \in Posts : status'[p] = "UNUSED" =>
                        status[p] = "UNUSED" /\ approvals'[p] = approvals[p]
  /\ \A p \in Posts : status'[p] # status[p] /\ status'[p] \in Reviewed => Cleared(p)'
  /\ \A u \in Users : RequestCleared(u, req'[u])
  /\ \A q \in Procs : FlowCleared(flow'[q])

LEMMA ClearedStays ==
  ASSUME TypeOK, GateInv, GateFrame, NEW p \in Posts, Cleared(p) PROVE Cleared(p)'
BY DEF GateInv, GateFrame, Cleared, Entitled

LEMMA FrameKeepsGate ==
  ASSUME TypeOK, TypeOK', GateInv, GateFrame PROVE GateInv'
<1>1. ASSUME NEW p \in Posts, status'[p] \in Reviewed PROVE Cleared(p)'
  BY <1>1, ClearedStays DEF GateInv, GateFrame
<1>2. ASSUME NEW p \in Posts, status'[p] = "UNUSED" PROVE approvals'[p] = {}
  BY <1>2 DEF GateInv, GateFrame
<1>3. ASSUME NEW u \in Users PROVE RequestCleared(u, req[u])'
  <2> DEFINE r == req'[u]
             Allowed(v, p) == Role[v] = "ADMIN" \/ (Role[v] = "MANAGER" /\ author'[p] # v)
  <2>1. CASE r.op = "none"
    BY <2>1 DEF RequestCleared
  <2>2. CASE r.op # "none"
    <3>0. r \in InFlight \cup {NoReq}
      BY DEF TypeOK
    <3>1. r.post \in Posts
      BY <2>2, <3>0 DEF InFlight, NoReq
    <3>2. /\ status[r.post] # "UNUSED"
          /\ r.op = "approve" => Entitled(u, r.post)
          /\ r.op \in {"schedule", "unschedule"} => Cleared(r.post)
          /\ r.op = "save" => r.from \in EditableStatuses
      BY <2>2 DEF GateFrame, RequestCleared
    <3> HIDE DEF r
    <3>3. /\ status'[r.post] # "UNUSED"
          /\ author'[r.post] = author[r.post]
          /\ approvals[r.post] \subseteq approvals'[r.post]
      BY <3>1, <3>2 DEF GateFrame
    <3>4. /\ r.op = "approve" => Allowed(u, r.post)
          /\ r.op \in {"schedule", "unschedule"} =>
               \E v \in approvals'[r.post] : Allowed(v, r.post)
      BY <3>2, <3>3 DEF Cleared, Entitled
    <3> QED BY <3>2, <3>3, <3>4 DEF RequestCleared, Entitled, Cleared, r
  <2> QED BY <2>1, <2>2
<1>4. ASSUME NEW q \in Procs PROVE FlowCleared(flow[q])'
  <2> DEFINE f == flow'[q]
  <2>1. /\ f.pc \in JobSteps => f.job \in Posts
        /\ f.todo \cup f.held \subseteq Posts
    BY DEF TypeOK, Flows, Publishes, Job
  <2>2. /\ f.pc \in JobSteps => Cleared(f.job)
        /\ \A p \in f.todo \cup f.held : Cleared(p)
    BY DEF GateFrame, FlowCleared
  <2>3. \A p \in Posts : Cleared(p) => \E v \in approvals'[p] :
          Role[v] = "ADMIN" \/ (Role[v] = "MANAGER" /\ author'[p] # v)
    BY DEF GateInv, GateFrame, Cleared, Entitled
  <2> HIDE DEF f
  <2>4. f.pc \in JobSteps => \E v \in approvals'[f.job] :
          Role[v] = "ADMIN" \/ (Role[v] = "MANAGER" /\ author'[f.job] # v)
    BY <2>1, <2>2, <2>3
  <2>5. \A p \in f.todo \cup f.held : \E v \in approvals'[p] :
          Role[v] = "ADMIN" \/ (Role[v] = "MANAGER" /\ author'[p] # v)
    BY <2>1, <2>2, <2>3
  <2> QED BY <2>4, <2>5 DEF FlowCleared, Cleared, Entitled, f
<1> QED BY <1>1, <1>2, <1>3, <1>4 DEF GateInv

-----------------------------------------------------------------------------
\* Only an approved or a failed post may be scheduled by hand.
LEMMA SchedulableReviewed ==
  ASSUME NEW s \in Statuses, "SCHEDULED" \in Transitions[s]
  PROVE s \in {"APPROVED", "FAILED"}
<1>1. CASE s = "DRAFT"
  BY <1>1 DEF Transitions
<1>2. CASE s = "IN_REVIEW"
  BY <1>2 DEF Transitions
<1>3. CASE s = "SCHEDULED"
  BY <1>3 DEF Transitions
<1>4. CASE s = "REJECTED"
  BY <1>4 DEF Transitions
<1>5. CASE s \in {"PUBLISHING", "PUBLISHED"}
  BY <1>5 DEF Transitions
<1> QED BY <1>1, <1>2, <1>3, <1>4, <1>5 DEF Statuses

LEMMA RequestsStay ==
  ASSUME GateInv, \A u \in Users : req'[u] \in {req[u], NoReq}
  PROVE \A u \in Users : RequestCleared(u, req'[u])
BY DEF GateInv, RequestCleared, NoReq

LEMMA FlowsStay ==
  ASSUME TypeOK, GateInv, NEW q \in Procs, NEW f, FlowCleared(f),
         flow' = [flow EXCEPT ![q] = f]
  PROVE \A x \in Procs : FlowCleared(flow'[x])
BY DEF TypeOK, GateInv

LEMMA GateInit == Init => GateInv
<1> SUFFICES ASSUME Init PROVE GateInv
  OBVIOUS
<1>1. \A p \in Posts : status[p] = "UNUSED" /\ approvals[p] = {}
  BY DEF Init
<1>2. \A u \in Users : RequestCleared(u, req[u])
  BY DEF Init, RequestCleared, NoReq
<1>3. \A q \in Procs : FlowCleared(flow[q])
  BY DEF Init, FlowCleared, Idle, JobSteps
<1> QED BY <1>1, <1>2, <1>3 DEF GateInv, Reviewed

LEMMA FrameLoad ==
  ASSUME TypeOK, GateInv, NEW u \in Users, NEW op \in Menu, NEW p \in Posts,
         NEW at \in Instants(op), Load(u, op, p, at)
  PROVE GateFrame
<1> DEFINE r == [op |-> op, no |-> ops + 1, post |-> p, from |-> status[p],
                 at |-> at, stale |-> FALSE]
<1>1. status[p] \in Statuses /\ May(op, u, p, at) /\ Role[u] \in Roles
  BY PublishingAssumption DEF Load, Exists
<1>2. status[p] # "UNUSED"
  BY <1>1 DEF Statuses
<1>3. ASSUME op = "approve" PROVE Entitled(u, p)
  <2>1. CanTransition(status[p], "APPROVED", Role[u], IsAuthor(u, p))
    BY <1>1, <1>3 DEF May
  <2> QED BY <1>1, <2>1 DEF CanTransition, IsAuthor, Entitled, Roles
<1>4. ASSUME op = "schedule" PROVE Cleared(p)
  <2>1. "SCHEDULED" \in Transitions[status[p]]
    BY <1>1, <1>4 DEF May, CanTransition
  <2> QED BY <1>1, <2>1, SchedulableReviewed DEF GateInv, Reviewed
<1>5. ASSUME op = "unschedule" PROVE Cleared(p)
  <2>1. status[p] = "SCHEDULED"
    BY <1>1, <1>5 DEF May
  <2> QED BY <2>1 DEF GateInv, Reviewed
<1>6. ASSUME op = "save" PROVE status[p] \in EditableStatuses
  BY <1>1, <1>6 DEF May, CanEdit
<1>7. RequestCleared(u, r)
  BY <1>2, <1>3, <1>4, <1>5, <1>6 DEF RequestCleared
<1>8. req' = [req EXCEPT ![u] = r]
  BY DEF Load
<1> HIDE DEF r
<1>9. \A v \in Users : RequestCleared(v, req'[v])
  BY <1>7, <1>8 DEF TypeOK, GateInv
<1> QED BY <1>9 DEF Load, GateFrame, GateInv, tables, history

LEMMA FrameCreate ==
  ASSUME TypeOK, GateInv, NEW u \in Users, NEW p \in Posts, NEW keep, NEW at,
         Create(u, p, keep, at)
  PROVE GateFrame
BY DEF Create, GateFrame, GateInv, TypeOK, Reviewed

LEMMA FrameWrite ==
  ASSUME TypeOK, GateInv, NEW u \in Users, Write(u)
  PROVE GateFrame
<1> DEFINE r == req[u]
<1>1. r.op # "none"
  BY DEF Write, SubmitForReview, Approve, Reject, Schedule, Unschedule,
         Reschedule, BackToDraft, Save, Delete, Gone, Writing
<1>2. r \in InFlight /\ RequestCleared(u, r)
  BY <1>1 DEF TypeOK, InFlight, NoReq, GateInv
<1> PICK p \in Posts : p = req[u].post
  BY <1>2 DEF InFlight
<1>3. ASSUME Done(u) PROVE \A v \in Users : RequestCleared(v, req'[v])
  BY <1>3, RequestsStay DEF Done, TypeOK
<1>4. ASSUME UNCHANGED flow PROVE \A q \in Procs : FlowCleared(flow'[q])
  BY <1>4 DEF GateInv
<1>5. ASSUME NEW s \in Statuses, SetStatus(u, s), UNCHANGED approvals,
             s \in Reviewed => Cleared(p)
      PROVE GateFrame
  <2>1. /\ \A v \in Users : RequestCleared(v, req'[v])
        /\ \A q \in Procs : FlowCleared(flow'[q])
    BY <1>3, <1>4, <1>5 DEF SetStatus
  <2>2. status' = [status EXCEPT ![p] = s] /\ UNCHANGED <<author, approvals>>
    BY <1>5 DEF SetStatus
  <2>3. Cleared(p) => Cleared(p)'
    BY <2>2 DEF Cleared, Entitled
  <2> QED BY <1>2, <1>5, <2>1, <2>2, <2>3 DEF GateFrame, TypeOK, Statuses
<1>6. CASE SubmitForReview(u) \/ Reject(u) \/ BackToDraft(u)
  BY <1>5, <1>6 DEF SubmitForReview, Reject, BackToDraft, Reviewed, Statuses
<1>7. CASE Schedule(u) \/ Unschedule(u)
  BY <1>2, <1>5, <1>7
     DEF Schedule, Unschedule, Writing, RequestCleared, Statuses
<1>8. CASE Approve(u)
  <2>1. Entitled(u, p)
    BY <1>1, <1>2, <1>8 DEF Approve, Writing, RequestCleared
  <2>2. /\ \A v \in Users : RequestCleared(v, req'[v])
        /\ \A q \in Procs : FlowCleared(flow'[q])
    BY <1>3, <1>4, <1>8 DEF Approve, SetStatus
  <2>3. /\ approvals' = [approvals EXCEPT ![p] = @ \cup {u}]
        /\ status' = [status EXCEPT ![p] = "APPROVED"]
        /\ UNCHANGED author
    BY <1>8 DEF Approve, SetStatus
  <2>4. Cleared(p)'
    BY <1>2, <2>1, <2>3 DEF Cleared, Entitled, TypeOK
  <2> QED BY <1>2, <2>2, <2>3, <2>4 DEF GateFrame, TypeOK
<1>9. ASSUME NEW keep \in SUBSET Accounts, Save(u, keep) PROVE GateFrame
  <2>1. StatusAfterEdit(r.from) = "DRAFT"
    BY <1>1, <1>2, <1>9 DEF Save, Writing, RequestCleared, StatusAfterEdit
  <2>2. \A v \in Users : RequestCleared(v, req'[v])
    <3> TAKE v \in Users
    <3>1. CASE req'[v] \in {req[v], NoReq}
      BY <3>1 DEF GateInv, RequestCleared, NoReq
    <3>2. CASE req'[v] = [req[v] EXCEPT !.stale = TRUE] /\ req[v] \in InFlight
      BY <3>2 DEF GateInv, RequestCleared, InFlight
    <3>3. req[v] \in InFlight \cup {NoReq}
      BY DEF TypeOK
    <3>4. req'[v] = IF v = u THEN NoReq
                    ELSE IF req[v].post = p THEN [req[v] EXCEPT !.stale = TRUE] ELSE req[v]
      BY <1>9 DEF Save
    <3>5. req[v].post = p => req[v] \in InFlight
      BY <1>2, <3>3, PublishingAssumption DEF NoReq
    <3> QED BY <3>1, <3>2, <3>4, <3>5
  <2>3. status' = [status EXCEPT ![p] = "DRAFT"]
    BY <2>1, <1>9 DEF Save
  <2>4. UNCHANGED <<author, approvals, flow>>
    BY <1>9 DEF Save
  <2> QED BY <1>2, <1>4, <2>2, <2>3, <2>4 DEF GateFrame, TypeOK, Reviewed
<1>10. CASE Reschedule(u) \/ Gone(u)
  BY <1>3, <1>4, <1>10 DEF Reschedule, Gone, GateFrame, tables, history
<1>11. CASE Delete(u)
  BY <1>2, <1>3, <1>4, <1>11 DEF Delete, GateFrame, history, TypeOK, Reviewed
<1> QED BY <1>6, <1>7, <1>8, <1>9, <1>10, <1>11 DEF Write

-----------------------------------------------------------------------------
\* The publish flows. A step of q that changes neither author nor approvals,
\* answers no request and gives q the flow f.
LEMMA FrameFlow ==
  ASSUME TypeOK, GateInv, NEW q \in Procs, NEW f, FlowCleared(f),
         flow' = [flow EXCEPT ![q] = f],
         \A u \in Users : req'[u] \in {req[u], NoReq},
         UNCHANGED <<author, approvals>>,
         \A p \in Posts : status'[p] # status[p] =>
            status'[p] # "UNUSED" /\ (status'[p] \in Reviewed => Cleared(p))
  PROVE GateFrame
<1>1. /\ \A u \in Users : RequestCleared(u, req'[u])
      /\ \A x \in Procs : FlowCleared(flow'[x])
  BY RequestsStay, FlowsStay
<1>2. \A p \in Posts : Cleared(p) => Cleared(p)'
  BY DEF Cleared, Entitled
<1> QED BY <1>1, <1>2 DEF GateFrame

LEMMA EndJobCleared ==
  ASSUME GateInv, NEW q \in Procs PROVE FlowCleared(NextJob(q))
BY DEF GateInv, NextJob, FlowCleared, Idle, JobSteps

LEMMA FrameWork ==
  ASSUME TypeOK, GateInv, NEW w \in Workers, (\E t \in 0..now : Tick(w, t)) \/ Work(w)
  PROVE GateFrame
<1> w \in Procs
  BY DEF Procs
<1> DEFINE g == flow[w]
<1>0. g \in Flows /\ FlowCleared(g)
  BY DEF TypeOK, GateInv
<1>1. ASSUME NEW t \in 0..now, Tick(w, t) PROVE GateFrame
  <2>1. PICK batch \in DueBatches(t) :
          flow' = [flow EXCEPT ![w] = [Idle EXCEPT !.pc = "claim", !.runAt = t, !.todo = batch]]
    BY <1>1 DEF Tick
  <2> DEFINE f == [Idle EXCEPT !.pc = "claim", !.runAt = t, !.todo = batch]
  <2>2. \A p \in batch : p \in Posts /\ status[p] = "SCHEDULED"
    BY DEF DueBatches, Due
  <2>3. FlowCleared(f)
    BY <2>2 DEF GateInv, Reviewed, FlowCleared, Idle, JobSteps
  <2> HIDE DEF f
  <2>4. UNCHANGED <<req, author, approvals, status>>
    BY <1>1 DEF Tick, tables, history
  <2> QED BY <2>1, <2>3, <2>4, FrameFlow DEF f
<1>2. ASSUME NEW p \in Posts, ClaimDue(w, p) PROVE GateFrame
  <2> DEFINE won == Due(p, g.runAt)
             f == [g EXCEPT !.todo = @ \ {p},
                            !.held = IF won THEN @ \cup {p} ELSE @,
                            !.pc = IF g.todo = {p} THEN "reread" ELSE @]
  <2>1. Cleared(p) /\ g.pc = "claim"
    BY <1>0, <1>2 DEF ClaimDue, FlowCleared, At
  <2>2. /\ f.pc \in {"claim", "reread"}
        /\ f.todo \cup f.held \subseteq g.todo \cup g.held \cup {p}
    <3>1. /\ f.todo = g.todo \ {p}
          /\ f.held = IF won THEN g.held \cup {p} ELSE g.held
          /\ f.pc = IF g.todo = {p} THEN "reread" ELSE g.pc
      BY <1>0 DEF Flows
    <3> QED BY <2>1, <3>1
  <2>3. flow' = [flow EXCEPT ![w] = f]
    BY <1>2 DEF ClaimDue
  <2> HIDE DEF f
  <2>4. FlowCleared(f)
    BY <1>0, <2>1, <2>2 DEF FlowCleared, JobSteps
  <2>5. /\ status' = status \/ status' = [status EXCEPT ![p] = "PUBLISHING"]
        /\ UNCHANGED <<req, author, approvals>>
    BY <1>2 DEF ClaimDue, Claim
  <2> QED BY <2>1, <2>3, <2>4, <2>5, FrameFlow DEF TypeOK
<1>3. ASSUME NEW p \in Posts, StartJob(w, p) PROVE GateFrame
  <2> DEFINE f == [g EXCEPT !.pc = "load", !.job = p, !.todo = @ \ {p}]
  <2>1. f.job = p /\ f.todo = g.todo \ {p} /\ f.held = g.held /\ p \in g.todo
    BY <1>0, <1>3 DEF Flows, StartJob
  <2>2. flow' = [flow EXCEPT ![w] = f]
    BY <1>3 DEF StartJob, TypeOK, Flows
  <2> HIDE DEF f
  <2>3. FlowCleared(f)
    BY <1>0, <2>1 DEF FlowCleared
  <2>4. UNCHANGED <<req, author, approvals, status>>
    BY <1>3 DEF StartJob, tables, history
  <2> QED BY <2>2, <2>3, <2>4, FrameFlow
<1>4. ASSUME Reread(w) PROVE GateFrame
  <2> DEFINE mine == {p \in g.held : status[p] = "PUBLISHING"}
             f == IF mine = {} THEN Idle ELSE [Idle EXCEPT !.pc = "next", !.todo = mine]
  <2>1. FlowCleared(f)
    BY <1>0 DEF FlowCleared, Idle, JobSteps
  <2>2. flow' = [flow EXCEPT ![w] = f]
    BY <1>4 DEF Reread
  <2> HIDE DEF f
  <2>3. UNCHANGED <<req, author, approvals, status>>
    BY <1>4 DEF Reread, tables
  <2> QED BY <2>1, <2>2, <2>3, FrameFlow
<1> QED BY <1>1, <1>2, <1>3, <1>4 DEF Work

LEMMA FrameClaim ==
  ASSUME TypeOK, GateInv, NEW u \in Users, PublishNow(u) \/ ClaimLost(u)
  PROVE GateFrame
<1> u \in Procs
  BY DEF Procs
<1>1. req[u].post \in Posts
  BY DEF TypeOK, PublishNow, ClaimLost, InFlight, NoReq
<1> PICK p \in Posts : p = req[u].post
  BY <1>1
<1>2. CASE PublishNow(u)
  <2> DEFINE f == [Idle EXCEPT !.pc = "load", !.job = p]
  <2>1. Cleared(p)
    BY <1>2 DEF PublishNow, Claimable, GateInv, Reviewed
  <2>2. FlowCleared(f)
    BY <2>1 DEF FlowCleared, Idle
  <2>3. flow' = [flow EXCEPT ![u] = f]
    BY <1>2 DEF PublishNow
  <2> HIDE DEF f
  <2>4. /\ status' = [status EXCEPT ![p] = "PUBLISHING"]
        /\ req' = [req EXCEPT ![u] = NoReq]
        /\ UNCHANGED <<author, approvals>>
    BY <1>2 DEF PublishNow, Claim
  <2> QED BY <2>1, <2>2, <2>3, <2>4, FrameFlow DEF TypeOK
<1>3. CASE ClaimLost(u)
  <2>1. /\ req' = [req EXCEPT ![u] = NoReq]
        /\ UNCHANGED <<status, author, approvals, flow>>
    BY <1>3 DEF ClaimLost, tables, history
  <2>2. \A v \in Users : RequestCleared(v, req'[v])
    BY <2>1, RequestsStay DEF TypeOK
  <2> QED BY <2>1, <2>2 DEF GateFrame, GateInv
<1> QED BY <1>2, <1>3

LEMMA FramePublishStep ==
  ASSUME TypeOK, GateInv, NEW q \in Procs, PublishStep(q)
  PROVE GateFrame
<1> DEFINE g == flow[q]
<1>0. g \in Flows /\ FlowCleared(g) /\ (Publishes(q) => Job(q) \in Posts)
  BY DEF TypeOK, GateInv
<1>1. ASSUME NEW f, flow' = [flow EXCEPT ![q] = f], g.pc \in JobSteps,
             f.job = g.job, f.todo = g.todo, f.held = g.held,
             UNCHANGED <<status, req, author, approvals>>
      PROVE GateFrame
  <2>1. FlowCleared(f)
    BY <1>0, <1>1 DEF FlowCleared
  <2> QED BY <1>1, <2>1, FrameFlow
<1>2. CASE ReadPost(q)
  <2>1. PICK rows, outs :
          flow' = [flow EXCEPT ![q] = [g EXCEPT !.pc = "mark", !.rows = rows, !.outs = outs]]
    BY <1>2 DEF ReadPost, TypeOK, Flows
  <2> QED BY <1>0, <1>1, <1>2, <2>1 DEF ReadPost, At, Flows, tables, history, JobSteps
<1>3. CASE MarkTargets(q)
  <2>1. PICK pc : flow' = [flow EXCEPT ![q] = [g EXCEPT !.pc = pc]]
    BY <1>3 DEF MarkTargets
  <2> QED BY <1>0, <1>1, <1>3, <2>1 DEF MarkTargets, At, Flows, history, JobSteps
<1>4. ASSUME NEW r \in g.rows, NEW answer \in Answers, SendTarget(q, r, answer)
      PROVE GateFrame
  <2>1. flow' = [flow EXCEPT ![q] = [g EXCEPT !.pc = "record", !.rows = @ \ {r},
                                               !.row = r, !.ok = (answer = "ok")]]
    BY <1>4 DEF SendTarget, TypeOK, Flows
  <2> QED BY <1>0, <1>1, <1>4, <2>1 DEF SendTarget, At, Flows, tables, JobSteps
<1>5. CASE RecordTarget(q)
  <2> DEFINE out == [status |-> IF g.ok THEN "PUBLISHED" ELSE "FAILED",
                     attempts |-> g.row.attempts + 1]
  <2>1. flow' = [flow EXCEPT ![q] =
          [g EXCEPT !.pc = IF g.rows = {} THEN "finish" ELSE "send",
                    !.row = NoRow, !.ok = FALSE, !.outs = @ \cup {out}]]
    BY <1>5 DEF RecordTarget, TypeOK, Flows
  <2> HIDE DEF out
  <2> QED BY <1>0, <1>1, <1>5, <2>1 DEF RecordTarget, At, Flows, history, JobSteps
<1>6. CASE FinishPost(q)
  <2> DEFINE f == [g EXCEPT !.pc = "log"]
  <2>1. g.pc \in JobSteps /\ Job(q) \in Posts /\ Cleared(Job(q))
    BY <1>0, <1>6 DEF FinishPost, At, Publishes, Job, FlowCleared, JobSteps
  <2>2. f.job = g.job /\ f.todo = g.todo /\ f.held = g.held
    BY <1>0 DEF Flows
  <2>3. flow' = [flow EXCEPT ![q] = f]
    BY <1>6 DEF FinishPost
  <2> HIDE DEF f
  <2>4. FlowCleared(f)
    BY <1>0, <2>1, <2>2 DEF FlowCleared
  <2>5. PICK s \in {"PUBLISHED", "FAILED", "SCHEDULED"} :
          status' = [status EXCEPT ![Job(q)] = s]
    BY <1>6, OutcomeType DEF FinishPost
  <2>6. UNCHANGED <<req, author, approvals>>
    BY <1>6 DEF FinishPost
  <2> QED BY <2>1, <2>3, <2>4, <2>5, <2>6, FrameFlow DEF TypeOK
<1>7. CASE LogOutcome(q) \/ PostVanished(q)
  <2>1. /\ flow' = [flow EXCEPT ![q] = NextJob(q)]
        /\ UNCHANGED <<status, req, author, approvals>>
    BY <1>7 DEF LogOutcome, PostVanished, EndJob, tables, history
  <2> QED BY <2>1, EndJobCleared, FrameFlow
<1> QED BY <1>2, <1>3, <1>4, <1>5, <1>6, <1>7 DEF PublishStep

LEMMA FrameFailure ==
  ASSUME TypeOK, GateInv, Failure
  PROVE GateFrame
<1>1. ASSUME NEW w \in Workers, NEW written \in BOOLEAN, MarkFailed(w, written)
      PROVE GateFrame
  <2> w \in Procs
    BY DEF Procs
  <2>1. Job(w) \in Posts /\ Cleared(Job(w))
    BY <1>1 DEF MarkFailed, TypeOK, Publishes, Job, GateInv, FlowCleared, JobSteps
  <2>2. /\ flow' = [flow EXCEPT ![w] = NextJob(w)]
        /\ status' = status \/ status' = [status EXCEPT ![Job(w)] = "FAILED"]
        /\ UNCHANGED <<req, author, approvals>>
    BY <1>1 DEF MarkFailed, EndJob
  <2> QED BY <2>1, <2>2, EndJobCleared, FrameFlow DEF TypeOK
<1>2. ASSUME NEW q \in Procs, Abandon(q) PROVE GateFrame
  <2>1. /\ flow' = [flow EXCEPT ![q] = Idle]
        /\ UNCHANGED <<status, author, approvals>>
        /\ req' = req \/ (q \in Users /\ req' = [req EXCEPT ![q] = NoReq])
    BY <1>2 DEF Abandon, tables
  <2>2. FlowCleared(Idle)
    BY DEF FlowCleared, Idle, JobSteps
  <2> QED BY <2>1, <2>2, FrameFlow DEF TypeOK
<1> QED BY <1>1, <1>2 DEF Failure

LEMMA GateStep == TypeOK /\ GateInv /\ [Next]_vars => GateInv'
<1> SUFFICES ASSUME TypeOK, GateInv, [Next]_vars PROVE GateFrame
  BY TypeStep, FrameKeepsGate
<1>1. CASE Advance \/ UNCHANGED vars
  BY <1>1 DEF Advance, vars, tables, history, GateFrame, GateInv
<1>2. ASSUME NEW u \in Users, Request(u) \/ Respond(u) PROVE GateFrame
  BY <1>2, FrameLoad, FrameCreate, FrameWrite, FrameClaim DEF Request, Respond
<1> QED BY <1>1, <1>2, FrameWork, FramePublishStep, FrameFailure DEF Next

\* Every post in a status past review was approved by somebody entitled to, and
\* so was every post a request or a flow in flight is taking there.
THEOREM ReviewHolds == Spec => []GateInv
BY Typing, GateInit, GateStep, PTL DEF Spec

-----------------------------------------------------------------------------
\* Refinement: every step of Publishing is a step of ReviewGate or a stutter.
LEMMA GateMapsInit == Init => Gate!Init
BY DEF Init, Gate!Init, Cleared

LEMMA GateMapsStep ==
  TypeOK /\ GateInv /\ [Next]_vars => [Gate!Next]_(Gate!gateVars)
<1> SUFFICES ASSUME TypeOK, GateInv, [Next]_vars PROVE [Gate!Next]_(Gate!gateVars)
  OBVIOUS
<1> DEFINE cleared == {p \in Posts : Cleared(p)}
<1>1. ASSUME UNCHANGED <<live, author, approvals>> PROVE UNCHANGED Gate!gateVars
  BY <1>1 DEF Gate!gateVars, Cleared, Entitled
<1>2. ASSUME NEW u \in Users, Approve(u) PROVE [Gate!Next]_(Gate!gateVars)
  <2>1. req[u] \in InFlight /\ Entitled(u, req[u].post)
    BY <1>2 DEF TypeOK, GateInv, RequestCleared, Approve, Writing, NoReq
  <2> PICK p \in Posts : p = req[u].post
    BY <2>1 DEF InFlight
  <2>2. /\ approvals' = [approvals EXCEPT ![p] = @ \cup {u}]
        /\ UNCHANGED <<live, author>>
    BY <1>2 DEF Approve, SetStatus
  <2>3. \A x \in Posts : Cleared(x)' <=> Cleared(x) \/ x = p
    BY <2>1, <2>2 DEF Cleared, Entitled, TypeOK
  <2>4. Gate!Clear(p)
    BY <2>2, <2>3 DEF Gate!Clear
  <2> QED BY <2>4 DEF Gate!Next
<1>3. ASSUME NEW u \in Users, NEW p \in Posts, NEW keep, NEW at, Create(u, p, keep, at)
      PROVE UNCHANGED Gate!gateVars
  <2>1. UNCHANGED <<live, approvals>> /\ author' = [author EXCEPT ![p] = u]
    BY <1>3 DEF Create
  <2>2. approvals[p] = {}
    BY <1>3 DEF Create, GateInv
  <2>3. \A x \in Posts : Cleared(x)' <=> Cleared(x)
    BY <2>1, <2>2 DEF Cleared, Entitled, TypeOK
  <2> QED BY <2>1, <2>3 DEF Gate!gateVars
<1>4. ASSUME NEW q \in Procs, NEW r \in flow[q].rows, NEW answer \in Answers,
             SendTarget(q, r, answer)
      PROVE [Gate!Next]_(Gate!gateVars)
  <2>1. Job(q) \in Posts /\ Cleared(Job(q)) /\ r.acc \in Accounts
    BY <1>4 DEF SendTarget, At, TypeOK, Flows, Rows, Publishes, GateInv,
                FlowCleared, Job, JobSteps
  <2> PICK p \in Posts : p = Job(q)
    BY <2>1
  <2>2. UNCHANGED <<author, approvals>>
    BY <1>4 DEF SendTarget, tables
  <2>3. \A x \in Posts : Cleared(x)' <=> Cleared(x)
    BY <2>2 DEF Cleared, Entitled
  <2>4. CASE answer = "refused"
    <3>1. UNCHANGED live
      BY <1>4, <2>4 DEF SendTarget
    <3> QED BY <2>3, <3>1 DEF Gate!gateVars
  <2>5. CASE answer # "refused"
    <3>1. live' = [live EXCEPT ![p][r.acc] = @ + 1]
      BY <1>4, <2>5 DEF SendTarget
    <3>2. Gate!Show(p, r.acc)
      BY <2>1, <2>3, <3>1 DEF Gate!Show
    <3> QED BY <2>1, <3>2 DEF Gate!Next
  <2> QED BY <2>4, <2>5
<1>5. ASSUME NEW u \in Users, Request(u) \/ Respond(u)
      PROVE [Gate!Next]_(Gate!gateVars)
  <2>1. ASSUME NEW op \in Menu, NEW p \in Posts, NEW at \in Instants(op), Load(u, op, p, at)
        PROVE UNCHANGED <<live, author, approvals>>
    BY <2>1 DEF Load, tables, history
  <2>2. ASSUME NEW keep, Save(u, keep) PROVE UNCHANGED <<live, author, approvals>>
    BY <2>2 DEF Save
  <2>3. CASE Write(u) /\ ~Approve(u)
    BY <1>1, <2>2, <2>3
       DEF Write, SubmitForReview, Reject, Schedule, Unschedule, Reschedule,
           BackToDraft, SetStatus, Delete, Gone, tables, history
  <2>4. CASE PublishNow(u) \/ ClaimLost(u)
    BY <1>1, <2>4 DEF PublishNow, ClaimLost, tables, history
  <2> QED BY <1>1, <1>2, <1>3, <1>5, <2>1, <2>3, <2>4 DEF Request, Respond
<1>6. ASSUME NEW w \in Workers, (\E t \in 0..now : Tick(w, t)) \/ Work(w)
      PROVE UNCHANGED <<live, author, approvals>>
  BY <1>6 DEF Tick, Work, ClaimDue, StartJob, Reread, tables, history
<1>7. ASSUME NEW q \in Procs, PublishStep(q) PROVE [Gate!Next]_(Gate!gateVars)
  BY <1>1, <1>4, <1>7 DEF PublishStep, ReadPost, MarkTargets, RecordTarget,
                          FinishPost, LogOutcome, PostVanished, tables, history
<1>8. ASSUME Failure PROVE UNCHANGED <<live, author, approvals>>
  BY <1>8 DEF Failure, MarkFailed, Abandon, tables
<1>9. CASE Advance \/ UNCHANGED vars
  BY <1>1, <1>9 DEF Advance, vars, tables, history
<1> QED BY <1>1, <1>5, <1>6, <1>7, <1>8, <1>9 DEF Next

\* The publishing service keeps the promise of ReviewGate: whatever requests,
\* ticks, crashes and failing calls interleave, no post reaches an account
\* before somebody entitled to approved it.
THEOREM GateHolds == Spec => GateSpec
BY Typing, ReviewHolds, GateMapsInit, GateMapsStep, PTL
   DEF Spec, GateSpec, Gate!Spec

-----------------------------------------------------------------------------
(***************************************************************************)
(* The claims. ClaimInv needs to know of a flow, besides, that it holds    *)
(* posts only until it has read them again, and that the post it publishes *)
(* is not among those it has still to publish.                             *)
(***************************************************************************)
ShapeOf(f) ==
  /\ f.pc = "idle" => f = Idle
  /\ f.held # {} => f.pc \in {"claim", "reread"}
  /\ f.pc = "reread" => f.todo = {}
  /\ f.pc \in JobSteps => f.job \notin f.todo

ClaimIInv == ClaimInv /\ \A q \in Procs : ShapeOf(flow[q])

OwningSteps == {"load", "mark", "send", "record", "finish"}

\* q, in the flow f, believes that p is its to publish.
OwnsIn(q, f, p) ==
  \/ f.job = p /\ f.pc \in OwningSteps
  \/ q \in Workers /\ (p \in f.held \/ (f.pc # "claim" /\ p \in f.todo))

LEMMA OwnsBefore ==
  ASSUME NEW q \in Procs, NEW p PROVE Owns(q, p) <=> OwnsIn(q, flow[q], p)
BY DEF Owns, OwnsIn, Job, At, OwningSteps

LEMMA OwnsAfter ==
  ASSUME NEW q \in Procs, NEW p PROVE Owns(q, p)' <=> OwnsIn(q, flow'[q], p)
BY DEF Owns, OwnsIn, Job, At, OwningSteps

\* What a step that takes q to the flow f may do with the claim on p: leave it,
\* claim a post that is free, or give up the claim.
ClaimLeft(q, f, p) ==
  /\ holder'[p] = holder[p]
  /\ OwnsIn(q, f, p) <=> OwnsIn(q, flow[q], p)

ClaimTaken(q, f, p) ==
  /\ holder'[p] = q /\ OwnsIn(q, f, p)
  /\ status[p] \in Claimable /\ status'[p] = "PUBLISHING"

ClaimGivenUp(q, f, p) ==
  /\ holder'[p] = IF holder[p] = q THEN NoProc ELSE holder[p]
  /\ ~OwnsIn(q, f, p)
  /\ holder[p] = q => status'[p] # "PUBLISHING" \/ "orphaned" \in incidents'[p]

\* A status is written to a post without a claim, or clobbers the claim.
StatusWritten(p) ==
  \/ status'[p] \in {status[p], "DELETED"}
  \/ status'[p] # "PUBLISHING" /\ (holder'[p] = NoProc \/ "clobbered" \in incidents'[p])

ClaimFrame(q, f) ==
  /\ flow' = [flow EXCEPT ![q] = f]
  /\ ShapeOf(f)
  /\ \A u \in Users : /\ req'[u].op # "none" => req[u].op # "none" \/ flow[u].pc = "idle"
                      /\ u = q /\ req'[u].op # "none" => f.pc = "idle"
  /\ \A p \in Posts :
       /\ incidents[p] \subseteq incidents'[p]
       /\ \/ ClaimTaken(q, f, p)
          \/ (ClaimLeft(q, f, p) \/ ClaimGivenUp(q, f, p)) /\ StatusWritten(p)

LEMMA FrameKeepsClaim ==
  ASSUME TypeOK, TypeOK', ClaimIInv, NEW q \in Procs, NEW f, ClaimFrame(q, f)
  PROVE  ClaimIInv'
<1>0. /\ flow'[q] = f
      /\ \A x \in Procs : x # q => flow'[x] = flow[x]
  BY DEF ClaimFrame, TypeOK
<1>1. \A x \in Procs : ShapeOf(flow'[x])
  BY <1>0 DEF ClaimFrame, ClaimIInv
<1>2. \A x \in Procs : At(x, "idle")' => flow'[x] = Idle
  BY <1>1 DEF ShapeOf, At
<1>3. \A u \in Users : req'[u].op # "none" => At(u, "idle")'
  BY <1>0 DEF ClaimFrame, ClaimIInv, ClaimInv, At, Procs
<1>4. ASSUME NEW p \in Posts
      PROVE  /\ \A x \in Procs : holder'[p] = x => OwnsIn(x, flow'[x], p)
             /\ "clobbered" \notin incidents'[p] =>
                  /\ \A x \in Procs : OwnsIn(x, flow'[x], p) => holder'[p] = x
                  /\ holder'[p] # NoProc => status'[p] \in {"PUBLISHING", "DELETED"}
             /\ status'[p] = "PUBLISHING" /\ "orphaned" \notin incidents'[p]
                  => holder'[p] # NoProc
  <2>0. /\ \A x \in Procs : holder[p] = x => OwnsIn(x, flow[x], p)
        /\ "clobbered" \notin incidents[p] =>
             /\ \A x \in Procs : OwnsIn(x, flow[x], p) => holder[p] = x
             /\ holder[p] # NoProc => status[p] \in {"PUBLISHING", "DELETED"}
        /\ status[p] = "PUBLISHING" /\ "orphaned" \notin incidents[p]
             => holder[p] # NoProc
    BY OwnsBefore DEF ClaimIInv, ClaimInv
  <2>a. incidents[p] \subseteq incidents'[p] /\ NoProc \notin Procs /\ holder[p] \in Procs \cup {NoProc}
    BY PublishingAssumption DEF ClaimFrame, TypeOK
  <2>1. CASE ClaimTaken(q, f, p)
    BY <1>0, <2>0, <2>1, <2>a DEF ClaimTaken, Claimable
  <2>2. CASE ClaimLeft(q, f, p) /\ StatusWritten(p)
    BY <1>0, <2>0, <2>2, <2>a DEF ClaimLeft, StatusWritten
  <2>3. CASE ClaimGivenUp(q, f, p) /\ StatusWritten(p)
    BY <1>0, <2>0, <2>3, <2>a DEF ClaimGivenUp, StatusWritten
  <2> QED BY <2>1, <2>2, <2>3 DEF ClaimFrame
<1> QED BY <1>1, <1>2, <1>3, <1>4, OwnsAfter DEF ClaimIInv, ClaimInv

LEMMA ClaimInit == Init => ClaimIInv
<1> SUFFICES ASSUME Init PROVE ClaimIInv
  OBVIOUS
<1>1. \A q \in Procs : ShapeOf(flow[q])
  BY DEF Init, ShapeOf, Idle
<1>2. \A q \in Procs : \A p \in Posts : ~Owns(q, p) /\ At(q, "idle")
  BY PublishingAssumption DEF Init, Owns, Job, At, Idle
<1> QED BY <1>1, <1>2, PublishingAssumption DEF Init, ClaimIInv, ClaimInv, NoReq, Procs

\* Who has a request in flight publishes nothing.
LEMMA RequestIdle ==
  ASSUME TypeOK, ClaimIInv, NEW u \in Users, req[u].op # "none" \/ ~Busy(u), NEW p \in Posts
  PROVE  /\ flow[u] = Idle /\ u \in Procs /\ holder[p] # u
         /\ ~OwnsIn(u, flow[u], p)
<1>1. flow[u] = Idle
  BY DEF ClaimIInv, ClaimInv, At, Busy, Procs
<1>2. ~OwnsIn(u, Idle, p)
  BY PublishingAssumption DEF OwnsIn, Idle, OwningSteps
<1> QED BY <1>1, <1>2, OwnsBefore DEF ClaimIInv, ClaimInv, Procs

LEMMA RequestClaims ==
  ASSUME TypeOK, GateInv, ClaimIInv, NEW u \in Users, Request(u) \/ Write(u)
  PROVE  ClaimFrame(u, flow[u])
<1>1. u \in Procs /\ flow[u] \in Flows /\ ShapeOf(flow[u])
  BY DEF TypeOK, ClaimIInv, Procs
<1>2. ASSUME UNCHANGED <<flow, holder>>, ~Busy(u) \/ req[u].op # "none",
             \A v \in Users : req'[v].op # "none" => req[v].op # "none" \/ flow[v].pc = "idle",
             \A p \in Posts : incidents[p] \subseteq incidents'[p] /\ StatusWritten(p)
      PROVE  ClaimFrame(u, flow[u])
  <2>1. \A p \in Posts : ClaimLeft(u, flow[u], p)
    BY <1>2 DEF ClaimLeft
  <2>2. flow[u].pc = "idle"
    BY <1>1, <1>2 DEF ClaimIInv, ClaimInv, Busy, At
  <2> QED BY <1>1, <1>2, <2>1, <2>2 DEF ClaimFrame, TypeOK
<1>3. ASSUME Done(u)
      PROVE  \A v \in Users : req'[v].op # "none" => req[v].op # "none"
  BY <1>3 DEF Done, TypeOK, NoReq
<1>4. ASSUME NEW s \in Statuses, s # "PUBLISHING", SetStatus(u, s), req[u].op # "none"
      PROVE  ClaimFrame(u, flow[u])
  <2>1. req[u].post \in Posts
    BY <1>4 DEF TypeOK, InFlight, NoReq
  <2> PICK p \in Posts : p = req[u].post
    BY <2>1
  <2>2. holder[p] # u
    BY <1>4, RequestIdle
  <2>3. /\ status' = [status EXCEPT ![p] = s] /\ UNCHANGED <<flow, holder>>
        /\ incidents' = Noted(p, If("clobbered", Clobbers(u, p)) \cup If("overtaken", req[u].stale))
        /\ \A v \in Users : req'[v].op # "none" => req[v].op # "none"
    BY <1>3, <1>4 DEF SetStatus
  <2>4. \A x \in Posts : incidents[x] \subseteq incidents'[x] /\ StatusWritten(x)
    BY <1>4, <2>2, <2>3 DEF Noted, If, Clobbers, StatusWritten, TypeOK
  <2> QED BY <1>2, <1>4, <2>3, <2>4
<1>5. CASE \/ SubmitForReview(u) \/ Approve(u) \/ Reject(u) \/ Schedule(u) \/ Unschedule(u)
           \/ BackToDraft(u)
  BY <1>4, <1>5 DEF SubmitForReview, Approve, Reject, Schedule, Unschedule, BackToDraft,
                    Writing, Statuses
<1>6. ASSUME NEW keep, Save(u, keep) PROVE ClaimFrame(u, flow[u])
  <2>0. req[u].op = "save" /\ req[u] \in InFlight
    BY <1>6 DEF Save, Writing, TypeOK, NoReq
  <2> PICK p \in Posts : p = req[u].post
    BY <2>0 DEF InFlight
  <2>1. holder[p] # u
    BY <2>0, RequestIdle
  <2>2. StatusAfterEdit(req[u].from) = "DRAFT"
    BY <2>0 DEF GateInv, RequestCleared, StatusAfterEdit
  <2> DEFINE published == \E a \in Targets(p) : target[p][a].status = "PUBLISHED"
  <2>3. /\ status' = [status EXCEPT ![p] = "DRAFT"] /\ UNCHANGED <<flow, holder>>
        /\ incidents' = Noted(p, If("clobbered", Clobbers(u, p)) \cup If("reset", published))
    BY <1>6, <2>2 DEF Save
  <2> HIDE DEF published
  <2>4. \A v \in Users : req'[v].op # "none" => req[v].op # "none"
    <3> TAKE v \in Users
    <3>1. req'[v] = IF v = u THEN NoReq
                    ELSE IF req[v].post = p THEN [req[v] EXCEPT !.stale = TRUE] ELSE req[v]
      BY <1>6 DEF Save
    <3>2. req[v] \in InFlight \cup {NoReq}
      BY DEF TypeOK
    <3>3. [req[v] EXCEPT !.stale = TRUE].op = req[v].op
      BY <3>2 DEF InFlight, NoReq
    <3> QED BY <3>1, <3>3 DEF NoReq
  <2>5. \A x \in Posts : incidents[x] \subseteq incidents'[x] /\ StatusWritten(x)
    BY <2>1, <2>3 DEF Noted, If, Clobbers, StatusWritten, TypeOK
  <2> QED BY <1>2, <2>0, <2>3, <2>4, <2>5
<1>7. CASE Reschedule(u) \/ Delete(u) \/ Gone(u)
  <2>1. /\ UNCHANGED <<flow, holder, incidents>> /\ req[u].op # "none"
        /\ \A v \in Users : req'[v].op # "none" => req[v].op # "none"
        /\ status' = status \/ status' = [status EXCEPT ![req[u].post] = "DELETED"]
    BY <1>3, <1>7 DEF Reschedule, Delete, Gone, Writing, history, tables
  <2>2. \A x \in Posts : incidents[x] \subseteq incidents'[x] /\ StatusWritten(x)
    BY <2>1 DEF StatusWritten, TypeOK
  <2> QED BY <1>2, <2>1, <2>2
<1>8. ASSUME NEW op \in Menu, NEW p \in Posts, NEW at \in Instants(op), Load(u, op, p, at)
      PROVE  ClaimFrame(u, flow[u])
  <2>1. /\ UNCHANGED <<flow, holder, incidents, status>> /\ ~Busy(u)
        /\ \A v \in Users : v # u => req'[v] = req[v]
    BY <1>8 DEF Load, tables, history, TypeOK
  <2>2. flow[u].pc = "idle"
    BY <2>1 DEF Busy
  <2>3. \A x \in Posts : incidents[x] \subseteq incidents'[x] /\ StatusWritten(x)
    BY <2>1 DEF StatusWritten, TypeOK
  <2> QED BY <1>2, <2>1, <2>2, <2>3
<1>9. ASSUME NEW p \in Posts, NEW keep, NEW at, Create(u, p, keep, at)
      PROVE  ClaimFrame(u, flow[u])
  <2>1. /\ UNCHANGED <<flow, holder, incidents, req>> /\ ~Busy(u)
        /\ status[p] = "UNUSED" /\ status' = [status EXCEPT ![p] = "DRAFT"]
    BY <1>9 DEF Create
  <2>2. \A x \in Posts : incidents[x] \subseteq incidents'[x] /\ StatusWritten(x)
    BY <2>1 DEF StatusWritten, TypeOK, ClaimIInv, ClaimInv
  <2> QED BY <1>2, <2>1, <2>2
<1> QED BY <1>5, <1>6, <1>7, <1>8, <1>9 DEF Request, Write

LEMMA NowClaims ==
  ASSUME TypeOK, ClaimIInv, NEW u \in Users, PublishNow(u) \/ ClaimLost(u)
  PROVE  \E f : ClaimFrame(u, f)
<1>0. req[u].op = "publish"
  BY DEF PublishNow, ClaimLost
<1>1. u \in Procs /\ flow[u] = Idle /\ \A p \in Posts : ~OwnsIn(u, flow[u], p)
  BY <1>0, RequestIdle DEF Procs, TypeOK, InFlight, NoReq
<1>2. /\ \A v \in Users : req'[v].op # "none" => req[v].op # "none"
      /\ req'[u].op = "none" /\ UNCHANGED incidents
  <2>1. req' = [req EXCEPT ![u] = NoReq] /\ UNCHANGED incidents
    BY DEF PublishNow, ClaimLost, history
  <2> QED BY <2>1 DEF TypeOK, NoReq
<1>3. CASE PublishNow(u)
  <2> DEFINE f == [Idle EXCEPT !.pc = "load", !.job = req[u].post]
  <2> PICK p \in Posts : p = req[u].post
    BY <1>0 DEF TypeOK, InFlight, NoReq
  <2>1. ShapeOf(f) /\ \A x \in Posts : OwnsIn(u, f, x) <=> x = p
    BY DEF ShapeOf, Idle, OwnsIn, OwningSteps
  <2>2. flow' = [flow EXCEPT ![u] = f]
    BY <1>3 DEF PublishNow
  <2> HIDE DEF f
  <2>3. ClaimTaken(u, f, p)
    BY <1>3, <2>1 DEF PublishNow, Claim, ClaimTaken, TypeOK
  <2>4. \A x \in Posts : x # p => ClaimLeft(u, f, x) /\ StatusWritten(x)
    BY <1>1, <1>3, <2>1 DEF PublishNow, Claim, ClaimLeft, StatusWritten, TypeOK
  <2>5. ClaimFrame(u, f)
    BY <1>2, <2>1, <2>2, <2>3, <2>4 DEF ClaimFrame
  <2> QED BY <2>5
<1>4. CASE ClaimLost(u)
  <2>1. UNCHANGED <<flow, holder, status>>
    BY <1>4 DEF ClaimLost, tables, history
  <2>2. \A x \in Posts : ClaimLeft(u, flow[u], x) /\ StatusWritten(x)
    BY <2>1 DEF ClaimLeft, StatusWritten
  <2>3. ClaimFrame(u, flow[u])
    BY <1>1, <1>2, <2>1, <2>2 DEF ClaimFrame, ClaimIInv, TypeOK
  <2> QED BY <2>3
<1> QED BY <1>3, <1>4

LEMMA WorkClaims ==
  ASSUME TypeOK, ClaimIInv, NEW w \in Workers, (\E t \in 0..now : Tick(w, t)) \/ Work(w)
  PROVE  \E f : ClaimFrame(w, f)
<1> DEFINE g == flow[w]
<1>0. w \in Procs /\ g \in Flows /\ ShapeOf(g) /\ w \notin Users
  BY PublishingAssumption DEF TypeOK, ClaimIInv, Procs
<1>1. UNCHANGED <<req, incidents>>
  BY DEF Tick, Work, ClaimDue, StartJob, Reread, tables, history
<1>2. ASSUME NEW f, flow' = [flow EXCEPT ![w] = f], ShapeOf(f),
             \A p \in Posts : \/ ClaimTaken(w, f, p)
                              \/ (ClaimLeft(w, f, p) \/ ClaimGivenUp(w, f, p)) /\ StatusWritten(p)
      PROVE  ClaimFrame(w, f)
  BY <1>0, <1>1, <1>2 DEF ClaimFrame
<1>3. ASSUME NEW t \in 0..now, Tick(w, t) PROVE \E f : ClaimFrame(w, f)
  <2>1. PICK batch \in DueBatches(t) :
          flow' = [flow EXCEPT ![w] = [Idle EXCEPT !.pc = "claim", !.runAt = t, !.todo = batch]]
    BY <1>3 DEF Tick
  <2> DEFINE f == [Idle EXCEPT !.pc = "claim", !.runAt = t, !.todo = batch]
  <2>2. g = Idle /\ UNCHANGED <<status, holder>>
    BY <1>0, <1>3 DEF Tick, Busy, ShapeOf, tables, history
  <2>3. ShapeOf(f) /\ \A p \in Posts : ~OwnsIn(w, f, p) /\ ~OwnsIn(w, Idle, p)
    BY PublishingAssumption DEF ShapeOf, OwnsIn, Idle, OwningSteps
  <2> HIDE DEF f
  <2>4. \A p \in Posts : ClaimLeft(w, f, p) /\ StatusWritten(p)
    BY <2>2, <2>3 DEF ClaimLeft, StatusWritten
  <2> QED BY <1>2, <2>1, <2>3, <2>4 DEF f
<1>4. ASSUME NEW p \in Posts, ClaimDue(w, p) PROVE \E f : ClaimFrame(w, f)
  <2> DEFINE won == Due(p, g.runAt)
             f == [g EXCEPT !.todo = @ \ {p},
                            !.held = IF won THEN @ \cup {p} ELSE @,
                            !.pc = IF g.todo = {p} THEN "reread" ELSE @]
  <2>1. /\ f.todo = g.todo \ {p} /\ f.job = g.job
        /\ f.held = IF won THEN g.held \cup {p} ELSE g.held
        /\ f.pc = IF g.todo = {p} THEN "reread" ELSE "claim"
        /\ g.pc = "claim" /\ p \in g.todo
    BY <1>0, <1>4 DEF Flows, ClaimDue, At
  <2>2. flow' = [flow EXCEPT ![w] = f]
    BY <1>4 DEF ClaimDue
  <2>3. IF won THEN Claim(w, p) ELSE UNCHANGED <<status, holder>>
    BY <1>4 DEF ClaimDue
  <2> HIDE DEF f
  <2>4. ShapeOf(f)
    BY <2>1 DEF ShapeOf
  <2>5. \A x \in Posts : x # p \/ ~won => ClaimLeft(w, f, x) /\ StatusWritten(x)
    BY <2>1, <2>3 DEF Claim, ClaimLeft, StatusWritten, OwnsIn, OwningSteps, TypeOK
  <2>6. won => ClaimTaken(w, f, p)
    BY <1>0, <2>1, <2>3 DEF Claim, ClaimTaken, Claimable, OwnsIn, Due, TypeOK
  <2>7. \A x \in Posts : ClaimTaken(w, f, x) \/ (ClaimLeft(w, f, x) /\ StatusWritten(x))
    BY <2>5, <2>6
  <2>8. ClaimFrame(w, f)
    BY <1>0, <1>1, <2>2, <2>4, <2>7 DEF ClaimFrame
  <2> QED BY <2>8
<1>5. ASSUME NEW p \in Posts, StartJob(w, p) PROVE \E f : ClaimFrame(w, f)
  <2> DEFINE f == [g EXCEPT !.pc = "load", !.job = p, !.todo = @ \ {p}]
  <2>1. f.pc = "load" /\ f.job = p /\ f.todo = g.todo \ {p} /\ f.held = g.held
        /\ g.pc = "next" /\ p \in g.todo
    BY <1>0, <1>5 DEF Flows, StartJob, At
  <2>2. flow' = [flow EXCEPT ![w] = f] /\ UNCHANGED <<status, holder>>
    BY <1>5 DEF StartJob, TypeOK, Flows, tables, history
  <2> HIDE DEF f
  <2>3. ShapeOf(f)
    BY <1>0, <2>1 DEF ShapeOf
  <2>4. \A x \in Posts : ClaimLeft(w, f, x) /\ StatusWritten(x)
    BY <2>1, <2>2 DEF ClaimLeft, StatusWritten, OwnsIn, OwningSteps
  <2> QED BY <1>2, <2>2, <2>3, <2>4
<1>6. ASSUME Reread(w) PROVE \E f : ClaimFrame(w, f)
  <2> DEFINE mine == {p \in g.held : status[p] = "PUBLISHING"}
             f == IF mine = {} THEN Idle ELSE [Idle EXCEPT !.pc = "next", !.todo = mine]
  <2>1. /\ ShapeOf(f) /\ f.todo = mine /\ f.held = {} /\ f.pc \in {"idle", "next"}
        /\ f.job = NoPost
    BY DEF ShapeOf, Idle
  <2>2. flow' = [flow EXCEPT ![w] = f] /\ UNCHANGED status
        /\ holder' = [p \in Posts |-> IF p \in g.held \ mine /\ holder[p] = w THEN NoProc ELSE holder[p]]
    BY <1>6 DEF Reread, Release, tables
  <2> HIDE DEF f
  <2>3. g.pc = "reread" /\ g.todo = {}
    BY <1>0, <1>6 DEF Reread, At, ShapeOf
  <2>4. \A x \in Posts : StatusWritten(x)
    BY <2>2 DEF StatusWritten
  <2>5. \A x \in Posts : x \in g.held \ mine => ClaimGivenUp(w, f, x)
    BY <2>1, <2>2 DEF ClaimGivenUp, OwnsIn, OwningSteps
  <2>6. \A x \in Posts : x \notin g.held \ mine => ClaimLeft(w, f, x)
    BY <1>0, <2>1, <2>2, <2>3 DEF ClaimLeft, OwnsIn, OwningSteps
  <2> QED BY <1>2, <2>1, <2>2, <2>4, <2>5, <2>6
<1> QED BY <1>3, <1>4, <1>5, <1>6 DEF Work

\* What q goes on with after a post owns the rest of its batch, as before.
LEMMA NextJobOwns ==
  ASSUME TypeOK, NEW q \in Procs, ShapeOf(flow[q]), Publishes(q), NEW p \in Posts
  PROVE  /\ ShapeOf(NextJob(q)) /\ NextJob(q).pc \in {"idle", "next"}
         /\ OwnsIn(q, NextJob(q), p) <=> q \in Workers /\ p \in flow[q].todo
         /\ p # Job(q) => (OwnsIn(q, NextJob(q), p) <=> OwnsIn(q, flow[q], p))
         /\ p = Job(q) => ~OwnsIn(q, NextJob(q), p)
<1> DEFINE g == flow[q]  f == NextJob(q)
<1>1. /\ f.pc = IF g.todo = {} THEN "idle" ELSE "next"
      /\ f.todo = g.todo /\ f.held = {} /\ f.job = NoPost
      /\ g.todo = {} => f = Idle
  BY DEF NextJob, Idle
<1>2. g.held = {} /\ g.pc \in JobSteps /\ Job(q) \notin g.todo /\ Job(q) = g.job
  BY DEF ShapeOf, Publishes, Job
<1> HIDE DEF f
<1> QED BY <1>1, <1>2 DEF ShapeOf, OwnsIn, OwningSteps, f

LEMMA PublishClaims ==
  ASSUME TypeOK, ClaimIInv, NEW q \in Procs, PublishStep(q)
  PROVE  \E f : ClaimFrame(q, f)
<1> DEFINE g == flow[q]
<1>0. g \in Flows /\ ShapeOf(g)
  BY DEF TypeOK, ClaimIInv
<1>1. Publishes(q) /\ Job(q) \in Posts /\ UNCHANGED req
  BY DEF PublishStep, ReadPost, MarkTargets, RecordTarget, SendTarget, FinishPost, LogOutcome,
         PostVanished, At, Publishes, TypeOK
<1> PICK p \in Posts : p = Job(q)
  BY <1>1
<1>2. ASSUME NEW f, flow' = [flow EXCEPT ![q] = f], ShapeOf(f),
             \A x \in Posts : incidents[x] \subseteq incidents'[x] /\ StatusWritten(x),
             \A x \in Posts : ClaimLeft(q, f, x) \/ ClaimGivenUp(q, f, x)
      PROVE  ClaimFrame(q, f)
  <2>1. \A u \in Users : req'[u].op # "none" => flow[u].pc = "idle"
    BY <1>1 DEF ClaimIInv, ClaimInv, At
  <2>2. g.pc # "idle"
    BY <1>1 DEF Publishes
  <2> QED BY <1>1, <1>2, <2>1, <2>2 DEF ClaimFrame
<1>3. ASSUME NEW f, flow' = [flow EXCEPT ![q] = f], g.pc \in OwningSteps, f.pc \in OwningSteps,
             f.job = g.job, f.todo = g.todo, f.held = g.held, UNCHANGED <<status, holder>>,
             \A x \in Posts : incidents[x] \subseteq incidents'[x]
      PROVE  ClaimFrame(q, f)
  <2>1. ShapeOf(f)
    BY <1>0, <1>3 DEF ShapeOf, OwningSteps
  <2>2. \A x \in Posts : ClaimLeft(q, f, x) /\ StatusWritten(x)
    BY <1>3 DEF ClaimLeft, OwnsIn, StatusWritten, OwningSteps
  <2> QED BY <1>2, <1>3, <2>1, <2>2
<1>4. CASE ReadPost(q)
  <2>1. PICK rows, outs :
          flow' = [flow EXCEPT ![q] = [g EXCEPT !.pc = "mark", !.rows = rows, !.outs = outs]]
    BY <1>4 DEF ReadPost, TypeOK, Flows
  <2> QED BY <1>0, <1>3, <1>4, <2>1 DEF ReadPost, At, Flows, tables, history, OwningSteps
<1>5. CASE MarkTargets(q)
  <2>1. PICK pc \in {"finish", "send"} : flow' = [flow EXCEPT ![q] = [g EXCEPT !.pc = pc]]
    BY <1>5 DEF MarkTargets
  <2> QED BY <1>0, <1>3, <1>5, <2>1 DEF MarkTargets, At, Flows, history, OwningSteps
<1>6. ASSUME NEW r \in g.rows, NEW answer \in Answers, SendTarget(q, r, answer)
      PROVE  \E f : ClaimFrame(q, f)
  <2>1. flow' = [flow EXCEPT ![q] = [g EXCEPT !.pc = "record", !.rows = @ \ {r},
                                               !.row = r, !.ok = (answer = "ok")]]
    BY <1>6 DEF SendTarget, TypeOK, Flows
  <2>2. \A x \in Posts : incidents[x] \subseteq incidents'[x]
    BY <1>6 DEF SendTarget, Noted, TypeOK
  <2> QED BY <1>0, <1>3, <1>6, <2>1, <2>2 DEF SendTarget, At, Flows, tables, OwningSteps
<1>7. CASE RecordTarget(q)
  <2> DEFINE out == [status |-> IF g.ok THEN "PUBLISHED" ELSE "FAILED",
                     attempts |-> g.row.attempts + 1]
  <2>1. flow' = [flow EXCEPT ![q] =
          [g EXCEPT !.pc = IF g.rows = {} THEN "finish" ELSE "send",
                    !.row = NoRow, !.ok = FALSE, !.outs = @ \cup {out}]]
    BY <1>7 DEF RecordTarget, TypeOK, Flows
  <2> HIDE DEF out
  <2> QED BY <1>0, <1>3, <1>7, <2>1 DEF RecordTarget, At, Flows, history, OwningSteps
<1>8. CASE FinishPost(q)
  <2> DEFINE f == [g EXCEPT !.pc = "log"]
  <2>1. /\ f.pc = "log" /\ f.job = g.job /\ f.todo = g.todo /\ f.held = g.held
        /\ g.pc = "finish" /\ g.job = p
    BY <1>0, <1>8 DEF Flows, FinishPost, At, Job
  <2>2. flow' = [flow EXCEPT ![q] = f]
    BY <1>8 DEF FinishPost
  <2> HIDE DEF f
  <2>3. PICK s \in {"PUBLISHED", "FAILED", "SCHEDULED"} : status' = [status EXCEPT ![p] = s]
    BY <1>8, OutcomeType DEF FinishPost
  <2>4. /\ incidents' = Noted(p, If("clobbered", Clobbers(q, p)))
        /\ Release(q, {p})
    BY <1>8 DEF FinishPost
  <2>5. ShapeOf(f) /\ g.held = {} /\ p \notin g.todo
    BY <1>0, <2>1 DEF ShapeOf
  <2>6. \A x \in Posts : incidents[x] \subseteq incidents'[x] /\ StatusWritten(x)
    BY <2>3, <2>4 DEF StatusWritten, Noted, If, Clobbers, Release, TypeOK
  <2>7. \A x \in Posts : x # p => ClaimLeft(q, f, x)
    BY <2>1, <2>4, <2>5 DEF ClaimLeft, OwnsIn, OwningSteps, Release
  <2>8. ClaimGivenUp(q, f, p)
    BY <2>1, <2>3, <2>4, <2>5 DEF ClaimGivenUp, OwnsIn, OwningSteps, Release, TypeOK
  <2> QED BY <1>2, <2>2, <2>5, <2>6, <2>7, <2>8
<1>9. CASE LogOutcome(q)
  <2>1. flow' = [flow EXCEPT ![q] = NextJob(q)] /\ UNCHANGED <<status, holder, incidents>>
        /\ g.pc = "log"
    BY <1>9 DEF LogOutcome, EndJob, tables, history, At
  <2>2. ~OwnsIn(q, g, p)
    BY <1>0, <2>1 DEF OwnsIn, OwningSteps, ShapeOf, Job
  <2>3. \A x \in Posts : ClaimLeft(q, NextJob(q), x) /\ StatusWritten(x)
    BY <1>0, <1>1, <2>1, <2>2, NextJobOwns DEF ClaimLeft, StatusWritten
  <2> QED BY <1>0, <1>1, <1>2, <2>1, <2>3, NextJobOwns
<1>10. CASE PostVanished(q)
  <2>1. /\ flow' = [flow EXCEPT ![q] = NextJob(q)] /\ UNCHANGED <<status, incidents>>
        /\ Release(q, {p}) /\ ~Exists(p)
    BY <1>10 DEF PostVanished, EndJob, tables
  <2>2. \A x \in Posts : x # p => ClaimLeft(q, NextJob(q), x)
    BY <1>0, <1>1, <2>1, NextJobOwns DEF ClaimLeft, Release
  <2>3. ClaimGivenUp(q, NextJob(q), p) /\ \A x \in Posts : StatusWritten(x)
    BY <1>0, <1>1, <2>1, NextJobOwns
       DEF ClaimGivenUp, Release, Exists, Statuses, StatusWritten
  <2> QED BY <1>0, <1>1, <1>2, <2>1, <2>2, <2>3, NextJobOwns
<1> QED BY <1>4, <1>5, <1>6, <1>7, <1>8, <1>9, <1>10 DEF PublishStep

LEMMA FailureClaims ==
  ASSUME TypeOK, ClaimIInv, Failure
  PROVE  \E q \in Procs : \E f : ClaimFrame(q, f)
<1>1. ASSUME NEW w \in Workers, NEW written \in BOOLEAN, MarkFailed(w, written)
      PROVE  \E f : ClaimFrame(w, f)
  <2>0. /\ w \in Procs /\ w \notin Users /\ Publishes(w) /\ Job(w) \in Posts
        /\ ShapeOf(flow[w]) /\ UNCHANGED req
    BY <1>1, PublishingAssumption DEF MarkFailed, Procs, Publishes, TypeOK, ClaimIInv
  <2> PICK p \in Posts : p = Job(w)
    BY <2>0
  <2> DEFINE lands == written /\ Exists(p)
  <2>1. /\ flow' = [flow EXCEPT ![w] = NextJob(w)]
        /\ Release(w, {p})
        /\ status' = IF lands THEN [status EXCEPT ![p] = "FAILED"] ELSE status
        /\ incidents' = Noted(p, If("clobbered", lands /\ Clobbers(w, p))
                               \cup If("overtaken", lands /\ p \in unseen)
                               \cup If("orphaned", ~lands /\ holder[p] = w)
                               \cup If("lost", LostResult(w)))
    BY <1>1 DEF MarkFailed, EndJob
  <2> HIDE DEF lands
  <2>2. \A x \in Posts : incidents[x] \subseteq incidents'[x]
    BY <2>1 DEF Noted, TypeOK
  <2>3. /\ lands /\ Clobbers(w, p) => "clobbered" \in incidents'[p]
        /\ ~lands /\ holder[p] = w => "orphaned" \in incidents'[p]
    BY <2>1 DEF Noted, TypeOK, If
  <2>4. \A x \in Posts : StatusWritten(x)
    BY <2>1, <2>3 DEF StatusWritten, Clobbers, Release, TypeOK
  <2>5. \A x \in Posts : x # p => ClaimLeft(w, NextJob(w), x)
    BY <2>0, <2>1, NextJobOwns DEF ClaimLeft, Release
  <2>6. ClaimGivenUp(w, NextJob(w), p)
    BY <2>0, <2>1, <2>3, NextJobOwns DEF ClaimGivenUp, Release, TypeOK
  <2>7. ShapeOf(NextJob(w))
    BY <2>0, NextJobOwns
  <2>8. ClaimFrame(w, NextJob(w))
    BY <2>0, <2>1, <2>2, <2>4, <2>5, <2>6, <2>7 DEF ClaimFrame
  <2> QED BY <2>8
<1>2. ASSUME NEW q \in Procs, Abandon(q) PROVE ClaimFrame(q, Idle)
  <2>1. /\ flow' = [flow EXCEPT ![q] = Idle] /\ UNCHANGED status
        /\ Release(q, Posts)
        /\ req' = IF q \in Users THEN [req EXCEPT ![q] = NoReq] ELSE req
        /\ incidents' = [p \in Posts |->
             incidents[p] \cup If("orphaned", holder[p] = q)
                          \cup If("lost", p = Job(q) /\ LostResult(q))]
    BY <1>2 DEF Abandon, tables
  <2>2. ShapeOf(Idle) /\ Idle.pc = "idle" /\ \A p \in Posts : ~OwnsIn(q, Idle, p)
    BY PublishingAssumption DEF ShapeOf, OwnsIn, Idle, OwningSteps
  <2>3. \A p \in Posts : /\ incidents[p] \subseteq incidents'[p] /\ StatusWritten(p)
                         /\ ClaimGivenUp(q, Idle, p)
    BY <2>1, <2>2 DEF StatusWritten, ClaimGivenUp, Release, If
  <2>4. \A u \in Users : req'[u].op # "none" => req[u].op # "none"
    BY <2>1 DEF TypeOK, NoReq
  <2> QED BY <2>1, <2>2, <2>3, <2>4 DEF ClaimFrame
<1> QED BY <1>1, <1>2 DEF Failure, Procs

LEMMA ClaimNext ==
  TypeOK /\ GateInv /\ ClaimIInv /\ [Next]_vars => ClaimIInv'
<1> SUFFICES ASSUME TypeOK, GateInv, ClaimIInv, [Next]_vars PROVE ClaimIInv'
  OBVIOUS
<1>1. CASE Advance \/ UNCHANGED vars
  BY <1>1 DEF Advance, vars, tables, history, ClaimIInv, ClaimInv, Owns, Job, At
<1>2. CASE \E u \in Users : Request(u) \/ Respond(u)
  <2>1. PICK u \in Users : Request(u) \/ Respond(u)
    BY <1>2
  <2> QED BY <2>1, TypeStep, RequestClaims, NowClaims, FrameKeepsClaim DEF Respond, Procs
<1>3. CASE \E w \in Workers : (\E t \in 0..now : Tick(w, t)) \/ Work(w)
  BY <1>3, TypeStep, WorkClaims, FrameKeepsClaim DEF Procs
<1>4. CASE \E q \in Procs : PublishStep(q)
  BY <1>4, TypeStep, PublishClaims, FrameKeepsClaim
<1>5. CASE Failure
  BY <1>5, TypeStep, FailureClaims, FrameKeepsClaim
<1> QED BY <1>1, <1>2, <1>3, <1>4, <1>5 DEF Next

LEMMA ClaimsStand == Spec => []ClaimIInv
BY Typing, ReviewHolds, ClaimInit, ClaimNext, PTL DEF Spec

\* A process that believes a post is its own holds the latest claim on it, and a post
\* in PUBLISHING is claimed, unless a status was written under the claim or the
\* process went away.
THEOREM ClaimHolds == Spec => []ClaimInv
BY ClaimsStand, PTL DEF ClaimIInv

\* Two processes publish a post at a time only after a status was written under the
\* claim of the first.
THEOREM ExclusiveHolds == Spec => []ClaimExclusive
<1>1. ClaimIInv => ClaimExclusive
  BY DEF ClaimIInv, ClaimInv, ClaimExclusive
<1> QED BY <1>1, ClaimsStand, PTL

\* No post is stranded in PUBLISHING while the process that claimed it lives.
THEOREM PublishingHeld == Spec => []PublishingIsHeld
<1>1. TypeOK /\ ClaimIInv => PublishingIsHeld
  BY DEF TypeOK, ClaimIInv, ClaimInv, PublishingIsHeld
<1> QED BY <1>1, Typing, ClaimsStand, PTL

-----------------------------------------------------------------------------
(***************************************************************************)
(* Targets. What a flow has still to send or to record it knows by the     *)
(* account and the id of a row it read; while its claim stands these rows  *)
(* are there, and every other row of the post is published or counts as    *)
(* failed.                                                                 *)
(***************************************************************************)
SendingSteps == {"mark", "send", "record", "finish"}

Works(q, p) == Job(q) = p /\ flow[q].pc \in SendingSteps

Unsettled(q) == flow[q].rows \cup {r \in {flow[q].row} : At(q, "record")}

Settled(q, p) ==
  /\ status[p] # "DELETED" => \A r \in Unsettled(q) : RowStands(p, r)
  /\ \A a \in Targets(p) : \/ target[p][a].status = "PUBLISHED"
                           \/ \E r \in Unsettled(q) : r.acc = a
                           \/ \E o \in flow[q].outs : o.status = "FAILED"

RowsApart(q) ==
  /\ \A r, s \in flow[q].rows : r.acc = s.acc => r = s
  /\ At(q, "record") => \A r \in flow[q].rows : r.acc # flow[q].row.acc
  /\ At(q, "finish") => flow[q].rows = {}

IsOut(p, a) == target[p][a].status = "PUBLISHED"

SettleInv ==
  /\ \A p \in Posts : ~Exists(p) => Targets(p) = {}
  /\ \A p \in Posts : \A a \in Targets(p) : IsOut(p, a) => live[p][a] >= 1
  /\ \A q \in Procs : RowsApart(q)
  /\ \A q \in Procs : At(q, "record") /\ flow[q].ok => live[Job(q)][flow[q].row.acc] >= 1
  /\ \A p \in Posts : "clobbered" \notin incidents[p] =>
       /\ \A q \in Procs : Works(q, p) => Settled(q, p)
       /\ status[p] = "PUBLISHED" => \A a \in Targets(p) : IsOut(p, a)

\* While nothing was written under the claim, one flow works on a post.
LEMMA Alone ==
  ASSUME TypeOK, ClaimIInv, NEW p \in Posts, "clobbered" \notin incidents[p],
         NEW q \in Procs, Works(q, p)
  PROVE  /\ status[p] \in {"PUBLISHING", "DELETED"} /\ holder[p] = q
         /\ \A x \in Procs : Owns(x, p) => x = q
         /\ \A x \in Procs : Works(x, p) => x = q
<1>1. \A x \in Procs : Works(x, p) => Owns(x, p)
  BY DEF Works, SendingSteps, Owns
<1> QED BY <1>1, PublishingAssumption DEF ClaimIInv, ClaimInv

\* A post, and a flow, that a step leaves alone.
LEMMA SettledKept ==
  ASSUME NEW q \in Procs, NEW p \in Posts, Settled(q, p), flow'[q] = flow[q],
         target'[p] = target[p], status'[p] = status[p]
  PROVE  Settled(q, p)'
<1>1. Unsettled(q)' = Unsettled(q) /\ Targets(p)' = Targets(p)
  BY DEF Unsettled, At, Targets, HasRow
<1> QED BY <1>1 DEF Settled, RowStands, HasRow

\* A step that sends, marks and records nothing: a flow that was under way stays where
\* it is or ends.
Aside ==
  /\ UNCHANGED <<target, live>>
  /\ \A q \in Procs : flow'[q] # flow[q] =>
       /\ flow'[q].pc \notin SendingSteps /\ flow'[q].rows \subseteq flow[q].rows
       /\ At(q, "record") /\ flow[q].ok => "lost" \in incidents'[Job(q)]
  /\ \A p \in Posts :
       /\ incidents[p] \subseteq incidents'[p]
       /\ status'[p] = "DELETED" <=> status[p] = "DELETED"
       /\ Exists(p)' <=> Exists(p)
       /\ status'[p] = "PUBLISHED" => \/ status[p] = "PUBLISHED"
                                      \/ \E q \in Procs : FinishPost(q) /\ Job(q) = p

\* A request writes to p: its rows, its status, or it deletes it.
Rewritten(p) ==
  /\ UNCHANGED <<live, flow>>
  /\ \A x \in Posts \ {p} : target'[x] = target[x] /\ status'[x] = status[x]
                            /\ incidents'[x] = incidents[x]
  /\ incidents[p] \subseteq incidents'[p]
  /\ status[p] # "DELETED"
  /\ \A a \in Accounts : HasRow(p, a)' /\ IsOut(p, a)' => target'[p][a] = target[p][a]
  /\ \/ status'[p] = "DELETED" /\ \A a \in Accounts : ~HasRow(p, a)'
     \/ /\ status'[p] \in Statuses \ {"PUBLISHED"}
        /\ "clobbered" \in incidents'[p] \/ \A q \in Procs : ~Works(q, p)
        /\ \A a \in Targets(p) :
             IsOut(p, a) => target'[p][a] = target[p][a] \/ "reset" \in incidents'[p]

LEMMA AsideSettles ==
  ASSUME TypeOK, TypeOK', ClaimIInv, SettleInv, Aside PROVE SettleInv'
<1>1. \A p \in Posts : Targets(p)' = Targets(p)
  BY DEF Aside, Targets, HasRow
<1>2. ASSUME NEW p \in Posts, "clobbered" \notin incidents'[p], NEW q \in Procs, Works(q, p)'
      PROVE  Settled(q, p)'
  <2>1. flow'[q] = flow[q] /\ Works(q, p) /\ "clobbered" \notin incidents[p]
    BY <1>2 DEF Aside, Works, Job
  <2>2. Settled(q, p)
    BY <2>1 DEF SettleInv
  <2> QED BY <1>1, <2>1, <2>2 DEF Settled, Unsettled, RowStands, HasRow, Aside, At
<1>3. ASSUME NEW p \in Posts, "clobbered" \notin incidents'[p], status'[p] = "PUBLISHED",
             NEW a \in Targets(p)
      PROVE  IsOut(p, a)
  <2>0. "clobbered" \notin incidents[p]
    BY <1>3 DEF Aside
  <2>1. CASE status[p] = "PUBLISHED"
    BY <1>3, <2>0, <2>1 DEF SettleInv
  <2>2. ASSUME NEW q \in Procs, FinishPost(q), Job(q) = p PROVE IsOut(p, a)
    <3>1. Works(q, p) /\ flow[q].rows = {} /\ ~At(q, "record")
      BY <2>2 DEF FinishPost, At, Works, SendingSteps, SettleInv, RowsApart
    <3>2. Settled(q, p)
      BY <2>0, <3>1 DEF SettleInv
    <3>3. ResolvePostOutcome(flow[q].outs, MaxAttempts, q \in Users) = "PUBLISHED"
      BY <1>3, <2>2 DEF FinishPost, TypeOK
    <3>4. \A o \in flow[q].outs : o.status = "PUBLISHED"
      BY <3>3 DEF ResolvePostOutcome
    <3> QED BY <1>3, <3>1, <3>2, <3>4 DEF Settled, Unsettled, IsOut
  <2> QED BY <1>3, <2>1, <2>2 DEF Aside
<1>4. ASSUME NEW q \in Procs PROVE RowsApart(q)'
  BY DEF Aside, SettleInv, RowsApart, At, SendingSteps
<1>5. ASSUME NEW q \in Procs, At(q, "record")', flow'[q].ok
      PROVE  live'[Job(q)'][flow'[q].row.acc] >= 1
  <2>1. flow'[q] = flow[q] /\ UNCHANGED live
    BY <1>5 DEF Aside, At, SendingSteps
  <2> QED BY <1>5, <2>1 DEF SettleInv, At, Job
<1>6. \A p \in Posts : (~Exists(p))' => Targets(p) = {}
  BY DEF Aside, SettleInv
<1>7. UNCHANGED <<target, live>>
  BY DEF Aside
<1>8. \A p \in Posts, a \in Accounts : IsOut(p, a)' <=> IsOut(p, a)
  BY <1>7 DEF IsOut
<1>9. \A p \in Posts : \A a \in Targets(p)' : IsOut(p, a)' => live'[p][a] >= 1
  BY <1>1, <1>7, <1>8 DEF SettleInv, Targets
<1>10. \A p \in Posts : "clobbered" \notin incidents'[p] /\ status'[p] = "PUBLISHED" =>
          \A a \in Targets(p)' : IsOut(p, a)'
  BY <1>1, <1>3, <1>8 DEF Targets
<1> QED BY <1>1, <1>2, <1>4, <1>5, <1>6, <1>9, <1>10 DEF SettleInv

LEMMA RewrittenSettles ==
  ASSUME TypeOK, TypeOK', ClaimIInv, SettleInv, NEW p \in Posts, Rewritten(p) PROVE SettleInv'
<1>1. UNCHANGED <<live, flow>>
  BY DEF Rewritten
<1>2. \A q \in Procs : /\ RowsApart(q)' /\ (Works(q, p)' <=> Works(q, p))
                       /\ At(q, "record")' /\ flow'[q].ok => live'[Job(q)'][flow'[q].row.acc] >= 1
  BY <1>1 DEF SettleInv, RowsApart, Works, At, Job
<1>3. \A x \in Posts \ {p} : /\ target'[x] = target[x] /\ status'[x] = status[x]
                             /\ incidents'[x] = incidents[x]
  BY DEF Rewritten
<1>4. ASSUME NEW x \in Posts \ {p}, "clobbered" \notin incidents'[x]
      PROVE  /\ \A q \in Procs : Works(q, x)' => Settled(q, x)'
             /\ status'[x] = "PUBLISHED" => \A a \in Targets(x)' : IsOut(x, a)'
  <2>1. ASSUME NEW q \in Procs, Works(q, x)' PROVE Settled(q, x)'
    <3>1. Works(q, x) /\ Settled(q, x)
      BY <1>1, <1>3, <1>4, <2>1 DEF SettleInv, Works, Job
    <3> QED BY <1>1, <1>3, <3>1 DEF Settled, Unsettled, RowStands, HasRow, Targets, At
  <2>2. status'[x] = "PUBLISHED" => \A a \in Targets(x)' : IsOut(x, a)'
    BY <1>3, <1>4 DEF SettleInv, Targets, HasRow, IsOut
  <2> QED BY <2>1, <2>2
<1>5. ASSUME "clobbered" \notin incidents'[p], NEW q \in Procs, Works(q, p)'
      PROVE  Settled(q, p)'
  <2>1. status'[p] = "DELETED" /\ \A a \in Accounts : ~HasRow(p, a)'
    BY <1>2, <1>5 DEF Rewritten
  <2> QED BY <2>1 DEF Settled, Targets
<1>6. ASSUME NEW x \in Posts PROVE (~Exists(x))' => Targets(x)' = {}
  <2>1. CASE x = p
    BY <2>1 DEF Rewritten, Exists, Targets
  <2>2. CASE x # p
    BY <1>3, <2>2 DEF SettleInv, Exists, Targets, HasRow
  <2> QED BY <2>1, <2>2
<1>7. ASSUME NEW x \in Posts, NEW a \in Targets(x)', IsOut(x, a)' PROVE live'[x][a] >= 1
  <2>1. a \in Accounts /\ HasRow(x, a)'
    BY DEF Targets
  <2>2. target'[x][a] = target[x][a]
    BY <1>3, <1>7, <2>1 DEF Rewritten
  <2>3. a \in Targets(x) /\ IsOut(x, a)
    BY <1>7, <2>1, <2>2 DEF HasRow, Targets, IsOut
  <2> QED BY <1>1, <2>3 DEF SettleInv
<1>8. status'[p] # "PUBLISHED"
  BY DEF Rewritten, Statuses
<1> QED BY <1>2, <1>4, <1>5, <1>6, <1>7, <1>8 DEF SettleInv

\* A flow reads the rows that are not published yet.
LEMMA ReadRows ==
  ASSUME TypeOK, NEW q \in Procs, ReadPost(q)
  PROVE  \E rows :
           /\ flow'[q].pc = "mark" /\ flow'[q].job = Job(q) /\ flow'[q].rows = rows
           /\ \A x \in Procs : x # q => flow'[x] = flow[x]
           /\ \A r, s \in rows : r.acc = s.acc => r = s
           /\ \A r \in rows : /\ RowStands(Job(q), r) /\ ~IsOut(Job(q), r.acc)
                              /\ r.acc \in Accounts
           /\ \A a \in Targets(Job(q)) : IsOut(Job(q), a) \/ \E r \in rows : r.acc = a
<1> DEFINE p == Job(q)
           pending == {a \in Targets(p) : target[p][a].status # "PUBLISHED"}
           rows == {[acc |-> a, id |-> target[p][a].id,
                     attempts |-> target[p][a].attempts] : a \in pending}
           outs == {[status |-> "PUBLISHED", attempts |-> target[p][a].attempts] :
                      a \in Targets(p) \ pending}
<1>1. \A r, s \in rows : r.acc = s.acc => r = s
  OBVIOUS
<1>2. \A r \in rows : RowStands(p, r) /\ ~IsOut(p, r.acc) /\ r.acc \in Accounts
  BY DEF RowStands, Targets, IsOut
<1>3. ASSUME NEW a \in Targets(p), ~IsOut(p, a) PROVE \E r \in rows : r.acc = a
  <2> DEFINE r == [acc |-> a, id |-> target[p][a].id, attempts |-> target[p][a].attempts]
  <2>1. a \in pending
    BY <1>3 DEF IsOut
  <2>2. r \in rows
    BY <2>1
  <2>3. r.acc = a
    OBVIOUS
  <2> QED BY <2>2, <2>3
<1> HIDE DEF rows, outs
<1>4. flow' = [flow EXCEPT ![q] = [flow[q] EXCEPT !.pc = "mark", !.rows = rows, !.outs = outs]]
  BY DEF ReadPost, rows, outs, TypeOK, Flows
<1>5. /\ flow'[q].pc = "mark" /\ flow'[q].job = p /\ flow'[q].rows = rows
      /\ \A x \in Procs : x # q => flow'[x] = flow[x]
  BY <1>4 DEF TypeOK, Flows, Job
<1> QED BY <1>1, <1>2, <1>3, <1>5

LEMMA ReadSettles ==
  ASSUME TypeOK, TypeOK', ClaimIInv, SettleInv, NEW q \in Procs, ReadPost(q) PROVE SettleInv'
<1>0. Job(q) \in Posts
  BY DEF TypeOK, ReadPost, At, Publishes
<1> PICK p \in Posts : p = Job(q)
  BY <1>0
<1>1. UNCHANGED <<status, target, live, incidents>>
  BY DEF ReadPost, tables, history
<1>2. PICK rows :
        /\ flow'[q].pc = "mark" /\ flow'[q].job = p /\ flow'[q].rows = rows
        /\ \A x \in Procs : x # q => flow'[x] = flow[x]
        /\ \A r, s \in rows : r.acc = s.acc => r = s
        /\ \A r \in rows : RowStands(p, r)
        /\ \A a \in Targets(p) : IsOut(p, a) \/ \E r \in rows : r.acc = a
  BY ReadRows
<1>5. \A x \in Procs : RowsApart(x)'
  BY <1>2 DEF SettleInv, RowsApart, At
<1>6. \A x \in Procs : At(x, "record")' /\ flow'[x].ok => live'[Job(x)'][flow'[x].row.acc] >= 1
  BY <1>1, <1>2 DEF SettleInv, At, Job
<1>7. Settled(q, p)'
  BY <1>1, <1>2 DEF Settled, Unsettled, RowStands, HasRow, Targets, IsOut, At
<1>8. ASSUME NEW y \in Posts, "clobbered" \notin incidents[y], NEW x \in Procs, Works(x, y)'
      PROVE  Settled(x, y)'
  <2>1. CASE x = q
    <3>1. y = p
      BY <1>1, <1>2, <1>8, <2>1 DEF Works, Job
    <3> QED BY <1>7, <2>1, <3>1
  <2>2. CASE x # q
    <3>1. Works(x, y) /\ Settled(x, y)
      BY <1>1, <1>2, <1>8, <2>2 DEF SettleInv, Works, Job
    <3> QED BY <1>1, <1>2, <2>2, <3>1 DEF Settled, Unsettled, RowStands, HasRow, Targets, At
  <2> QED BY <2>1, <2>2
<1> QED BY <1>1, <1>5, <1>6, <1>8 DEF SettleInv, Exists, Targets, HasRow, IsOut

\* Marking and recording change a status and the attempts of rows, and no id.
RowKept(p, a) == target'[p][a] = target[p][a]

RowSet(p, a, s) == /\ HasRow(p, a) /\ target'[p][a] # NoRow
                   /\ target'[p][a].id = target[p][a].id /\ target'[p][a].status = s

Marked(q, p, a) == \E r \in flow[q].rows : RowStands(p, r) /\ r.acc = a

LEMMA MarkedRows ==
  ASSUME TypeOK, NEW q \in Procs, MarkTargets(q)
  PROVE  \E p \in Posts :
           /\ p = Job(q)
           /\ \A x \in Posts \ {p} : target'[x] = target[x]
           /\ \A a \in Accounts : RowKept(p, a) \/ (Marked(q, p, a) /\ RowSet(p, a, "PUBLISHING"))
<1>1. Job(q) \in Posts
  BY DEF TypeOK, MarkTargets, At, Publishes
<1> PICK p \in Posts : p = Job(q)
  BY <1>1
<1> DEFINE marked == {r.acc : r \in {x \in flow[q].rows : RowStands(p, x)}}
<1>2. \A a \in marked : Marked(q, p, a) /\ HasRow(p, a)
  BY DEF Marked, RowStands
<1>3. target' = [target EXCEPT ![p] = [a \in Accounts |->
         IF a \in marked THEN [target[p][a] EXCEPT !.status = "PUBLISHING"] ELSE target[p][a]]]
  BY <1>1 DEF MarkTargets, TypeOK
<1> HIDE DEF marked
<1>4. \A a \in Accounts : target'[p][a] =
         IF a \in marked THEN [target[p][a] EXCEPT !.status = "PUBLISHING"] ELSE target[p][a]
  BY <1>1, <1>3 DEF TypeOK
<1>5. ASSUME NEW a \in Accounts, a \in marked
      PROVE  RowSet(p, a, "PUBLISHING")
  <2>1. target[p][a] \in TargetRows
    BY <1>2, <1>5 DEF HasRow, TypeOK
  <2>2. /\ [target[p][a] EXCEPT !.status = "PUBLISHING"] \in TargetRows
        /\ [target[p][a] EXCEPT !.status = "PUBLISHING"].id = target[p][a].id
        /\ [target[p][a] EXCEPT !.status = "PUBLISHING"].status = "PUBLISHING"
    BY <2>1 DEF TargetRows, Statuses
  <2> QED BY <1>2, <1>4, <1>5, <2>2, NoRowAssumption DEF RowSet, HasRow
<1>6. \A x \in Posts \ {p} : target'[x] = target[x]
  BY <1>3 DEF TypeOK
<1> QED BY <1>2, <1>4, <1>5, <1>6 DEF RowKept

LEMMA MarkSettles ==
  ASSUME TypeOK, TypeOK', ClaimIInv, SettleInv, NEW q \in Procs, MarkTargets(q) PROVE SettleInv'
<1>0. PICK p \in Posts :
        /\ p = Job(q)
        /\ \A x \in Posts \ {p} : target'[x] = target[x]
        /\ \A a \in Accounts : RowKept(p, a) \/ (Marked(q, p, a) /\ RowSet(p, a, "PUBLISHING"))
  BY MarkedRows
<1>1. /\ UNCHANGED <<status, live, incidents>>
      /\ flow[q].pc = "mark" /\ flow'[q].pc = IF flow[q].rows = {} THEN "finish" ELSE "send"
      /\ \A x \in Procs : /\ flow'[x].job = flow[x].job /\ flow'[x].rows = flow[x].rows
                          /\ flow'[x].row = flow[x].row /\ flow'[x].ok = flow[x].ok
                          /\ flow'[x].outs = flow[x].outs
                          /\ x # q => flow'[x] = flow[x]
  BY DEF MarkTargets, At, history, TypeOK, Flows
<1>2. \A x \in Posts, a \in Accounts :
        /\ HasRow(x, a)' <=> HasRow(x, a)
        /\ HasRow(x, a) => target'[x][a].id = target[x][a].id
        /\ HasRow(x, a) /\ IsOut(x, a)' => IsOut(x, a)
        /\ x # p => target'[x] = target[x]
  BY <1>0 DEF RowKept, RowSet, HasRow, IsOut
<1>3. \A x \in Posts : Targets(x)' = Targets(x)
  BY <1>2 DEF Targets
<1>4. \A x \in Procs : RowsApart(x)'
  BY <1>1 DEF SettleInv, RowsApart, At
<1>5. \A x \in Procs : At(x, "record")' /\ flow'[x].ok => live'[Job(x)'][flow'[x].row.acc] >= 1
  BY <1>1 DEF SettleInv, At, Job
<1>6. Works(q, p)
  BY <1>0, <1>1 DEF Works, SendingSteps
<1>7. ASSUME NEW y \in Posts, "clobbered" \notin incidents[y], NEW x \in Procs, Works(x, y)'
      PROVE  Settled(x, y)'
  <2>1. Works(x, y) /\ Settled(x, y)
    BY <1>1, <1>7 DEF Works, Job, SettleInv, SendingSteps
  <2>2. y = p => x = q
    BY <1>6, <1>7, <2>1, Alone
  <2>3. CASE y # p
    <3>1. x # q
      BY <1>0, <1>1, <1>7, <2>3 DEF Works, Job
    <3>2. target'[y] = target[y] /\ flow'[x] = flow[x] /\ status'[y] = status[y]
      BY <1>0, <1>1, <2>3, <3>1
    <3> QED BY <2>1, <3>2, SettledKept
  <2>4. CASE y = p
    <3>1. Unsettled(q) = flow[q].rows /\ Unsettled(q)' = flow[q].rows
      BY <1>1 DEF Unsettled, At
    <3>2. \A r \in Unsettled(q) : r.acc \in Accounts
      BY <3>1 DEF TypeOK, Flows, Rows
    <3>3. \A r \in Unsettled(q) : RowStands(p, r) => RowStands(p, r)'
      BY <1>2, <3>2 DEF RowStands
    <3>4. \A a \in Targets(p) : IsOut(p, a) => IsOut(p, a)' \/ \E r \in Unsettled(q) : r.acc = a
      BY <1>0, <3>1 DEF RowKept, IsOut, Marked, Targets
    <3> QED BY <1>1, <1>3, <2>1, <2>2, <2>4, <3>1, <3>3, <3>4 DEF Settled, IsOut
  <2> QED BY <2>3, <2>4
<1>8. ASSUME NEW y \in Posts, "clobbered" \notin incidents[y], status[y] = "PUBLISHED"
      PROVE  \A a \in Targets(y) : IsOut(y, a)'
  <2>1. y # p
    BY <1>6, <1>8, Alone
  <2>2. target'[y] = target[y]
    BY <1>0, <2>1
  <2>3. \A a \in Targets(y) : IsOut(y, a)
    BY <1>8 DEF SettleInv
  <2> QED BY <2>2, <2>3 DEF IsOut
<1>9. \A x \in Posts : \A a \in Targets(x) : IsOut(x, a)' => IsOut(x, a)
  BY <1>2 DEF Targets
<1> QED BY <1>1, <1>3, <1>4, <1>5, <1>7, <1>8, <1>9 DEF SettleInv, Exists

LEMMA SendSettles ==
  ASSUME TypeOK, TypeOK', ClaimIInv, SettleInv, NEW q \in Procs, NEW r \in flow[q].rows,
         NEW answer \in Answers, SendTarget(q, r, answer)
  PROVE  SettleInv'
<1>a. Job(q) \in Posts /\ r.acc \in Accounts
  BY DEF TypeOK, SendTarget, At, Publishes, Flows, Rows
<1> PICK p \in Posts : p = Job(q)
  BY <1>a
<1>1. /\ UNCHANGED <<status, target>>
      /\ \A x \in Posts : incidents[x] \subseteq incidents'[x]
      /\ flow[q].pc = "send"
      /\ flow'[q].pc = "record" /\ flow'[q].job = p /\ flow'[q].rows = flow[q].rows \ {r}
      /\ flow'[q].row = r /\ flow'[q].ok = (answer = "ok") /\ flow'[q].outs = flow[q].outs
      /\ \A x \in Procs : x # q => flow'[x] = flow[x]
  BY DEF SendTarget, At, Noted, tables, TypeOK, Flows, Job
<1>2. /\ \A x \in Posts, a \in Accounts : live'[x][a] >= live[x][a]
      /\ answer = "ok" => live'[p][r.acc] >= 1
  BY <1>a DEF SendTarget, TypeOK
<1>3. \A x \in Procs : RowsApart(x)'
  BY <1>1 DEF SettleInv, RowsApart, At
<1>4. ASSUME NEW x \in Procs, At(x, "record")', flow'[x].ok
      PROVE  live'[Job(x)'][flow'[x].row.acc] >= 1
  <2>1. CASE x = q
    BY <1>1, <1>2, <1>4, <2>1 DEF Job
  <2>2. CASE x # q
    <3>1. At(x, "record") /\ flow[x].ok /\ Job(x)' = Job(x) /\ flow'[x].row = flow[x].row
      BY <1>1, <1>4, <2>2 DEF At, Job
    <3>2. Job(x) \in Posts /\ flow[x].row.acc \in Accounts
      BY <3>1 DEF TypeOK, At, Publishes, Rows
    <3>3. live[Job(x)][flow[x].row.acc] >= 1
      BY <3>1 DEF SettleInv
    <3>4. live[Job(x)][flow[x].row.acc] \in Nat /\ live'[Job(x)][flow[x].row.acc] \in Nat
      BY <3>2 DEF TypeOK
    <3> QED BY <1>2, <3>1, <3>2, <3>3, <3>4
  <2> QED BY <2>1, <2>2
<1>5. \A x \in Posts : Targets(x)' = Targets(x) /\ \A a : IsOut(x, a)' <=> IsOut(x, a)
  BY <1>1 DEF Targets, HasRow, IsOut
<1>6. ASSUME NEW y \in Posts, "clobbered" \notin incidents'[y], NEW x \in Procs, Works(x, y)'
      PROVE  Settled(x, y)'
  <2>1. Works(x, y) /\ Settled(x, y)
    BY <1>1, <1>6 DEF Works, Job, SettleInv, SendingSteps
  <2>2. Unsettled(x)' = Unsettled(x) /\ flow'[x].outs = flow[x].outs
    BY <1>1 DEF Unsettled, At
  <2> QED BY <1>1, <2>1, <2>2 DEF Settled, RowStands, HasRow, Targets
<1>7. \A x \in Posts : \A a \in Targets(x) : IsOut(x, a) => live'[x][a] >= 1
  BY <1>2 DEF SettleInv, Targets, TypeOK
<1> QED BY <1>1, <1>3, <1>4, <1>5, <1>6, <1>7 DEF SettleInv, Exists

\* Recording sets the row that was sent, if it still stands.
LEMMA RecordedRows ==
  ASSUME TypeOK, NEW q \in Procs, RecordTarget(q)
  PROVE  \E p \in Posts :
           /\ p = Job(q) /\ flow[q].row.acc \in Accounts
           /\ \A x \in Posts \ {p} : target'[x] = target[x]
           /\ \A a \in Accounts :
                \/ RowKept(p, a) /\ (a = flow[q].row.acc => ~RowStands(p, flow[q].row))
                \/ /\ a = flow[q].row.acc /\ RowStands(p, flow[q].row)
                   /\ RowSet(p, a, IF flow[q].ok THEN "PUBLISHED" ELSE "FAILED")
<1>1. Job(q) \in Posts /\ flow[q].row \in Rows
  BY DEF TypeOK, RecordTarget, At, Publishes
<1> PICK p \in Posts : p = Job(q)
  BY <1>1
<1> DEFINE r == flow[q].row
           s == IF flow[q].ok THEN "PUBLISHED" ELSE "FAILED"
           row == target[p][r.acc]
<1>2. r.acc \in Accounts /\ r.attempts + 1 \in Nat /\ s \in Statuses
  BY <1>1 DEF Rows, Statuses
<1>3. CASE RowStands(p, r)
  <2>1. row \in TargetRows /\ HasRow(p, r.acc)
    BY <1>2, <1>3 DEF RowStands, HasRow, TypeOK
  <2> DEFINE new == [row EXCEPT !.status = s, !.attempts = r.attempts + 1]
  <2>2. new \in TargetRows /\ new.id = row.id /\ new.status = s
    BY <1>2, <2>1 DEF TargetRows
  <2>3. target' = [target EXCEPT ![p] = [target[p] EXCEPT ![r.acc] = new]]
    BY <1>2, <1>3, <2>1 DEF RecordTarget, TypeOK, TargetRows
  <2> HIDE DEF new, s
  <2>4. \A a \in Accounts : target'[p][a] = IF a = r.acc THEN new ELSE target[p][a]
    BY <1>2, <2>3 DEF TypeOK
  <2>5. RowSet(p, r.acc, s)
    BY <1>2, <2>1, <2>2, <2>4, NoRowAssumption DEF RowSet
  <2>6. \A x \in Posts \ {p} : target'[x] = target[x]
    BY <2>3 DEF TypeOK
  <2> QED BY <1>2, <1>3, <2>4, <2>5, <2>6 DEF RowKept, s
<1>4. CASE ~RowStands(p, r)
  BY <1>2, <1>4 DEF RecordTarget, RowKept
<1> QED BY <1>3, <1>4

LEMMA RecordFlow ==
  ASSUME TypeOK, NEW q \in Procs, RecordTarget(q)
  PROVE  /\ UNCHANGED <<status, live, incidents>>
         /\ flow[q].pc = "record"
         /\ flow'[q].pc = IF flow[q].rows = {} THEN "finish" ELSE "send"
         /\ flow'[q].job = Job(q) /\ flow'[q].rows = flow[q].rows
         /\ flow[q].outs \subseteq flow'[q].outs
         /\ ~flow[q].ok => \E o \in flow'[q].outs : o.status = "FAILED"
         /\ \A x \in Procs : x # q => flow'[x] = flow[x]
<1> DEFINE out == [status |-> IF flow[q].ok THEN "PUBLISHED" ELSE "FAILED",
                   attempts |-> flow[q].row.attempts + 1]
<1>1. ~flow[q].ok => out.status = "FAILED"
  OBVIOUS
<1>2. flow' = [flow EXCEPT ![q] =
        [flow[q] EXCEPT !.pc = IF flow[q].rows = {} THEN "finish" ELSE "send",
                        !.row = NoRow, !.ok = FALSE, !.outs = @ \cup {out}]]
  BY DEF RecordTarget, TypeOK, Flows
<1> HIDE DEF out
<1>3. UNCHANGED <<status, live, incidents>> /\ flow[q].pc = "record"
  BY DEF RecordTarget, At, history
<1>4. flow[q] \in Flows
  BY DEF TypeOK
<1> QED BY <1>1, <1>2, <1>3, <1>4 DEF TypeOK, Flows, Job

LEMMA RecordSettles ==
  ASSUME TypeOK, TypeOK', ClaimIInv, SettleInv, NEW q \in Procs, RecordTarget(q) PROVE SettleInv'
<1> DEFINE r == flow[q].row
<1>0. PICK p \in Posts :
        /\ p = Job(q) /\ r.acc \in Accounts
        /\ \A x \in Posts \ {p} : target'[x] = target[x]
        /\ \A a \in Accounts :
             \/ RowKept(p, a) /\ (a = r.acc => ~RowStands(p, r))
             \/ /\ a = r.acc /\ RowStands(p, r)
                /\ RowSet(p, a, IF flow[q].ok THEN "PUBLISHED" ELSE "FAILED")
  BY RecordedRows
<1>1. /\ UNCHANGED <<status, live, incidents>>
      /\ flow[q].pc = "record"
      /\ flow'[q].pc = IF flow[q].rows = {} THEN "finish" ELSE "send"
      /\ flow'[q].job = p /\ flow'[q].rows = flow[q].rows
      /\ flow[q].outs \subseteq flow'[q].outs
      /\ ~flow[q].ok => \E o \in flow'[q].outs : o.status = "FAILED"
      /\ \A x \in Procs : x # q => flow'[x] = flow[x]
  BY <1>0, RecordFlow
<1>2. \A x \in Posts, a \in Accounts :
        /\ HasRow(x, a)' <=> HasRow(x, a)
        /\ HasRow(x, a) => target'[x][a].id = target[x][a].id
        /\ IsOut(x, a)' => IsOut(x, a) \/ (x = p /\ a = r.acc /\ flow[q].ok)
        /\ x # p => target'[x] = target[x]
  BY <1>0 DEF RowKept, RowSet, HasRow, IsOut
<1>3. \A x \in Posts : Targets(x)' = Targets(x)
  BY <1>2 DEF Targets
<1>4. \A x \in Procs : RowsApart(x)'
  BY <1>1 DEF SettleInv, RowsApart, At
<1>5. \A x \in Procs : At(x, "record")' /\ flow'[x].ok => live'[Job(x)'][flow'[x].row.acc] >= 1
  BY <1>1 DEF SettleInv, At, Job
<1>6. Works(q, p)
  BY <1>0, <1>1 DEF Works, SendingSteps
<1>7. ASSUME NEW y \in Posts, "clobbered" \notin incidents[y], NEW x \in Procs, Works(x, y)'
      PROVE  Settled(x, y)'
  <2>1. Works(x, y) /\ Settled(x, y)
    BY <1>1, <1>6, <1>7 DEF Works, Job, SettleInv
  <2>2. y = p => x = q
    BY <1>6, <1>7, <2>1, Alone
  <2>3. CASE y # p
    <3>1. x # q
      BY <1>1, <1>7, <2>3 DEF Works, Job
    <3>2. target'[y] = target[y] /\ flow'[x] = flow[x] /\ status'[y] = status[y]
      BY <1>0, <1>1, <2>3, <3>1
    <3> QED BY <2>1, <3>2, SettledKept
  <2>4. CASE y = p
    <3>1. Unsettled(q) = flow[q].rows \cup {r} /\ Unsettled(q)' = flow[q].rows
      BY <1>1 DEF Unsettled, At
    <3>2. \A z \in Unsettled(q)' : z.acc \in Accounts /\ z \in Unsettled(q)
      BY <3>1 DEF TypeOK, Flows, Rows
    <3>3. \A z \in Unsettled(q)' : RowStands(p, z) => RowStands(p, z)'
      BY <1>2, <3>2 DEF RowStands
    <3>4. ASSUME NEW a \in Targets(p)
          PROVE  \/ IsOut(p, a)' \/ \E z \in Unsettled(q)' : z.acc = a
                 \/ \E o \in flow'[q].outs : o.status = "FAILED"
      <4>1. CASE ~flow[q].ok
        BY <1>1, <4>1
      <4>2. CASE flow[q].ok /\ a = r.acc
        <5>1. status[p] # "DELETED"
          BY <3>4 DEF SettleInv, Exists, Statuses
        <5>2. RowStands(p, r)
          BY <2>1, <2>2, <2>4, <3>1, <5>1 DEF Settled
        <5> QED BY <1>0, <4>2, <5>2 DEF RowSet, IsOut
      <4>3. CASE a # r.acc
        <5>1. a \in Accounts /\ RowKept(p, a)
          BY <1>0, <3>4, <4>3 DEF Targets
        <5>2. \/ IsOut(p, a) \/ \E z \in Unsettled(q) : z.acc = a
              \/ \E o \in flow[q].outs : o.status = "FAILED"
          BY <2>1, <2>2, <2>4, <3>4 DEF Settled, IsOut
        <5> QED BY <1>1, <3>1, <4>3, <5>1, <5>2 DEF RowKept, IsOut
      <4> QED BY <4>1, <4>2, <4>3
    <3> QED BY <1>1, <1>3, <2>1, <2>2, <2>4, <3>2, <3>3, <3>4 DEF Settled, IsOut
  <2> QED BY <2>3, <2>4
<1>8. ASSUME NEW y \in Posts, "clobbered" \notin incidents[y], status[y] = "PUBLISHED"
      PROVE  \A a \in Targets(y) : IsOut(y, a)'
  <2>1. y # p
    BY <1>6, <1>8, Alone
  <2>2. target'[y] = target[y]
    BY <1>0, <2>1
  <2>3. \A a \in Targets(y) : IsOut(y, a)
    BY <1>8 DEF SettleInv
  <2> QED BY <2>2, <2>3 DEF IsOut
<1>9. ASSUME NEW x \in Posts, NEW a \in Targets(x), IsOut(x, a)' PROVE live[x][a] >= 1
  <2>1. a \in Accounts /\ HasRow(x, a)
    BY DEF Targets
  <2>2. CASE IsOut(x, a)
    BY <2>2 DEF SettleInv
  <2>3. CASE x = p /\ a = r.acc /\ flow[q].ok
    BY <1>0, <1>1, <2>3 DEF SettleInv, At
  <2> QED BY <1>2, <1>9, <2>1, <2>2, <2>3
<1> QED BY <1>1, <1>3, <1>4, <1>5, <1>7, <1>8, <1>9 DEF SettleInv, Exists

\* The steps that are aside.
LEMMA StillAside ==
  ASSUME TypeOK, UNCHANGED <<target, live, status, incidents>>,
         NEW q \in Procs, NEW f, flow' = [flow EXCEPT ![q] = f],
         f.pc \notin SendingSteps, f.rows \subseteq flow[q].rows, ~At(q, "record")
  PROVE  Aside
BY DEF Aside, Exists, TypeOK

LEMMA RequestAside ==
  ASSUME TypeOK, NEW u \in Users,
         \/ \E op \in Menu, p \in Posts : \E at \in Instants(op) : Load(u, op, p, at)
         \/ Reschedule(u) \/ Gone(u) \/ ClaimLost(u)
  PROVE  Aside
<1>1. UNCHANGED <<target, live, flow, status, incidents>>
  BY DEF Load, Reschedule, Gone, ClaimLost, tables, history
<1> QED BY <1>1 DEF Aside, Exists

LEMMA NowAside ==
  ASSUME TypeOK, ClaimIInv, NEW u \in Users, PublishNow(u) PROVE Aside
<1> DEFINE f == [Idle EXCEPT !.pc = "load", !.job = req[u].post]
<1> PICK p \in Posts : p = req[u].post
  BY DEF PublishNow, TypeOK, InFlight, NoReq
<1>1. /\ UNCHANGED <<target, live, incidents>> /\ flow' = [flow EXCEPT ![u] = f]
      /\ status' = [status EXCEPT ![p] = "PUBLISHING"] /\ status[p] \in Claimable
  BY DEF PublishNow, Claim
<1>2. f.pc = "load" /\ f.rows = {}
  BY DEF Idle
<1>3. u \in Procs /\ ~At(u, "record")
  BY RequestIdle DEF PublishNow, Procs, Idle, At
<1> HIDE DEF f
<1>4. \A x \in Posts : /\ status'[x] = "DELETED" <=> status[x] = "DELETED"
                       /\ Exists(x)' <=> Exists(x)
                       /\ status'[x] = "PUBLISHED" => status[x] = "PUBLISHED"
  BY <1>1 DEF Exists, Statuses, Claimable, TypeOK
<1> QED BY <1>1, <1>2, <1>3, <1>4 DEF Aside, SendingSteps, TypeOK

LEMMA WorkAside ==
  ASSUME TypeOK, ClaimIInv, NEW w \in Workers, (\E t \in 0..now : Tick(w, t)) \/ Work(w)
  PROVE  Aside
<1>0. w \in Procs /\ flow[w] \in Flows
  BY DEF TypeOK, Procs
<1>1. ASSUME NEW t \in 0..now, Tick(w, t) PROVE Aside
  <2>1. PICK batch \in DueBatches(t) :
          flow' = [flow EXCEPT ![w] = [Idle EXCEPT !.pc = "claim", !.runAt = t, !.todo = batch]]
    BY <1>1 DEF Tick
  <2> DEFINE f == [Idle EXCEPT !.pc = "claim", !.runAt = t, !.todo = batch]
  <2>2. f.pc = "claim" /\ f.rows = {}
    BY DEF Idle
  <2>3. flow' = [flow EXCEPT ![w] = f]
    BY <2>1
  <2> HIDE DEF f
  <2>4. UNCHANGED <<target, live, status, incidents>> /\ ~At(w, "record")
    BY <1>1 DEF Tick, Busy, At, tables, history
  <2> QED BY <1>0, <2>2, <2>3, <2>4, StillAside DEF SendingSteps
<1>2. ASSUME NEW p \in Posts, ClaimDue(w, p) PROVE Aside
  <2> DEFINE won == Due(p, flow[w].runAt)
             f == [flow[w] EXCEPT !.todo = @ \ {p},
                            !.held = IF won THEN @ \cup {p} ELSE @,
                            !.pc = IF flow[w].todo = {p} THEN "reread" ELSE @]
  <2>1. /\ f.rows = flow[w].rows
        /\ f.pc = IF flow[w].todo = {p} THEN "reread" ELSE "claim"
        /\ flow[w].pc = "claim"
    BY <1>0, <1>2 DEF Flows, ClaimDue, At
  <2>2. flow' = [flow EXCEPT ![w] = f]
    BY <1>2 DEF ClaimDue
  <2>3. IF won THEN Claim(w, p) ELSE UNCHANGED <<status, holder>>
    BY <1>2 DEF ClaimDue
  <2> HIDE DEF f
  <2>4. UNCHANGED <<target, live, incidents>>
    BY <1>2 DEF ClaimDue
  <2>5. \A x \in Posts : /\ status'[x] = "DELETED" <=> status[x] = "DELETED"
                         /\ Exists(x)' <=> Exists(x)
                         /\ status'[x] = "PUBLISHED" => status[x] = "PUBLISHED"
    BY <2>3 DEF Claim, Due, Exists, Statuses, TypeOK
  <2> QED BY <1>0, <2>1, <2>2, <2>4, <2>5 DEF Aside, SendingSteps, TypeOK, At
<1>3. ASSUME NEW p \in Posts, StartJob(w, p) PROVE Aside
  <2> DEFINE f == [flow[w] EXCEPT !.pc = "load", !.job = p, !.todo = @ \ {p}]
  <2>1. f.pc = "load" /\ f.rows = flow[w].rows
    BY <1>0 DEF Flows
  <2>2. flow' = [flow EXCEPT ![w] = f]
    BY <1>3 DEF StartJob, TypeOK, Flows
  <2> HIDE DEF f
  <2>3. UNCHANGED <<target, live, status, incidents>> /\ ~At(w, "record")
    BY <1>3 DEF StartJob, At, tables, history
  <2> QED BY <1>0, <2>1, <2>2, <2>3, StillAside DEF SendingSteps
<1>4. ASSUME Reread(w) PROVE Aside
  <2> DEFINE mine == {p \in flow[w].held : status[p] = "PUBLISHING"}
             f == IF mine = {} THEN Idle ELSE [Idle EXCEPT !.pc = "next", !.todo = mine]
  <2>1. f.pc \in {"idle", "next"} /\ f.rows = {}
    BY DEF Idle
  <2>2. flow' = [flow EXCEPT ![w] = f]
    BY <1>4 DEF Reread
  <2> HIDE DEF f
  <2>3. UNCHANGED <<target, live, status, incidents>> /\ ~At(w, "record")
    BY <1>4 DEF Reread, At, tables
  <2> QED BY <1>0, <2>1, <2>2, <2>3, StillAside DEF SendingSteps
<1> QED BY <1>1, <1>2, <1>3, <1>4 DEF Work

LEMMA NextJobRows ==
  ASSUME NEW q PROVE NextJob(q).pc \in {"idle", "next"} /\ NextJob(q).rows = {}
BY DEF NextJob, Idle

LEMMA OutcomeAside ==
  ASSUME TypeOK, NEW q \in Procs, FinishPost(q) \/ LogOutcome(q) \/ PostVanished(q)
  PROVE  Aside
<1>1. CASE FinishPost(q)
  <2> PICK p \in Posts : p = Job(q)
    BY <1>1 DEF TypeOK, FinishPost, At, Publishes
  <2> DEFINE f == [flow[q] EXCEPT !.pc = "log"]
             s == ResolvePostOutcome(flow[q].outs, MaxAttempts, q \in Users)
  <2>1. f.pc = "log" /\ f.rows = flow[q].rows
    BY DEF TypeOK, Flows
  <2>2. flow' = [flow EXCEPT ![q] = f] /\ ~At(q, "record") /\ UNCHANGED <<target, live>>
    BY <1>1 DEF FinishPost, At
  <2>3. s \in Statuses
    BY DEF ResolvePostOutcome, Statuses
  <2>4. status' = [status EXCEPT ![p] = s] /\ Exists(p)
    BY <1>1 DEF FinishPost
  <2>5. \A x \in Posts : incidents[x] \subseteq incidents'[x]
    BY <1>1 DEF FinishPost, Noted, TypeOK
  <2> HIDE DEF f, s
  <2>6. \A x \in Posts : /\ status'[x] = "DELETED" <=> status[x] = "DELETED"
                         /\ Exists(x)' <=> Exists(x)
                         /\ status'[x] = "PUBLISHED" => status[x] = "PUBLISHED" \/ x = Job(q)
    BY <2>3, <2>4 DEF Exists, Statuses, TypeOK
  <2>7. \A x \in Procs : flow'[x] # flow[x] =>
          /\ flow'[x].pc \notin SendingSteps /\ flow'[x].rows \subseteq flow[x].rows
          /\ ~At(x, "record")
    BY <2>1, <2>2 DEF SendingSteps, TypeOK
  <2> QED BY <1>1, <2>2, <2>5, <2>6, <2>7 DEF Aside
<1>2. CASE LogOutcome(q)
  <2>1. /\ UNCHANGED <<target, live, status, incidents>> /\ ~At(q, "record")
        /\ flow' = [flow EXCEPT ![q] = NextJob(q)]
    BY <1>2 DEF LogOutcome, EndJob, At, tables, history
  <2> QED BY <2>1, NextJobRows, StillAside DEF SendingSteps
<1>3. CASE PostVanished(q)
  <2>1. /\ UNCHANGED <<target, live, status, incidents>> /\ ~At(q, "record")
        /\ flow' = [flow EXCEPT ![q] = NextJob(q)]
    BY <1>3 DEF PostVanished, EndJob, At, tables
  <2> QED BY <2>1, NextJobRows, StillAside DEF SendingSteps
<1> QED BY <1>1, <1>2, <1>3

LEMMA FailureAside ==
  ASSUME TypeOK, Failure PROVE Aside
<1>1. ASSUME NEW w \in Workers, NEW written \in BOOLEAN, MarkFailed(w, written) PROVE Aside
  <2>0. w \in Procs /\ Job(w) \in Posts
    BY <1>1 DEF MarkFailed, Procs, Publishes, TypeOK
  <2> PICK p \in Posts : p = Job(w)
    BY <2>0
  <2> DEFINE lands == written /\ Exists(p)
  <2>1. /\ flow' = [flow EXCEPT ![w] = NextJob(w)] /\ UNCHANGED <<target, live>>
        /\ status' = IF lands THEN [status EXCEPT ![p] = "FAILED"] ELSE status
        /\ incidents' = Noted(p, If("clobbered", lands /\ Clobbers(w, p))
                               \cup If("overtaken", lands /\ p \in unseen)
                               \cup If("orphaned", ~lands /\ holder[p] = w)
                               \cup If("lost", LostResult(w)))
    BY <1>1 DEF MarkFailed, EndJob
  <2>2. \A x \in Posts : incidents[x] \subseteq incidents'[x]
    BY <2>1 DEF Noted, TypeOK
  <2>3. LostResult(w) => "lost" \in incidents'[p]
    BY <2>1 DEF Noted, TypeOK, If
  <2>4. \A x \in Posts : /\ status'[x] = "DELETED" <=> status[x] = "DELETED"
                         /\ Exists(x)' <=> Exists(x)
                         /\ status'[x] = "PUBLISHED" => status[x] = "PUBLISHED"
    BY <2>1 DEF Exists, Statuses, TypeOK
  <2>5. \A x \in Procs : flow'[x] # flow[x] => x = w /\ flow'[x] = NextJob(w)
    BY <2>0, <2>1 DEF TypeOK
  <2> QED BY <2>1, <2>2, <2>3, <2>4, <2>5, NextJobRows DEF Aside, SendingSteps, LostResult
<1>2. ASSUME NEW q \in Procs, Abandon(q) PROVE Aside
  <2>1. /\ flow' = [flow EXCEPT ![q] = Idle] /\ UNCHANGED <<status, target, live>>
        /\ incidents' = [p \in Posts |->
             incidents[p] \cup If("orphaned", holder[p] = q)
                          \cup If("lost", p = Job(q) /\ LostResult(q))]
    BY <1>2 DEF Abandon, tables
  <2>2. Idle.pc = "idle" /\ Idle.rows = {}
    BY DEF Idle
  <2>3. LostResult(q) => Job(q) \in Posts
    BY DEF LostResult, At, TypeOK, Publishes
  <2>4. LostResult(q) => "lost" \in incidents'[Job(q)]
    BY <2>1, <2>3 DEF If
  <2>5. \A x \in Posts : incidents[x] \subseteq incidents'[x]
    BY <2>1
  <2>6. \A x \in Procs : flow'[x] # flow[x] => x = q /\ flow'[x] = Idle
    BY <2>1 DEF TypeOK
  <2> QED BY <2>1, <2>2, <2>4, <2>5, <2>6 DEF Aside, SendingSteps, LostResult, Exists
<1> QED BY <1>1, <1>2 DEF Failure

\* Whoever makes a request clobbers a claim, or nobody works on the post.
LEMMA Unworked ==
  ASSUME TypeOK, ClaimIInv, NEW u \in Users, req[u].op # "none" \/ ~Busy(u), NEW p \in Posts
  PROVE  \/ Clobbers(u, p) \/ "clobbered" \in incidents[p]
         \/ \A q \in Procs : ~Works(q, p) /\ ~Owns(q, p)
<1>1. holder[p] # u
  BY RequestIdle
<1>2. \A q \in Procs : Works(q, p) => Owns(q, p)
  BY DEF Works, SendingSteps, Owns
<1> QED BY <1>1, <1>2, PublishingAssumption DEF ClaimIInv, ClaimInv, Clobbers

LEMMA MovedRows ==
  ASSUME TypeOK, NEW p \in Posts, NEW s \in Statuses, MoveTargets(p, s)
  PROVE  /\ \A x \in Posts \ {p} : target'[x] = target[x]
         /\ \A a \in Accounts :
              \/ RowKept(p, a) /\ (HasRow(p, a) => IsOut(p, a))
              \/ ~IsOut(p, a) /\ RowSet(p, a, s)
<1>1. target' = [target EXCEPT ![p] = [a \in Accounts |->
         IF HasRow(p, a) /\ target[p][a].status # "PUBLISHED"
         THEN [target[p][a] EXCEPT !.status = s] ELSE target[p][a]]]
  BY DEF MoveTargets, TypeOK
<1>2. ASSUME NEW a \in Accounts, HasRow(p, a), ~IsOut(p, a) PROVE RowSet(p, a, s)
  <2> DEFINE new == [target[p][a] EXCEPT !.status = s]
  <2>1. target[p][a] \in TargetRows
    BY <1>2 DEF HasRow, TypeOK
  <2>2. new \in TargetRows /\ new.id = target[p][a].id /\ new.status = s
    BY <2>1 DEF TargetRows
  <2>3. target'[p][a] = new
    BY <1>1, <1>2 DEF IsOut, TypeOK
  <2> HIDE DEF new
  <2> QED BY <1>2, <2>2, <2>3, NoRowAssumption DEF RowSet
<1>3. ASSUME NEW a \in Accounts, ~HasRow(p, a) \/ IsOut(p, a) PROVE RowKept(p, a)
  BY <1>1, <1>3 DEF RowKept, IsOut, TypeOK
<1>4. \A x \in Posts \ {p} : target'[x] = target[x]
  BY <1>1 DEF TypeOK
<1> QED BY <1>2, <1>3, <1>4

LEMMA SavedRows ==
  ASSUME TypeOK, NEW p \in Posts, NEW keep, NEW id \in 0..MaxOps,
         target' = [target EXCEPT ![p] = RowsAfterSave(@, keep, id)]
  PROVE  /\ \A x \in Posts \ {p} : target'[x] = target[x]
         /\ \A a \in Accounts : HasRow(p, a)' => ~IsOut(p, a)'
<1>1. target'[p] = RowsAfterSave(target[p], keep, id)
  BY DEF TypeOK
<1>2. ASSUME NEW a \in Accounts, HasRow(p, a)' PROVE target'[p][a].status = "DRAFT"
  <2>1. target[p][a] \in TargetRows \cup {NoRow}
    BY DEF TypeOK
  <2>2. target'[p][a] = IF target[p][a] = NoRow THEN NewRow(id)
                        ELSE [target[p][a] EXCEPT !.status = "DRAFT"]
    BY <1>1, <1>2 DEF RowsAfterSave, HasRow
  <2> QED BY <2>1, <2>2 DEF TargetRows, NewRow
<1> QED BY <1>2 DEF IsOut, TypeOK

LEMMA StatusRewrites ==
  ASSUME TypeOK, ClaimIInv, NEW u \in Users, NEW s \in Statuses \ {"PUBLISHED"},
         req[u].op # "none", Exists(req[u].post), SetStatus(u, s)
  PROVE  \E p \in Posts : Rewritten(p)
<1> PICK p \in Posts : p = req[u].post
  BY DEF TypeOK, InFlight, NoReq
<1>1. /\ status' = [status EXCEPT ![p] = s] /\ UNCHANGED <<flow, live>> /\ MoveTargets(p, s)
      /\ incidents' = Noted(p, If("clobbered", Clobbers(u, p)) \cup If("overtaken", req[u].stale))
  BY DEF SetStatus
<1>2. \A x \in Posts \ {p} : /\ target'[x] = target[x] /\ status'[x] = status[x]
                             /\ incidents'[x] = incidents[x]
  BY <1>1, MovedRows DEF Noted, TypeOK
<1>3. incidents[p] \subseteq incidents'[p] /\ (Clobbers(u, p) => "clobbered" \in incidents'[p])
  BY <1>1 DEF Noted, If, TypeOK
<1>4. "clobbered" \in incidents'[p] \/ \A q \in Procs : ~Works(q, p)
  BY <1>3, Unworked
<1>5. /\ \A a \in Accounts : HasRow(p, a)' /\ IsOut(p, a)' => target'[p][a] = target[p][a]
      /\ \A a \in Targets(p) : IsOut(p, a) => target'[p][a] = target[p][a]
  BY <1>1, MovedRows DEF RowKept, RowSet, IsOut, Targets
<1>6. status'[p] = s /\ status[p] # "DELETED"
  BY <1>1 DEF TypeOK, Exists, Statuses
<1>7. Rewritten(p)
  BY <1>1, <1>2, <1>3, <1>4, <1>5, <1>6 DEF Rewritten
<1> QED BY <1>7

LEMMA WriteRewrites ==
  ASSUME TypeOK, GateInv, ClaimIInv, NEW u \in Users, Write(u)
  PROVE  Aside \/ \E p \in Posts : Rewritten(p)
<1>1. CASE \/ SubmitForReview(u) \/ Approve(u) \/ Reject(u) \/ Schedule(u) \/ Unschedule(u)
           \/ BackToDraft(u)
  <2>1. PICK s \in Statuses \ {"PUBLISHED"} : SetStatus(u, s)
    BY <1>1 DEF SubmitForReview, Approve, Reject, Schedule, Unschedule, BackToDraft, Statuses
  <2>2. req[u].op # "none" /\ Exists(req[u].post)
    BY <1>1 DEF SubmitForReview, Approve, Reject, Schedule, Unschedule, BackToDraft, Writing
  <2> QED BY <2>1, <2>2, StatusRewrites
<1>2. CASE Reschedule(u) \/ Gone(u)
  BY <1>2, RequestAside
<1>3. ASSUME NEW keep \in SUBSET Accounts, Save(u, keep) PROVE \E p \in Posts : Rewritten(p)
  <2>0. req[u].op = "save" /\ req[u] \in InFlight /\ Exists(req[u].post)
    BY <1>3 DEF Save, Writing, TypeOK, NoReq
  <2> PICK p \in Posts : p = req[u].post
    BY <2>0 DEF InFlight
  <2> DEFINE published == \E a \in Targets(p) : target[p][a].status = "PUBLISHED"
  <2>1. StatusAfterEdit(req[u].from) = "DRAFT"
    BY <2>0 DEF GateInv, RequestCleared, StatusAfterEdit
  <2>2. /\ status' = [status EXCEPT ![p] = "DRAFT"] /\ UNCHANGED <<flow, live>>
        /\ incidents' = Noted(p, If("clobbered", Clobbers(u, p)) \cup If("reset", published))
        /\ target' = [target EXCEPT ![p] = RowsAfterSave(@, keep, req[u].no)]
    BY <1>3, <2>1 DEF Save
  <2>3. /\ incidents[p] \subseteq incidents'[p]
        /\ Clobbers(u, p) => "clobbered" \in incidents'[p]
        /\ published => "reset" \in incidents'[p]
    BY <2>2 DEF Noted, If, TypeOK
  <2>4. \A a \in Targets(p) : IsOut(p, a) => "reset" \in incidents'[p]
    BY <2>3 DEF IsOut
  <2> HIDE DEF published
  <2>5. "clobbered" \in incidents'[p] \/ \A q \in Procs : ~Works(q, p)
    BY <2>0, <2>3, Unworked
  <2>6. /\ \A x \in Posts \ {p} : target'[x] = target[x]
        /\ \A a \in Accounts : HasRow(p, a)' => ~IsOut(p, a)'
    BY <2>0, <2>2, SavedRows DEF InFlight
  <2>7. \A x \in Posts \ {p} : status'[x] = status[x] /\ incidents'[x] = incidents[x]
    BY <2>2 DEF Noted, TypeOK
  <2>8. status'[p] = "DRAFT" /\ status[p] # "DELETED"
    BY <2>0, <2>2 DEF Exists, Statuses, TypeOK
  <2>9. Rewritten(p)
    BY <2>2, <2>3, <2>4, <2>5, <2>6, <2>7, <2>8 DEF Rewritten, Statuses
  <2> QED BY <2>9
<1>4. CASE Delete(u)
  <2>0. req[u].op = "delete" /\ req[u] \in InFlight /\ Exists(req[u].post)
    BY <1>4 DEF Delete, Writing, TypeOK, NoReq
  <2> PICK p \in Posts : p = req[u].post
    BY <2>0 DEF InFlight
  <2>1. /\ status' = [status EXCEPT ![p] = "DELETED"] /\ UNCHANGED <<flow, live, incidents>>
        /\ target' = [target EXCEPT ![p] = [a \in Accounts |-> NoRow]]
    BY <1>4 DEF Delete, history
  <2>2. /\ \A a \in Accounts : ~HasRow(p, a)'
        /\ \A x \in Posts \ {p} : target'[x] = target[x] /\ status'[x] = status[x]
        /\ status'[p] = "DELETED" /\ status[p] # "DELETED"
    BY <2>0, <2>1 DEF HasRow, Exists, Statuses, TypeOK
  <2>3. Rewritten(p)
    BY <2>1, <2>2 DEF Rewritten
  <2> QED BY <2>3
<1> QED BY <1>1, <1>2, <1>3, <1>4 DEF Write

LEMMA CreateRewrites ==
  ASSUME TypeOK, ClaimIInv, SettleInv, NEW u \in Users, NEW p \in Posts,
         NEW keep \in SUBSET Accounts, NEW at, Create(u, p, keep, at)
  PROVE  Rewritten(p)
<1>1. /\ status[p] = "UNUSED" /\ status' = [status EXCEPT ![p] = "DRAFT"] /\ ops + 1 \in 0..MaxOps
      /\ UNCHANGED <<flow, live, incidents>> /\ ~Busy(u)
      /\ target' = [target EXCEPT ![p] = RowsAfterSave(@, keep, ops + 1)]
  BY PublishingAssumption DEF Create, TypeOK
<1>2. "clobbered" \in incidents[p] \/ \A q \in Procs : ~Works(q, p)
  BY <1>1, Alone
<1>3. Targets(p) = {}
  BY <1>1 DEF SettleInv, Exists, Statuses
<1>4. /\ \A x \in Posts \ {p} : target'[x] = target[x]
      /\ \A a \in Accounts : HasRow(p, a)' => ~IsOut(p, a)'
  BY <1>1, SavedRows
<1>5. status'[p] = "DRAFT" /\ \A x \in Posts \ {p} : status'[x] = status[x]
  BY <1>1 DEF TypeOK
<1> QED BY <1>1, <1>2, <1>3, <1>4, <1>5 DEF Rewritten, Statuses

LEMMA SettleInit == Init => SettleInv
<1> SUFFICES ASSUME Init PROVE SettleInv
  OBVIOUS
<1>1. \A p \in Posts : Targets(p) = {} /\ ~Exists(p)
  BY DEF Init, Targets, HasRow, Exists, Statuses
<1>2. \A q \in Procs : /\ flow[q].pc = "idle" /\ flow[q].rows = {}
                       /\ \A p : ~Works(q, p)
  BY DEF Init, Idle, Works, SendingSteps
<1> QED BY <1>1, <1>2 DEF SettleInv, RowsApart, At, Exists, Statuses

LEMMA SettleNext ==
  TypeOK /\ GateInv /\ ClaimIInv /\ SettleInv /\ [Next]_vars => SettleInv'
<1> SUFFICES ASSUME TypeOK, TypeOK', GateInv, ClaimIInv, SettleInv, [Next]_vars
             PROVE  SettleInv'
  BY TypeStep
<1>1. CASE Advance \/ UNCHANGED vars
  <2>1. Aside
    BY <1>1 DEF Advance, vars, tables, history, Aside, Exists
  <2> QED BY <2>1, AsideSettles
<1>2. ASSUME NEW u \in Users, Request(u) \/ Respond(u) PROVE SettleInv'
  <2>1. Aside \/ \E p \in Posts : Rewritten(p)
    BY <1>2, RequestAside, NowAside, WriteRewrites, CreateRewrites DEF Request, Respond
  <2> QED BY <2>1, AsideSettles, RewrittenSettles
<1>3. CASE \E w \in Workers : (\E t \in 0..now : Tick(w, t)) \/ Work(w)
  BY <1>3, WorkAside, AsideSettles
<1>4. CASE \E q \in Procs : PublishStep(q)
  BY <1>4, ReadSettles, MarkSettles, SendSettles, RecordSettles, OutcomeAside, AsideSettles
     DEF PublishStep
<1>5. CASE Failure
  BY <1>5, FailureAside, AsideSettles
<1> QED BY <1>1, <1>2, <1>3, <1>4, <1>5 DEF Next

LEMMA RowsSettled == Spec => []SettleInv
BY Typing, ReviewHolds, ClaimsStand, SettleInit, SettleNext, PTL DEF Spec

\* A post that reads PUBLISHED stands on every account it is targeted at, and each of
\* its rows says so, unless a status was written under a claim on it.
THEOREM PublishedComplete == Spec => []PublishedIsComplete
<1>1. TypeOK /\ SettleInv => PublishedIsComplete
  BY DEF SettleInv, PublishedIsComplete, IsOut, Targets
<1> QED BY <1>1, Typing, RowsSettled, PTL

-----------------------------------------------------------------------------
(***************************************************************************)
(* Once on an account. While nothing of the named kinds happened to a      *)
(* post, what stands on an account has a row that says so or a flow that   *)
(* is about to write it, and what a flow has still to send stands nowhere. *)
(***************************************************************************)
Pure(p) == incidents[p] \cap {"clobbered", "lost", "unacked", "reset"} = {}

Recording(q, p, a) ==
  At(q, "record") /\ Job(q) = p /\ flow[q].row.acc = a /\ flow[q].ok

Recorded(p, a) == (HasRow(p, a) /\ IsOut(p, a)) \/ \E q \in Procs : Recording(q, p, a)

Unsent(q, p) ==
  /\ \A r \in flow[q].rows : live[p][r.acc] = 0
  /\ At(q, "record") /\ ~flow[q].ok => live[p][flow[q].row.acc] = 0

Once(p) ==
  /\ \A a \in Accounts : live[p][a] <= 1
  /\ status[p] # "DELETED" => \A a \in Accounts : live[p][a] >= 1 => Recorded(p, a)
  /\ \A q \in Procs : Works(q, p) => Unsent(q, p)

OnceInv == \A p \in Posts : Pure(p) => Once(p)

LEMMA RecordingWorks ==
  ASSUME NEW q, NEW p, NEW a, Recording(q, p, a) PROVE Works(q, p)
BY DEF Recording, Works, SendingSteps, At

\* A post no step touches, with the flows that work on it.
LEMMA OnceKept ==
  ASSUME NEW p \in Posts, Once(p), target'[p] = target[p], status'[p] = status[p],
         live'[p] = live[p], \A q \in Procs : Works(q, p) \/ Works(q, p)' => flow'[q] = flow[q]
  PROVE  Once(p)'
<1>1. \A q \in Procs : Works(q, p)' => Works(q, p) /\ flow'[q] = flow[q]
  BY DEF Works, Job
<1>2. \A q \in Procs : Works(q, p)' => Unsent(q, p)'
  BY <1>1 DEF Once, Unsent, At
<1>3. \A q \in Procs, a \in Accounts : Recording(q, p, a) => Recording(q, p, a)'
  BY RecordingWorks DEF Recording, At, Job
<1>4. \A a \in Accounts : Recorded(p, a) => Recorded(p, a)'
  BY <1>3 DEF Recorded, HasRow, IsOut
<1> QED BY <1>2, <1>4 DEF Once

LEMMA AsideOnce ==
  ASSUME TypeOK, Aside, OnceInv PROVE OnceInv'
<1> SUFFICES ASSUME NEW p \in Posts, Pure(p)' PROVE Once(p)'
  BY DEF OnceInv
<1>1. Pure(p) /\ Once(p)
  BY DEF Pure, Aside, OnceInv
<1>2. UNCHANGED <<target, live>> /\ (status'[p] = "DELETED" <=> status[p] = "DELETED")
  BY DEF Aside
<1>3. \A q \in Procs : Works(q, p)' => flow'[q] = flow[q]
  BY DEF Aside, Works
<1>4. \A q \in Procs : Works(q, p)' => Unsent(q, p)'
  BY <1>1, <1>2, <1>3 DEF Once, Unsent, At, Works, Job
<1>5. ASSUME NEW q \in Procs, NEW a \in Accounts, Recording(q, p, a)
      PROVE  Recording(q, p, a)'
  <2>1. "lost" \notin incidents'[p]
    BY DEF Pure
  <2>2. flow'[q] = flow[q]
    BY <1>5, <2>1 DEF Aside, Recording
  <2> QED BY <1>5, <2>2 DEF Recording, At, Job
<1>6. \A a \in Accounts : Recorded(p, a) => Recorded(p, a)'
  BY <1>2, <1>5 DEF Recorded, HasRow, IsOut
<1> QED BY <1>1, <1>2, <1>4, <1>6 DEF Once

LEMMA RewrittenOnce ==
  ASSUME TypeOK, NEW p \in Posts, Rewritten(p), OnceInv PROVE OnceInv'
<1> SUFFICES ASSUME NEW x \in Posts, Pure(x)' PROVE Once(x)'
  BY DEF OnceInv
<1>1. UNCHANGED <<flow, live>>
  BY DEF Rewritten
<1>2. CASE x # p
  <2>1. target'[x] = target[x] /\ status'[x] = status[x] /\ incidents'[x] = incidents[x]
    BY <1>2 DEF Rewritten
  <2>2. Once(x)
    BY <2>1 DEF Pure, OnceInv
  <2> QED BY <1>1, <2>1, <2>2, OnceKept
<1>3. CASE x = p
  <2>1. Pure(p) /\ Once(p) /\ "reset" \notin incidents'[p] /\ status[p] # "DELETED"
    BY <1>3 DEF Pure, OnceInv, Rewritten
  <2>2. \A q \in Procs : Works(q, p)' => Unsent(q, p)'
    BY <1>1, <2>1 DEF Once, Works, Job, Unsent, At
  <2>3. ASSUME status'[p] # "DELETED", NEW a \in Accounts, Recorded(p, a)
        PROVE  Recorded(p, a)'
    <3>1. CASE HasRow(p, a) /\ IsOut(p, a)
      <4>1. a \in Targets(p)
        BY <3>1 DEF Targets
      <4>2. target'[p][a] = target[p][a]
        BY <2>1, <2>3, <3>1, <4>1 DEF Rewritten
      <4> QED BY <3>1, <4>2 DEF Recorded, HasRow, IsOut
    <3>2. CASE \E q \in Procs : Recording(q, p, a)
      BY <1>1, <3>2 DEF Recorded, Recording, At, Job
    <3> QED BY <2>3, <3>1, <3>2 DEF Recorded
  <2> QED BY <1>1, <1>3, <2>1, <2>2, <2>3 DEF Once
<1> QED BY <1>2, <1>3

\* A step of q's flow at its post p leaves every other post alone.
LEMMA OthersOnce ==
  ASSUME OnceInv, NEW q \in Procs, NEW p \in Posts, Job(q) = p, Job(q)' = p,
         \A y \in Procs : y # q => flow'[y] = flow[y],
         NEW x \in Posts, x # p, Pure(x), target'[x] = target[x], status'[x] = status[x],
         live'[x] = live[x]
  PROVE  Once(x)'
<1>1. \A y \in Procs : Works(y, x) \/ Works(y, x)' => flow'[y] = flow[y]
  BY DEF Works
<1> QED BY <1>1, OnceKept DEF OnceInv

LEMMA ReadOnce ==
  ASSUME TypeOK, ClaimIInv, NEW q \in Procs, ReadPost(q), OnceInv PROVE OnceInv'
<1>0. Job(q) \in Posts
  BY DEF TypeOK, ReadPost, At, Publishes
<1> PICK p \in Posts : p = Job(q)
  BY <1>0
<1>1. UNCHANGED <<status, target, live, incidents>> /\ At(q, "load") /\ Exists(p)
  BY DEF ReadPost, tables, history
<1>2. PICK rows :
        /\ flow'[q].pc = "mark" /\ flow'[q].job = p /\ flow'[q].rows = rows
        /\ \A x \in Procs : x # q => flow'[x] = flow[x]
        /\ \A r \in rows : ~IsOut(p, r.acc) /\ r.acc \in Accounts
  BY ReadRows
<1> SUFFICES ASSUME NEW x \in Posts, Pure(x)' PROVE Once(x)'
  BY DEF OnceInv
<1>3. Pure(x) /\ Once(x)
  BY <1>1 DEF Pure, OnceInv
<1>4. CASE x # p
  BY <1>1, <1>2, <1>3, <1>4, OthersOnce DEF Job
<1>5. CASE x = p
  <2>1. \A y \in Procs : Works(y, p) => y = q
    <3>1. "clobbered" \notin incidents[p] /\ Owns(q, p)
      BY <1>1, <1>3, <1>5 DEF Pure, Owns, At
    <3> QED BY <3>1, Alone
  <2>2. ~Works(q, p)
    BY <1>1 DEF Works, SendingSteps, At
  <2>3. \A y \in Procs, a \in Accounts : ~Recording(y, p, a)
    BY <2>1, <2>2, RecordingWorks
  <2>4. \A a \in Accounts : live[p][a] >= 1 => HasRow(p, a) /\ IsOut(p, a)
    BY <1>1, <1>3, <1>5, <2>3 DEF Once, Recorded, Exists, Statuses
  <2>5. \A r \in rows : live[p][r.acc] = 0
    BY <1>2, <2>4 DEF TypeOK
  <2>6. \A y \in Procs : Works(y, p)' => Unsent(y, p)'
    BY <1>1, <1>2, <2>1, <2>2, <2>5 DEF Works, Job, Unsent, At
  <2>7. \A a \in Accounts : Recorded(p, a) => Recorded(p, a)'
    BY <1>1, <2>3 DEF Recorded, HasRow, IsOut
  <2> QED BY <1>1, <1>3, <1>5, <2>6, <2>7 DEF Once
<1> QED BY <1>4, <1>5

LEMMA MarkOnce ==
  ASSUME TypeOK, ClaimIInv, NEW q \in Procs, MarkTargets(q), OnceInv PROVE OnceInv'
<1>0. PICK p \in Posts :
        /\ p = Job(q)
        /\ \A x \in Posts \ {p} : target'[x] = target[x]
        /\ \A a \in Accounts : RowKept(p, a) \/ (Marked(q, p, a) /\ RowSet(p, a, "PUBLISHING"))
  BY MarkedRows
<1>1. /\ UNCHANGED <<status, live, incidents>>
      /\ flow[q].pc = "mark" /\ flow'[q].pc = IF flow[q].rows = {} THEN "finish" ELSE "send"
      /\ flow'[q].rows = flow[q].rows /\ flow'[q].job = flow[q].job
      /\ \A x \in Procs : x # q => flow'[x] = flow[x]
  BY DEF MarkTargets, At, history, TypeOK, Flows
<1> SUFFICES ASSUME NEW x \in Posts, Pure(x)' PROVE Once(x)'
  BY DEF OnceInv
<1>2. Pure(x) /\ Once(x)
  BY <1>1 DEF Pure, OnceInv
<1>3. CASE x # p
  BY <1>0, <1>1, <1>2, <1>3, OthersOnce DEF Job
<1>4. CASE x = p
  <2>1. Works(q, p) /\ Unsent(q, p)
    BY <1>0, <1>1, <1>2, <1>4 DEF Works, SendingSteps, Once
  <2>2. \A y \in Procs : Works(y, p)' => Unsent(y, p)'
    BY <1>0, <1>1, <1>2, <1>4, <2>1 DEF Works, Job, Unsent, At, Once
  <2>3. ASSUME NEW a \in Accounts, live[p][a] >= 1, Recorded(p, a) PROVE Recorded(p, a)'
    <3>1. ~Marked(q, p, a)
      BY <2>1, <2>3 DEF Marked, Unsent, TypeOK
    <3>2. target'[p][a] = target[p][a]
      BY <1>0, <3>1 DEF RowKept
    <3>3. \A y \in Procs : Recording(y, p, a) => Recording(y, p, a)'
      BY <1>1 DEF Recording, At, Job
    <3> QED BY <2>3, <3>2, <3>3 DEF Recorded, HasRow, IsOut
  <2> QED BY <1>1, <1>2, <1>4, <2>2, <2>3 DEF Once
<1> QED BY <1>3, <1>4

LEMMA SendOnce ==
  ASSUME TypeOK, ClaimIInv, SettleInv, NEW q \in Procs, NEW r \in flow[q].rows,
         NEW answer \in Answers, SendTarget(q, r, answer), OnceInv
  PROVE  OnceInv'
<1>a. Job(q) \in Posts /\ r.acc \in Accounts
  BY DEF TypeOK, SendTarget, At, Publishes, Flows, Rows
<1> PICK p \in Posts : p = Job(q)
  BY <1>a
<1>1. /\ UNCHANGED <<status, target>>
      /\ incidents' = Noted(p, If("unacked", answer = "unacked"))
      /\ flow[q].pc = "send"
      /\ flow'[q].pc = "record" /\ flow'[q].job = p /\ flow'[q].rows = flow[q].rows \ {r}
      /\ flow'[q].row = r /\ flow'[q].ok = (answer = "ok")
      /\ \A x \in Procs : x # q => flow'[x] = flow[x]
  BY DEF SendTarget, At, tables, TypeOK, Flows, Job
<1>b. live' = IF answer = "refused" THEN live ELSE [live EXCEPT ![p][r.acc] = @ + 1]
  BY DEF SendTarget
<1> SUFFICES ASSUME NEW x \in Posts, Pure(x)' PROVE Once(x)'
  BY DEF OnceInv
<1>2. Pure(x) /\ Once(x)
  BY <1>1 DEF Pure, OnceInv, Noted, TypeOK
<1>3. CASE x # p
  <2>1. live'[x] = live[x]
    BY <1>b, <1>3 DEF TypeOK
  <2> QED BY <1>1, <1>2, <1>3, <2>1, OthersOnce DEF Job
<1>4. CASE x = p
  <2>1. Works(q, p) /\ Unsent(q, p) /\ Unsent(q, p) /\ live[p][r.acc] = 0
    BY <1>1, <1>2, <1>4 DEF Works, SendingSteps, Once, Unsent
  <2>2. answer # "unacked" /\ "clobbered" \notin incidents[p]
    BY <1>1, <1>2, <1>4 DEF Pure, Noted, If, TypeOK
  <2>3. \A y \in Procs : Works(y, p) => y = q
    BY <2>1, <2>2, Alone
  <2>4. \A a \in Accounts : live'[p][a] = IF a = r.acc /\ answer = "ok" THEN 1 ELSE live[p][a]
    BY <1>a, <1>b, <2>1, <2>2 DEF Answers, TypeOK
  <2>5. \A s \in flow'[q].rows : s.acc # r.acc /\ s.acc \in Accounts
    BY <1>1 DEF SettleInv, RowsApart, TypeOK, Flows, Rows
  <2>6. Unsent(q, p)'
    <3>1. \A s \in flow'[q].rows : live'[p][s.acc] = 0
      BY <1>1, <2>1, <2>4, <2>5 DEF Unsent
    <3>2. ~flow'[q].ok => answer # "ok"
      BY <1>1
    <3>3. ~flow'[q].ok => live'[p][r.acc] = 0
      BY <1>a, <2>1, <2>4, <3>2
    <3> QED BY <1>1, <3>1, <3>3 DEF Unsent
  <2>7. \A y \in Procs : Works(y, p)' => y = q
    BY <1>1, <2>3 DEF Works, Job
  <2>8. ASSUME NEW a \in Accounts, live'[p][a] >= 1, status[p] # "DELETED" PROVE Recorded(p, a)'
    <3>1. CASE a = r.acc /\ answer = "ok"
      BY <1>1, <3>1 DEF Recorded, Recording, At, Job
    <3>2. CASE ~(a = r.acc /\ answer = "ok")
      <4>1. Recorded(p, a)
        BY <1>2, <1>4, <2>4, <2>8, <3>2 DEF Once
      <4>2. \A y \in Procs : ~Recording(y, p, a)
        BY <1>1, <2>3, RecordingWorks DEF Recording, At
      <4> QED BY <1>1, <4>1, <4>2 DEF Recorded, HasRow, IsOut
    <3> QED BY <3>1, <3>2
  <2> QED BY <1>1, <1>2, <1>4, <2>4, <2>6, <2>7, <2>8 DEF Once
<1> QED BY <1>3, <1>4

LEMMA RecordOnce ==
  ASSUME TypeOK, ClaimIInv, SettleInv, NEW q \in Procs, RecordTarget(q), OnceInv PROVE OnceInv'
<1> DEFINE r == flow[q].row
<1>0. PICK p \in Posts :
        /\ p = Job(q) /\ r.acc \in Accounts
        /\ \A x \in Posts \ {p} : target'[x] = target[x]
        /\ \A a \in Accounts :
             \/ RowKept(p, a) /\ (a = r.acc => ~RowStands(p, r))
             \/ /\ a = r.acc /\ RowStands(p, r)
                /\ RowSet(p, a, IF flow[q].ok THEN "PUBLISHED" ELSE "FAILED")
  BY RecordedRows
<1>1. /\ UNCHANGED <<status, live, incidents>>
      /\ flow[q].pc = "record"
      /\ flow'[q].pc = IF flow[q].rows = {} THEN "finish" ELSE "send"
      /\ flow'[q].job = p /\ flow'[q].rows = flow[q].rows
      /\ \A x \in Procs : x # q => flow'[x] = flow[x]
  BY <1>0, RecordFlow
<1> SUFFICES ASSUME NEW x \in Posts, Pure(x)' PROVE Once(x)'
  BY DEF OnceInv
<1>2. Pure(x) /\ Once(x)
  BY <1>1 DEF Pure, OnceInv
<1>3. CASE x # p
  BY <1>0, <1>1, <1>2, <1>3, OthersOnce DEF Job
<1>4. CASE x = p
  <2>1. Works(q, p) /\ Unsent(q, p)
    BY <1>0, <1>1, <1>2, <1>4 DEF Works, SendingSteps, Once
  <2>2. \A y \in Procs : Works(y, p)' => Unsent(y, p)'
    BY <1>0, <1>1, <1>2, <1>4, <2>1 DEF Works, Job, Unsent, At, Once
  <2>3. status[p] # "DELETED" => RowStands(p, r)
    <3>1. Settled(q, p)
      BY <1>2, <1>4, <2>1 DEF Pure, SettleInv
    <3>2. r \in Unsettled(q)
      BY <1>1 DEF Unsettled, At
    <3> QED BY <3>1, <3>2 DEF Settled
  <2>4. ASSUME NEW a \in Accounts, live[p][a] >= 1, status[p] # "DELETED" PROVE Recorded(p, a)'
    <3>0. Recorded(p, a)
      BY <1>2, <1>4, <2>4 DEF Once
    <3>1. CASE a = r.acc
      <4>1. flow[q].ok
        BY <1>1, <2>1, <2>4, <3>1 DEF Unsent, At
      <4>2. RowSet(p, a, "PUBLISHED")
        BY <1>0, <2>3, <2>4, <3>1, <4>1
      <4> QED BY <4>2 DEF RowSet, Recorded, HasRow, IsOut
    <3>2. CASE a # r.acc
      <4>1. target'[p][a] = target[p][a]
        BY <1>0, <3>2 DEF RowKept
      <4>2. \A y \in Procs : Recording(y, p, a) => Recording(y, p, a)'
        BY <1>1, <3>2 DEF Recording, At, Job
      <4> QED BY <3>0, <4>1, <4>2 DEF Recorded, HasRow, IsOut
    <3> QED BY <3>1, <3>2
  <2> QED BY <1>1, <1>2, <1>4, <2>2, <2>4 DEF Once
<1> QED BY <1>3, <1>4

LEMMA OnceNext ==
  TypeOK /\ GateInv /\ ClaimIInv /\ SettleInv /\ OnceInv /\ [Next]_vars => OnceInv'
<1> SUFFICES ASSUME TypeOK, GateInv, ClaimIInv, SettleInv, OnceInv, [Next]_vars PROVE OnceInv'
  OBVIOUS
<1>1. CASE Advance \/ UNCHANGED vars
  <2>1. Aside
    BY <1>1 DEF Advance, vars, tables, history, Aside, Exists
  <2> QED BY <2>1, AsideOnce
<1>2. ASSUME NEW u \in Users, Request(u) \/ Respond(u) PROVE OnceInv'
  <2>1. Aside \/ \E p \in Posts : Rewritten(p)
    BY <1>2, RequestAside, NowAside, WriteRewrites, CreateRewrites DEF Request, Respond
  <2> QED BY <2>1, AsideOnce, RewrittenOnce
<1>3. CASE \E w \in Workers : (\E t \in 0..now : Tick(w, t)) \/ Work(w)
  BY <1>3, WorkAside, AsideOnce
<1>4. CASE \E q \in Procs : PublishStep(q)
  BY <1>4, ReadOnce, MarkOnce, SendOnce, RecordOnce, OutcomeAside, AsideOnce DEF PublishStep
<1>5. CASE Failure
  BY <1>5, FailureAside, AsideOnce
<1> QED BY <1>1, <1>2, <1>3, <1>4, <1>5 DEF Next

\* A post stands on an account at most once, unless its claim was clobbered, a result was
\* lost, a provider published and answered with an error, or an edit reset a published row.
THEOREM StandsOnce == Spec => []AtMostOnce
<1>1. Init => OnceInv
  BY DEF Init, OnceInv, Once, Works, SendingSteps, Idle, Procs
<1>2. TypeOK /\ OnceInv => AtMostOnce
  BY DEF TypeOK, OnceInv, Once, Pure, AtMostOnce
<1> QED BY <1>1, <1>2, OnceNext, Typing, ReviewHolds, ClaimsStand, RowsSettled, PTL DEF Spec

-----------------------------------------------------------------------------
(***************************************************************************)
(* Reviewed content. A post with content that no approval covers is in a   *)
(* status before review, nobody publishes it, and no request made after    *)
(* the edit is about to schedule it or to take it back to APPROVED.        *)
(***************************************************************************)
InSight(p) == incidents[p] \cap {"overtaken", "clobbered"} = {}

Fresh(u, p) ==
  req[u].op \in {"schedule", "unschedule"} /\ req[u].post = p /\ ~req[u].stale

Shown(p) ==
  \/ status[p] \in Reviewed
  \/ \E q \in Procs : Owns(q, p)
  \/ \E u \in Users : Fresh(u, p)

SeenInv == \A p \in unseen : InSight(p) => ~Shown(p)

\* A post nobody publishes is published only after a claim on a reviewed status.
LEMMA OwnersKept ==
  ASSUME TypeOK, NEW q \in Procs, NEW f, ClaimFrame(q, f), NEW p \in Posts,
         NEW x \in Procs, Owns(x, p)'
  PROVE  Owns(x, p) \/ status[p] \in Reviewed
<1>1. CASE x # q
  <2>1. flow'[x] = flow[x]
    BY <1>1 DEF ClaimFrame, TypeOK
  <2> QED BY <2>1, OwnsBefore, OwnsAfter
<1>2. CASE x = q
  <2>1. OwnsIn(q, f, p)
    BY <1>2, OwnsAfter DEF ClaimFrame, TypeOK
  <2>2. OwnsIn(q, flow[q], p) \/ status[p] \in Claimable
    BY <2>1 DEF ClaimFrame, ClaimTaken, ClaimLeft, ClaimGivenUp
  <2> QED BY <1>2, <2>2, OwnsBefore DEF Claimable, Reviewed
<1> QED BY <1>1, <1>2

LEMMA FrameSees ==
  ASSUME TypeOK, TypeOK', SeenInv, NEW q \in Procs, NEW f, ClaimFrame(q, f), unseen' \subseteq unseen,
         \A p \in unseen' : InSight(p)' =>
            /\ status'[p] \in Reviewed => Shown(p)
            /\ \A u \in Users : Fresh(u, p)' => Shown(p)
  PROVE  SeenInv'
<1> SUFFICES ASSUME NEW p \in unseen', InSight(p)', Shown(p)' PROVE FALSE
  BY DEF SeenInv
<1>1. p \in Posts /\ p \in unseen
  BY DEF TypeOK
<1>2. InSight(p)
  BY <1>1 DEF InSight, ClaimFrame
<1>3. Shown(p)
  BY <1>1, OwnersKept DEF Shown
<1> QED BY <1>1, <1>2, <1>3 DEF SeenInv

\* Statuses and requests of the steps that make no request.
LEMMA WorkSees ==
  ASSUME TypeOK, NEW w \in Workers, (\E t \in 0..now : Tick(w, t)) \/ Work(w)
  PROVE  /\ UNCHANGED <<unseen, req>>
         /\ \A p \in Posts : status'[p] = status[p] \/ status[p] \in Reviewed
<1>1. UNCHANGED <<unseen, req>>
  BY DEF Tick, Work, ClaimDue, StartJob, Reread, history
<1>2. ASSUME NEW p \in Posts, ClaimDue(w, p)
      PROVE  \A x \in Posts : status'[x] = status[x] \/ status[x] \in Reviewed
  BY <1>2 DEF ClaimDue, Claim, Due, Reviewed, TypeOK
<1>3. ASSUME UNCHANGED status PROVE \A x \in Posts : status'[x] = status[x]
  BY <1>3
<1> QED BY <1>1, <1>2, <1>3 DEF Tick, Work, StartJob, Reread, tables

LEMMA PublishSees ==
  ASSUME TypeOK, NEW q \in Procs, PublishStep(q)
  PROVE  /\ UNCHANGED <<unseen, req>>
         /\ \A p \in Posts : status'[p] = status[p] \/ Owns(q, p)
<1>1. UNCHANGED <<unseen, req>>
  BY DEF PublishStep, ReadPost, MarkTargets, RecordTarget, SendTarget, FinishPost, LogOutcome,
         PostVanished, history
<1>2. ASSUME FinishPost(q) PROVE \A p \in Posts : status'[p] = status[p] \/ Owns(q, p)
  BY <1>2 DEF FinishPost, At, Owns, TypeOK
<1>3. ASSUME UNCHANGED status PROVE \A p \in Posts : status'[p] = status[p]
  BY <1>3
<1> QED BY <1>1, <1>2, <1>3 DEF PublishStep, ReadPost, MarkTargets, RecordTarget, SendTarget,
                               LogOutcome, PostVanished, tables

LEMMA FailureSees ==
  ASSUME TypeOK, Failure
  PROVE  /\ UNCHANGED unseen
         /\ \A u \in Users : req'[u] \in {req[u], NoReq}
         /\ \A p \in unseen : status'[p] = status[p] \/ "overtaken" \in incidents'[p]
<1>1. ASSUME NEW w \in Workers, NEW written \in BOOLEAN, MarkFailed(w, written)
      PROVE  \A p \in unseen : status'[p] = status[p] \/ "overtaken" \in incidents'[p]
  BY <1>1 DEF MarkFailed, Noted, If, TypeOK, Publishes
<1>2. ASSUME NEW w, NEW written, MarkFailed(w, written) PROVE UNCHANGED <<unseen, req>>
  BY <1>2 DEF MarkFailed
<1>3. ASSUME NEW q, Abandon(q)
      PROVE  UNCHANGED <<status, unseen>> /\ \A u \in Users : req'[u] \in {req[u], NoReq}
  BY <1>3 DEF Abandon, tables, TypeOK
<1> QED BY <1>1, <1>2, <1>3 DEF Failure

LEMMA FreshKept ==
  ASSUME NEW u \in Users, NEW p, req'[u] = req[u] \/ req'[u] = NoReq, Fresh(u, p)'
  PROVE  Fresh(u, p)
BY DEF Fresh, NoReq

\* A status written past review is written by an approval, or on a request that is not
\* fresh, or on one that is.
LEMMA WriteSees ==
  ASSUME TypeOK, NEW u \in Users,
         \/ SubmitForReview(u) \/ Approve(u) \/ Reject(u) \/ Schedule(u) \/ Unschedule(u)
         \/ BackToDraft(u) \/ Reschedule(u) \/ Delete(u) \/ Gone(u) \/ ClaimLost(u)
  PROVE  /\ unseen' \subseteq unseen
         /\ \A v \in Users : req'[v] \in {req[v], NoReq}
         /\ \A p \in unseen' : status'[p] \in Reviewed =>
              status[p] \in Reviewed \/ "overtaken" \in incidents'[p] \/ Fresh(u, p)
<1>0. \A p \in unseen : p \in Posts
  BY DEF TypeOK
<1>1. CASE Reschedule(u) \/ Delete(u) \/ Gone(u) \/ ClaimLost(u)
  <2>1. UNCHANGED unseen /\ req' = [req EXCEPT ![u] = NoReq]
    BY <1>1 DEF Reschedule, Delete, Gone, ClaimLost, Done, history
  <2>2. UNCHANGED status \/ status' = [status EXCEPT ![req[u].post] = "DELETED"]
    BY <1>1 DEF Reschedule, Delete, Gone, ClaimLost, tables
  <2> QED BY <1>0, <2>1, <2>2 DEF Reviewed, TypeOK
<1>2. CASE \/ SubmitForReview(u) \/ Approve(u) \/ Reject(u) \/ Schedule(u) \/ Unschedule(u)
           \/ BackToDraft(u)
  <2>0. req[u] \in InFlight
    BY <1>2 DEF SubmitForReview, Approve, Reject, Schedule, Unschedule, BackToDraft, Writing,
                TypeOK, NoReq
  <2> PICK p \in Posts : p = req[u].post
    BY <2>0 DEF InFlight
  <2> DEFINE NewStatus(s) ==
        /\ status' = [status EXCEPT ![p] = s] /\ req' = [req EXCEPT ![u] = NoReq]
        /\ incidents' = Noted(p, If("clobbered", Clobbers(u, p)) \cup If("overtaken", req[u].stale))
  <2>1. PICK s \in Statuses :
          /\ NewStatus(s)
          /\ \/ s \notin Reviewed /\ UNCHANGED unseen
             \/ req[u].op = "approve" /\ unseen' = IF req[u].stale THEN unseen ELSE unseen \ {p}
             \/ req[u].op \in {"schedule", "unschedule"} /\ UNCHANGED unseen
    BY <1>2 DEF SubmitForReview, Approve, Reject, Schedule, Unschedule, BackToDraft, Writing,
                SetStatus, Done, Statuses, Reviewed
  <2>2. \A x \in Posts \ {p} : status'[x] = status[x]
    BY <2>1 DEF TypeOK
  <2>3. req[u].stale => "overtaken" \in incidents'[p]
    BY <2>1 DEF Noted, If, TypeOK
  <2>4. status'[p] = s
    BY <2>1 DEF TypeOK
  <2>5. \A v \in Users : req'[v] \in {req[v], NoReq}
    BY <2>1 DEF TypeOK
  <2>6. unseen' \subseteq unseen
    BY <2>1
  <2> QED BY <1>0, <2>1, <2>2, <2>3, <2>4, <2>5, <2>6 DEF Fresh
<1> QED BY <1>1, <1>2

LEMMA LoadSees ==
  ASSUME TypeOK, NEW u \in Users, NEW op \in Menu, NEW p \in Posts, NEW at \in Instants(op),
         Load(u, op, p, at)
  PROVE  /\ UNCHANGED <<status, unseen>>
         /\ \A v \in Users, x \in Posts : Fresh(v, x)' => Fresh(v, x) \/ status[x] \in Reviewed
<1>1. UNCHANGED <<status, unseen>> /\ May(op, u, p, at) /\ Exists(p)
  BY DEF Load, tables, history
<1> DEFINE r == [op |-> op, no |-> ops + 1, post |-> p, from |-> status[p], at |-> at,
                 stale |-> FALSE]
<1>2. req' = [req EXCEPT ![u] = r]
  BY DEF Load
<1>3. r.op = op /\ r.post = p
  OBVIOUS
<1> HIDE DEF r
<1>4. op \in {"schedule", "unschedule"} => status[p] \in Reviewed
  BY <1>1 DEF May, CanTransition, Transitions, Exists, Statuses, Reviewed
<1>5. \A v \in Users : req'[v] = IF v = u THEN r ELSE req[v]
  BY <1>2 DEF TypeOK
<1> QED BY <1>1, <1>3, <1>4, <1>5 DEF Fresh

\* An edit: the post it makes unseen is a draft, nobody's, and known to no request.
Edited(p) ==
  /\ unseen' = unseen \cup {p} /\ status'[p] = "DRAFT" /\ UNCHANGED flow
  /\ \A x \in Posts \ {p} : status'[x] = status[x]
  /\ \A x \in Posts : incidents[x] \subseteq incidents'[x]
  /\ "clobbered" \in incidents'[p] \/ \A q \in Procs : ~Owns(q, p)
  /\ \A v \in Users : ~Fresh(v, p)'
  /\ \A v \in Users : \A x \in Posts : Fresh(v, x)' => Fresh(v, x)

LEMMA EditedSees ==
  ASSUME TypeOK, TypeOK', SeenInv, NEW p \in Posts, Edited(p) PROVE SeenInv'
<1> SUFFICES ASSUME NEW x \in unseen', InSight(x)' PROVE ~Shown(x)'
  BY DEF SeenInv
<1>1. x \in Posts
  BY DEF TypeOK
<1>2. \A q \in Procs : Owns(q, x)' <=> Owns(q, x)
  BY DEF Edited, Owns, Job, At
<1>3. CASE x = p
  <2>1. "clobbered" \notin incidents'[p]
    BY <1>3 DEF InSight
  <2>2. status'[p] \notin Reviewed
    BY DEF Edited, Reviewed
  <2> QED BY <1>2, <1>3, <2>1, <2>2 DEF Edited, Shown
<1>4. CASE x # p
  <2>1. x \in unseen /\ InSight(x) /\ status'[x] = status[x]
    BY <1>1, <1>4 DEF Edited, InSight
  <2>2. ~Shown(x)
    BY <2>1 DEF SeenInv
  <2> QED BY <1>1, <1>2, <2>1, <2>2 DEF Edited, Shown
<1> QED BY <1>3, <1>4

LEMMA SaveEdits ==
  ASSUME TypeOK, GateInv, ClaimIInv, NEW u \in Users, NEW keep, Save(u, keep)
  PROVE  \E p \in Posts : Edited(p)
<1>0. req[u].op = "save" /\ req[u] \in InFlight /\ Exists(req[u].post)
  BY DEF Save, Writing, TypeOK, NoReq
<1> PICK p \in Posts : p = req[u].post
  BY <1>0 DEF InFlight
<1>1. StatusAfterEdit(req[u].from) = "DRAFT"
  BY <1>0 DEF GateInv, RequestCleared, StatusAfterEdit
<1> DEFINE published == \E a \in Targets(p) : target[p][a].status = "PUBLISHED"
<1>2. /\ status' = [status EXCEPT ![p] = "DRAFT"] /\ unseen' = unseen \cup {p} /\ UNCHANGED flow
      /\ incidents' = Noted(p, If("clobbered", Clobbers(u, p)) \cup If("reset", published))
      /\ req' = [v \in Users |->
           IF v = u THEN NoReq
           ELSE IF req[v].post = p THEN [req[v] EXCEPT !.stale = TRUE] ELSE req[v]]
  BY <1>1 DEF Save
<1> HIDE DEF published
<1>3. /\ \A x \in Posts : incidents[x] \subseteq incidents'[x]
      /\ Clobbers(u, p) => "clobbered" \in incidents'[p]
  BY <1>2 DEF Noted, If, TypeOK
<1>4. "clobbered" \in incidents'[p] \/ \A q \in Procs : ~Owns(q, p)
  BY <1>0, <1>3, Unworked
<1>5. ASSUME NEW v \in Users
      PROVE  ~Fresh(v, p)' /\ \A x \in Posts : Fresh(v, x)' => Fresh(v, x)
  <2>1. CASE v = u \/ req[v].post # p
    BY <1>2, <2>1 DEF Fresh, NoReq
  <2>2. CASE v # u /\ req[v].post = p
    <3>1. req'[v] = [req[v] EXCEPT !.stale = TRUE] /\ req[v] \in InFlight \cup {NoReq}
      BY <1>2, <2>2 DEF TypeOK
    <3>2. req'[v].stale = TRUE
      BY <3>1 DEF InFlight, NoReq
    <3> QED BY <3>2 DEF Fresh
  <2> QED BY <2>1, <2>2
<1>6. status'[p] = "DRAFT" /\ \A x \in Posts \ {p} : status'[x] = status[x]
  BY <1>2 DEF TypeOK
<1>7. Edited(p)
  BY <1>2, <1>3, <1>4, <1>5, <1>6 DEF Edited
<1> QED BY <1>7

LEMMA CreateEdits ==
  ASSUME TypeOK, GateInv, ClaimIInv, NEW u \in Users, NEW p \in Posts, NEW keep, NEW at,
         Create(u, p, keep, at)
  PROVE  Edited(p)
<1>1. /\ status[p] = "UNUSED" /\ status' = [status EXCEPT ![p] = "DRAFT"]
      /\ unseen' = unseen \cup {p} /\ UNCHANGED <<flow, req, incidents>>
  BY DEF Create
<1>2. "clobbered" \in incidents[p] \/ \A q \in Procs : ~Owns(q, p)
  BY <1>1, PublishingAssumption DEF ClaimIInv, ClaimInv
<1>3. \A v \in Users : ~Fresh(v, p)
  BY <1>1 DEF GateInv, RequestCleared, Fresh
<1>4. \A v \in Users : \A x \in Posts : Fresh(v, x)' <=> Fresh(v, x)
  BY <1>1 DEF Fresh
<1>5. status'[p] = "DRAFT" /\ \A x \in Posts \ {p} : status'[x] = status[x]
  BY <1>1 DEF TypeOK
<1> QED BY <1>1, <1>2, <1>3, <1>4, <1>5 DEF Edited

LEMMA SeenNext ==
  TypeOK /\ GateInv /\ ClaimIInv /\ SeenInv /\ [Next]_vars => SeenInv'
<1> SUFFICES ASSUME TypeOK, TypeOK', GateInv, ClaimIInv, SeenInv, [Next]_vars PROVE SeenInv'
  BY TypeStep
<1>0. \A p \in unseen : p \in Posts
  BY DEF TypeOK
<1>1. CASE Advance \/ UNCHANGED vars
  <2>1. UNCHANGED <<status, unseen, flow, req, incidents>>
    BY <1>1 DEF Advance, vars, tables, history
  <2> QED BY <2>1 DEF SeenInv, InSight, Shown, Owns, Job, At, Fresh
<1>2. ASSUME NEW u \in Users, Request(u) \/ Respond(u) PROVE SeenInv'
  <2>0. u \in Procs
    BY DEF Procs
  <2>1. ASSUME NEW op \in Menu, NEW p \in Posts, NEW at \in Instants(op), Load(u, op, p, at)
        PROVE  SeenInv'
    <3>1. ClaimFrame(u, flow[u])
      BY <2>1, RequestClaims DEF Request
    <3>2. /\ UNCHANGED <<status, unseen>>
          /\ \A v \in Users, x \in Posts : Fresh(v, x)' => Fresh(v, x) \/ status[x] \in Reviewed
      BY <2>1, LoadSees
    <3> QED BY <1>0, <2>0, <3>1, <3>2, FrameSees DEF Shown
  <2>2. ASSUME NEW p \in Posts, NEW keep \in SUBSET Accounts, NEW at, Create(u, p, keep, at)
        PROVE  SeenInv'
    BY <2>2, CreateEdits, EditedSees
  <2>3. ASSUME NEW keep \in SUBSET Accounts, Save(u, keep) PROVE SeenInv'
    BY <2>3, SaveEdits, EditedSees
  <2>4. CASE \/ SubmitForReview(u) \/ Approve(u) \/ Reject(u) \/ Schedule(u) \/ Unschedule(u)
             \/ BackToDraft(u) \/ Reschedule(u) \/ Delete(u) \/ Gone(u) \/ ClaimLost(u)
    <3>1. PICK f : ClaimFrame(u, f)
      BY <2>4, RequestClaims, NowClaims DEF Write
    <3>2. /\ unseen' \subseteq unseen
          /\ \A v \in Users : req'[v] \in {req[v], NoReq}
          /\ \A p \in unseen' : status'[p] \in Reviewed =>
               status[p] \in Reviewed \/ "overtaken" \in incidents'[p] \/ Fresh(u, p)
      BY <2>4, WriteSees
    <3>3. \A p \in unseen' : InSight(p)' =>
            /\ status'[p] \in Reviewed => Shown(p)
            /\ \A v \in Users : Fresh(v, p)' => Shown(p)
      BY <3>2, FreshKept DEF Shown, InSight
    <3> QED BY <2>0, <3>1, <3>2, <3>3, FrameSees
  <2>5. CASE PublishNow(u)
    <3>1. PICK f : ClaimFrame(u, f)
      BY <2>5, NowClaims
    <3>2. UNCHANGED unseen /\ req' = [req EXCEPT ![u] = NoReq]
          /\ \A p \in Posts : status'[p] = status[p] \/ status[p] \in Reviewed
      BY <2>5 DEF PublishNow, Claim, Claimable, Reviewed, TypeOK
    <3>3. \A v \in Users : req'[v] \in {req[v], NoReq}
      BY <3>2 DEF TypeOK
    <3>4. \A p \in unseen' :
            /\ status'[p] \in Reviewed => Shown(p)
            /\ \A v \in Users : Fresh(v, p)' => Shown(p)
      BY <1>0, <3>2, <3>3, FreshKept DEF Shown
    <3> QED BY <2>0, <3>1, <3>2, <3>4, FrameSees
  <2> QED BY <1>2, <2>1, <2>2, <2>3, <2>4, <2>5 DEF Request, Respond, Write
<1>3. ASSUME NEW w \in Workers, (\E t \in 0..now : Tick(w, t)) \/ Work(w) PROVE SeenInv'
  <2>1. PICK f : ClaimFrame(w, f)
    BY <1>3, WorkClaims
  <2>2. \A p \in unseen : /\ status'[p] \in Reviewed => Shown(p)
                          /\ \A u \in Users : Fresh(u, p)' => Shown(p)
    BY <1>0, <1>3, WorkSees DEF Shown, Fresh
  <2> QED BY <1>3, <2>1, <2>2, WorkSees, FrameSees DEF Procs
<1>4. ASSUME NEW q \in Procs, PublishStep(q) PROVE SeenInv'
  <2>1. PICK f : ClaimFrame(q, f)
    BY <1>4, PublishClaims
  <2>2. \A p \in unseen : /\ status'[p] \in Reviewed => Shown(p)
                          /\ \A u \in Users : Fresh(u, p)' => Shown(p)
    BY <1>0, <1>4, PublishSees DEF Shown, Fresh
  <2> QED BY <1>4, <2>1, <2>2, PublishSees, FrameSees
<1>5. CASE Failure
  <2>1. PICK q \in Procs : \E f : ClaimFrame(q, f)
    BY <1>5, FailureClaims
  <2> PICK f : ClaimFrame(q, f)
    BY <2>1
  <2>2. \A p \in unseen : InSight(p)' =>
          /\ status'[p] \in Reviewed => Shown(p)
          /\ \A u \in Users : Fresh(u, p)' => Shown(p)
    BY <1>5, FailureSees, FreshKept DEF Shown, InSight
  <2> QED BY <1>5, <2>2, FailureSees, FrameSees
<1> QED BY <1>1, <1>2, <1>3, <1>4, <1>5 DEF Next

LEMMA EditsSeen == Spec => []SeenInv
<1>1. Init => SeenInv
  BY DEF Init, SeenInv
<1> QED BY <1>1, SeenNext, Typing, ReviewHolds, ClaimsStand, PTL DEF Spec

\* Only SendTarget shows anything, and its flow owns the post.
LEMMA ShownByOwner ==
  TypeOK /\ [Next]_vars =>
    \A p \in Posts : live'[p] # live[p] => \E q \in Procs : Owns(q, p)
<1> SUFFICES ASSUME TypeOK, [Next]_vars, NEW p \in Posts, live'[p] # live[p]
             PROVE  \E q \in Procs : Owns(q, p)
  OBVIOUS
<1>0. live' # live
  OBVIOUS
<1>1. PICK q \in Procs : \E r \in flow[q].rows, answer \in Answers : SendTarget(q, r, answer)
  <2>1. \A u : Request(u) => UNCHANGED live
    BY DEF Request, Load, Create
  <2>2. \A u, s : SetStatus(u, s) => UNCHANGED live
    BY DEF SetStatus
  <2>3. \A u : Write(u) => UNCHANGED live
    BY <2>2 DEF Write, SubmitForReview, Approve, Reject, Schedule, Unschedule, BackToDraft,
                Reschedule, Save, Delete, Gone
  <2>4. \A u : PublishNow(u) \/ ClaimLost(u) => UNCHANGED live
    BY DEF PublishNow, ClaimLost
  <2>5. \A w : (\E t \in 0..now : Tick(w, t)) \/ Work(w) => UNCHANGED live
    BY DEF Tick, Work, ClaimDue, StartJob, Reread
  <2>6. \A q : ReadPost(q) \/ MarkTargets(q) \/ RecordTarget(q) \/ FinishPost(q) \/ LogOutcome(q)
               \/ PostVanished(q) => UNCHANGED live
    BY DEF ReadPost, MarkTargets, RecordTarget, FinishPost, LogOutcome, PostVanished
  <2>7. Failure => UNCHANGED live
    BY DEF Failure, MarkFailed, Abandon
  <2>8. \E q \in Procs : PublishStep(q)
    BY <1>0, <2>1, <2>3, <2>4, <2>5, <2>7 DEF Next, Advance, Respond, vars
  <2> QED BY <1>0, <2>6, <2>8 DEF PublishStep
<1>2. p = Job(q) /\ At(q, "send")
  BY <1>1 DEF SendTarget, TypeOK
<1> QED BY <1>2 DEF Owns, At

\* Content goes out only after an approval of that content, unless a status was written
\* over the edit or the edit came under a claim.
THEOREM ReviewedOnly == Spec => ReviewedContent
<1>1. TypeOK /\ SeenInv /\ [Next]_vars =>
        [\A p \in Posts : live'[p] # live[p] /\ p \in unseen
           => incidents[p] \cap {"overtaken", "clobbered"} # {}]_vars
  BY ShownByOwner DEF SeenInv, Shown, InSight
<1> QED BY <1>1, EditsSeen, Typing, PTL DEF Spec, ReviewedContent
=============================================================================
