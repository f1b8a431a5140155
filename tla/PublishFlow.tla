---------------------------- MODULE PublishFlow ----------------------------
(***************************************************************************)
(* The publish flow (internal/publishing/app/publish.go): a tick claims    *)
(* due posts, PublishNow claims one, and either sends the post's targets   *)
(* one by one, records each result and writes the outcome. Every database  *)
(* statement and every call to a provider is a step of its own; crashes    *)
(* and failing calls come in between.                                      *)
(***************************************************************************)
EXTENDS PostStore

Job(q) == flow[q].job
At(q, pc) == flow[q].pc = pc

\* A worker goes on with the rest of its batch, a request returns.
NextJob(q) ==
  IF flow[q].todo = {} THEN Idle ELSE [Idle EXCEPT !.pc = "next", !.todo = flow[q].todo]

EndJob(q) == flow' = [flow EXCEPT ![q] = NextJob(q)]

\* q's claims on the posts in ps, if they still stand, are over.
Release(q, ps) ==
  holder' = [p \in Posts |-> IF p \in ps /\ holder[p] = q THEN NoProc ELSE holder[p]]

Claim(q, p) ==
  /\ status' = [status EXCEPT ![p] = "PUBLISHING"]
  /\ holder' = [holder EXCEPT ![p] = q]

-----------------------------------------------------------------------------
\* PublishDuePosts: a tick that was sent at t, and may come late or again.
Tick(w, t) ==
  \E batch \in DueBatches(t) \ {{}} :
    /\ ~Busy(w)
    /\ flow' = [flow EXCEPT ![w] = [Idle EXCEPT !.pc = "claim", !.runAt = t, !.todo = batch]]
    /\ UNCHANGED <<tables, now, live, req, ops, faults, history>>

\* Mutant: the claim believes the list and checks nothing again.
ClaimListed(w, p) ==
  LET f == flow[w]
  IN  /\ At(w, "claim")
      /\ p \in f.todo
      /\ Claim(w, p)
      /\ flow' = [flow EXCEPT ![w] =
           [f EXCEPT !.todo = @ \ {p}, !.held = @ \cup {p},
                     !.pc = IF f.todo = {p} THEN "reread" ELSE @]]
      /\ UNCHANGED <<sched, author, approvedBy, target, now, live, req, ops,
                     faults, approvals, unseen, incidents>>

\* ClaimDuePost, for each of the batch in turn: the conditions are checked again.
ClaimDue(w, p) ==
  LET f   == flow[w]
      won == Due(p, f.runAt)
  IN  /\ At(w, "claim")
      /\ p \in f.todo
      /\ IF won THEN Claim(w, p) ELSE UNCHANGED <<status, holder>>
      /\ flow' = [flow EXCEPT ![w] =
           [f EXCEPT !.todo = @ \ {p},
                     !.held = IF won THEN @ \cup {p} ELSE @,
                     !.pc = IF f.todo = {p} THEN "reread" ELSE @]]
      /\ UNCHANGED <<sched, author, approvedBy, target, now, live, req, ops,
                     faults, approvals, unseen, incidents>>

\* Mutant: the reread asks for the posts that are still due.
RereadDue(w) ==
  LET mine == {p \in flow[w].held : Due(p, flow[w].runAt)}
  IN  /\ At(w, "reread")
      /\ Release(w, flow[w].held \ mine)
      /\ flow' = [flow EXCEPT ![w] =
           IF mine = {} THEN Idle ELSE [Idle EXCEPT !.pc = "next", !.todo = mine]]
      /\ UNCHANGED <<tables, now, live, req, ops, faults, approvals, unseen,
                     incidents>>

\* ListPostsPublishing: the claimed posts that are still PUBLISHING.
Reread(w) ==
  LET mine == {p \in flow[w].held : status[p] = "PUBLISHING"}
  IN  /\ At(w, "reread")
      /\ Release(w, flow[w].held \ mine)
      /\ flow' = [flow EXCEPT ![w] =
           IF mine = {} THEN Idle ELSE [Idle EXCEPT !.pc = "next", !.todo = mine]]
      /\ UNCHANGED <<tables, now, live, req, ops, faults, approvals, unseen, incidents>>

StartJob(w, p) ==
  /\ At(w, "next")
  /\ p \in flow[w].todo
  /\ flow' = [flow EXCEPT ![w].pc = "load", ![w].job = p, ![w].todo = @ \ {p}]
  /\ UNCHANGED <<tables, now, live, req, ops, faults, history>>

\* Mutant: what load() saw decides.
PublishLoaded(u) ==
  LET p == req[u].post
  IN  /\ req[u].op = "publish"
      /\ Exists(p)
      /\ Claim(u, p)
      /\ req' = [req EXCEPT ![u] = NoReq]
      /\ flow' = [flow EXCEPT ![u] = [Idle EXCEPT !.pc = "load", !.job = p]]
      /\ UNCHANGED <<sched, author, approvedBy, target, now, live, ops,
                     faults, approvals, unseen, incidents>>

\* PublishNow: ClaimPost decides, whatever load() saw.
PublishNow(u) ==
  LET p == req[u].post
  IN  /\ req[u].op = "publish"
      /\ status[p] \in Claimable
      /\ Claim(u, p)
      /\ req' = [req EXCEPT ![u] = NoReq]
      /\ flow' = [flow EXCEPT ![u] = [Idle EXCEPT !.pc = "load", !.job = p]]
      /\ UNCHANGED <<sched, author, approvedBy, target, now, live, ops,
                     faults, approvals, unseen, incidents>>

ClaimLost(u) ==
  /\ req[u].op = "publish"
  /\ status[req[u].post] \notin Claimable
  /\ req' = [req EXCEPT ![u] = NoReq]
  /\ UNCHANGED <<tables, now, live, flow, ops, faults, history>>

-----------------------------------------------------------------------------
\* Mutant: published targets are sent again.
ReadAll(q) ==
  LET p == Job(q)
  IN  /\ At(q, "load")
      /\ Exists(p)
      /\ flow' = [flow EXCEPT
           ![q].pc   = "mark",
           ![q].rows = {[acc |-> a, id |-> target[p][a].id,
                         attempts |-> target[p][a].attempts] : a \in Targets(p)}]
      /\ UNCHANGED <<tables, now, live, req, ops, faults, history>>

\* PublishPost after the claim. Its reads come first: the targets not
\* published yet are to be sent, the others count as outcomes.
ReadPost(q) ==
  LET p       == Job(q)
      pending == {a \in Targets(p) : target[p][a].status # "PUBLISHED"}
  IN  /\ At(q, "load")
      /\ Exists(p)
      /\ flow' = [flow EXCEPT
           ![q].pc   = "mark",
           ![q].rows = {[acc |-> a, id |-> target[p][a].id,
                         attempts |-> target[p][a].attempts] : a \in pending},
           ![q].outs = {[status |-> "PUBLISHED", attempts |-> target[p][a].attempts] :
                          a \in Targets(p) \ pending}]
      /\ UNCHANGED <<tables, now, live, req, ops, faults, history>>

\* r's row, if it was not deleted (and perhaps inserted anew) meanwhile.
RowStands(p, r) == HasRow(p, r.acc) /\ target[p][r.acc].id = r.id

\* SetTargetsStatus, by row id.
MarkTargets(q) ==
  LET p == Job(q)
      marked == {r.acc : r \in {x \in flow[q].rows : RowStands(p, x)}}
  IN  /\ At(q, "mark")
      /\ target' = [target EXCEPT ![p] = [a \in Accounts |->
           IF a \in marked THEN [@[a] EXCEPT !.status = "PUBLISHING"] ELSE @[a]]]
      /\ flow' = [flow EXCEPT ![q].pc = IF flow[q].rows = {} THEN "finish" ELSE "send"]
      /\ UNCHANGED <<status, sched, author, approvedBy, now, live, req, ops,
                     faults, history>>

\* The provider publishes and says so, refuses, or publishes and answers with
\* an error all the same (a lost answer; the permalink lookup that fails after
\* media_publish).
Answers == {"ok", "refused", "unacked"}
SendTarget(q, r, answer) ==
  LET p == Job(q)
  IN  /\ At(q, "send")
      /\ r \in flow[q].rows
      /\ live' = IF answer = "refused" THEN live ELSE [live EXCEPT ![p][r.acc] = @ + 1]
      /\ flow' = [flow EXCEPT ![q].pc = "record", ![q].rows = @ \ {r},
                              ![q].row = r, ![q].ok = (answer = "ok")]
      /\ incidents' = Noted(p, If("unacked", answer = "unacked"))
      /\ UNCHANGED <<tables, now, req, ops, faults, approvals, unseen, holder>>

\* UpdateTargetResult, by row id; attempts counts from the row as it was read.
RecordTarget(q) ==
  LET p == Job(q)
      r == flow[q].row
      s == IF flow[q].ok THEN "PUBLISHED" ELSE "FAILED"
  IN  /\ At(q, "record")
      /\ target' = IF RowStands(p, r)
                   THEN [target EXCEPT ![p][r.acc].status = s,
                                       ![p][r.acc].attempts = r.attempts + 1]
                   ELSE target
      /\ flow' = [flow EXCEPT
           ![q].pc   = IF flow[q].rows = {} THEN "finish" ELSE "send",
           ![q].row  = NoRow,
           ![q].ok   = FALSE,
           ![q].outs = @ \cup {[status |-> s, attempts |-> r.attempts + 1]}]
      /\ UNCHANGED <<status, sched, author, approvedBy, now, live, req, ops,
                     faults, history>>

\* The outcome, written by id alone.
FinishPost(q) ==
  LET p == Job(q)
  IN  /\ At(q, "finish")
      /\ Exists(p)
      /\ status' = [status EXCEPT ![p] =
           ResolvePostOutcome(flow[q].outs, MaxAttempts, q \in Users)]
      /\ incidents' = Noted(p, If("clobbered", Clobbers(q, p)))
      /\ Release(q, {p})
      /\ flow' = [flow EXCEPT ![q].pc = "log"]
      /\ UNCHANGED <<sched, author, approvedBy, target, now, live, req, ops,
                     faults, approvals, unseen>>

\* Activity, sync job, notification and event. None changes the post.
LogOutcome(q) ==
  /\ At(q, "log")
  /\ EndJob(q)
  /\ UNCHANGED <<tables, now, live, req, ops, faults, history>>

\* The post was deleted under the flow: GetPost finds nothing, or the writes
\* hit no row and the activity has no post to refer to.
PostVanished(q) ==
  /\ At(q, "load") \/ At(q, "finish")
  /\ ~Exists(Job(q))
  /\ Release(q, {Job(q)})
  /\ EndJob(q)
  /\ UNCHANGED <<tables, now, live, req, ops, faults, approvals, unseen, incidents>>

PublishStep(q) ==
  \/ ReadPost(q) \/ MarkTargets(q) \/ RecordTarget(q)
  \/ \E r \in flow[q].rows, answer \in Answers : SendTarget(q, r, answer)
  \/ FinishPost(q) \/ LogOutcome(q) \/ PostVanished(q)

-----------------------------------------------------------------------------
\* What was sent but not recorded when q stops where it is.
LostResult(q) == At(q, "record") /\ flow[q].ok

Fault == faults < MaxFaults /\ faults' = faults + 1

\* A call of PublishPost fails in a tick: the post is set to FAILED, whatever
\* became of it, unless that write fails as well; the batch goes on.
MarkFailed(w, written) ==
  LET p     == Job(w)
      lands == written /\ Exists(p)
  IN  /\ Fault
      /\ flow[w].pc \in {"load", "mark", "record", "finish", "log"}
      /\ status' = IF lands THEN [status EXCEPT ![p] = "FAILED"] ELSE status
      /\ incidents' = Noted(p, If("clobbered", lands /\ Clobbers(w, p))
                               \cup If("overtaken", lands /\ p \in unseen)
                               \cup If("orphaned", ~lands /\ holder[p] = w)
                               \cup If("lost", LostResult(w)))
      /\ Release(w, {p})
      /\ EndJob(w)
      /\ UNCHANGED <<sched, author, approvedBy, target, now, live, req, ops, approvals, unseen>>

\* Nobody writes anything: the process dies, a call of PublishNow fails, a
\* claim or the reread of a tick fails. Claimed posts stay as they are.
Abandon(q) ==
  /\ Fault
  /\ Busy(q)
  /\ incidents' = [p \in Posts |->
       incidents[p] \cup If("orphaned", holder[p] = q)
                    \cup If("lost", p = Job(q) /\ LostResult(q))]
  /\ Release(q, Posts)
  /\ flow' = [flow EXCEPT ![q] = Idle]
  /\ req' = IF q \in Users THEN [req EXCEPT ![q] = NoReq] ELSE req
  /\ UNCHANGED <<tables, now, live, ops, approvals, unseen>>
=============================================================================
