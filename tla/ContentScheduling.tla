-------------------------- MODULE ContentScheduling --------------------------
(***************************************************************************)
(* How content and publishing keep in step (internal/content/app/          *)
(* scheduling.go, service.go): Schedule makes, approves and schedules a    *)
(* post by calls to publishing with writes of its own in between; what     *)
(* becomes of the post comes back by an event, by a reconciliation every   *)
(* fifteen minutes, or when somebody asks (Sync).                          *)
(***************************************************************************)
EXTENDS ContentItems

-----------------------------------------------------------------------------
(***************************************************************************)
(* The publishing service as content sees it: one call is one step. What   *)
(* happens inside is the subject of the module Publishing.                 *)
(***************************************************************************)
\* AsUser (clients/identity.go): a token for u, good while u is there. When u
\* has left, caches may still serve one, and publishing may still take it.
Tokens(u) ==
  IF u = NoUser THEN {"none"} ELSE IF Gone(u) THEN {"good", "refused", "none"} ELSE {"good"}

Unhurt == UNCHANGED <<rows, presence, worker, faults, approved>>

PostMay(p, to) == PostExists(p) /\ to \in Publishing!Transitions[post[p]]

\* A tick publishes the post or gives up on it, and says so (emitOutcome,
\* best effort: heard is false when the event is lost).
PublishOutcome(p, s, heard) ==
  /\ post[p] = "SCHEDULED"
  /\ s \in {"PUBLISHED", "FAILED"}
  /\ post' = [post EXCEPT ![p] = s]
  /\ IF heard THEN Emit([post |-> p, status |-> s]) /\ UNCHANGED faults
              ELSE Fault /\ UNCHANGED stream
  /\ UNCHANGED <<rows, origin, author, copy, presence, req, worker, ops, history>>

\* People work in publishing as well: they move the post, delete or publish it.
ByHand(p, to) ==
  /\ ops < MaxOps
  /\ PostExists(p)
  /\ \/ "post moved" \in Menu /\ PostMay(p, to) /\ to # "PUBLISHING"
     \/ "post deleted" \in Menu /\ to = "DELETED"
  /\ post' = [post EXCEPT ![p] = to]
  /\ ops' = ops + 1
  /\ incidents' = Noted(origin[p], If("byhand", to = "SCHEDULED"))
  /\ Unhurt /\ UNCHANGED <<origin, author, copy, stream, req>>

PublishByHand(p, s) ==
  /\ ops < MaxOps
  /\ "post published" \in Menu
  /\ post[p] \in Publishing!Claimable
  /\ s \in {"PUBLISHED", "FAILED"}
  /\ post' = [post EXCEPT ![p] = s]
  /\ Emit([post |-> p, status |-> s])
  /\ ops' = ops + 1
  /\ incidents' = Noted(origin[p], If("byhand", TRUE))
  /\ Unhurt /\ UNCHANGED <<origin, author, copy, req>>

-----------------------------------------------------------------------------
(***************************************************************************)
(* Schedule, after its checks.                                             *)
(***************************************************************************)
Doing(a, step) == req[a].op = "schedule" /\ req[a].step = step

\* A post left behind by an earlier attempt is reused.
Reuses(r) == r.row.status = "APPROVED" /\ r.row.post # NoPost

\* The post is saved in the name of who wrote the copy, so that the scheduler
\* may approve it; in the scheduler's own when the copywriter cannot be had.
AuthorsFor(a) ==
  LET u == req[a].row.copywriter
  IN  IF u \in {NoUser, a} THEN {a}
      ELSE If(u, "good" \in Tokens(u)) \cup If(a, "none" \in Tokens(u))

MaySave(r, u) ==
  IF Reuses(r) THEN Publishing!CanEdit(post[r.row.post], Role[u]) ELSE Role[u] # "VIEWER"

\* Mutant: an item that has a post keeps it.
LinksFirst(r, p) == r.row.post = NoPost

NeedsLink(r, p) == r.row.post # p

\* SavePost with p, new or reused. Saving a post makes it a draft again.
SavePost(a, p, u) ==
  LET r == req[a]
  IN  /\ Doing(a, "save")
      /\ u \in AuthorsFor(a)
      /\ MaySave(r, u)
      /\ IF Reuses(r) THEN p = r.row.post ELSE post[p] = "NONE"
      /\ post' = [post EXCEPT ![p] = "DRAFT"]
      /\ origin' = [origin EXCEPT ![p] = r.item]
      /\ author' = IF Reuses(r) THEN author ELSE [author EXCEPT ![p] = u]
      /\ copy' = [copy EXCEPT ![p] = r.row.version]
      /\ req' = [req EXCEPT ![a].post = p,
                            ![a].step = IF NeedsLink(r, p) THEN "link" ELSE "approve"]
      /\ UNCHANGED <<rows, presence, stream, worker, ops, faults, history>>

\* Mutant: the row in hand is written without its post.
Unlinked(r) == r.row

Linked(r) == [r.row EXCEPT !.post = r.post]

\* The item learns its post before the post is approved.
LinkPost(a) ==
  LET r   == req[a]
      new == Linked(r)
  IN  /\ Doing(a, "link")
      /\ item' = [item EXCEPT ![r.item] = new]
      /\ incidents' = Noted(r.item, If("overwritten", Overwrites(r.item, r.row)))
      /\ req' = [req EXCEPT ![a].row = new, ![a].step = "approve"]
      /\ UNCHANGED <<deleted, revisions, posts, presence, stream, worker, ops, faults, approved>>

\* ApprovePost, SchedulePost: calls in the scheduler's own name.
MayCall(a, p, to) ==
  PostExists(p) /\ Publishing!CanTransition(post[p], to, Role[a], author[p] = a)

CallPost(a, step, to, next) ==
  LET p == req[a].post
  IN  /\ Doing(a, step)
      /\ MayCall(a, p, to)
      /\ post' = [post EXCEPT ![p] = to]
      /\ req' = [req EXCEPT ![a].step = next]
      /\ UNCHANGED <<rows, origin, author, copy, presence, stream, worker, ops, faults, history>>

ApprovePost(a) == CallPost(a, "approve", "APPROVED", "queue")
SchedulePost(a) == CallPost(a, "queue", "SCHEDULED", "commit")

CommitSchedule(a) ==
  /\ Doing(a, "commit")
  /\ PutRow(a, [req[a].row EXCEPT !.status = "SCHEDULED", !.by = a], {})
  /\ UNCHANGED <<revisions, approved>>

\* Publishing refuses the call: the status of the post or the role of the
\* caller does not allow it, or the caller is no longer there.
Refused(a) ==
  \/ Doing(a, "save") /\ (\E u \in AuthorsFor(a) : ~MaySave(req[a], u) \/ Gone(u))
  \/ Doing(a, "approve") /\ (Gone(a) \/ ~MayCall(a, req[a].post, "APPROVED"))
  \/ Doing(a, "queue") /\ (Gone(a) \/ ~MayCall(a, req[a].post, "SCHEDULED"))

\* Schedule ends where it is, because publishing refuses, or a call or a write
\* fails, or the process dies. What is done stays done.
ScheduleEnds(a) ==
  /\ req[a].op = "schedule"
  /\ IF Refused(a) THEN UNCHANGED faults ELSE Fault
  /\ incidents' = Noted(req[a].item, If("strayed", Doing(a, "commit")))
  /\ Done(a)
  /\ UNCHANGED <<rows, posts, presence, stream, worker, ops, approved>>

ScheduleStep(a) ==
  \/ \E p \in Posts, u \in Users : SavePost(a, p, u)
  \/ LinkPost(a) \/ ApprovePost(a) \/ SchedulePost(a) \/ CommitSchedule(a)

-----------------------------------------------------------------------------
(***************************************************************************)
(* Sync: read the row, ask publishing, write what follows from both.       *)
(***************************************************************************)
Folded(row, seen) == [row EXCEPT !.status = Fold(@, seen)]

\* A write of apply. It overwrites when the row has changed, or when the post
\* has since it was asked.
Applies(i, row, seen) ==
  /\ item' = [item EXCEPT ![i] = Folded(row, seen)]
  /\ incidents' = Noted(i, If("overwritten", Overwrites(i, row) \/ post[row.post] # seen))
  /\ UNCHANGED <<deleted, revisions, posts, presence, ops, approved>>

SyncRead(a) ==
  LET r    == req[a]
      seen == post[r.row.post]
  IN  /\ r.op = "sync" /\ r.step = "read"
      /\ req' = [req EXCEPT ![a] =
           IF PostExists(r.row.post) /\ Folded(r.row, seen) # r.row
           THEN [r EXCEPT !.step = "write", !.seen = seen] ELSE NoReq]
      /\ UNCHANGED <<rows, posts, presence, stream, worker, ops, faults, history>>

SyncWrite(a) ==
  LET r == req[a]
  IN  /\ Writing(a, "sync")
      /\ Applies(r.item, r.row, r.seen)
      /\ Done(a)
      /\ UNCHANGED <<stream, worker, faults>>

-----------------------------------------------------------------------------
(***************************************************************************)
(* The consumer "content-events". pc "ask": it has a row and asks for the  *)
(* post of it; "apply": it has the answer and writes.                      *)
(***************************************************************************)
WorkerAt(w, pc) == worker[w].pc = pc
InRun(w) == worker[w].msg = 0
Message(w) == stream[worker[w].msg].msg

\* An outcome arrives. Nobody's item: nothing to do.
Receive(w, k) ==
  LET mine == ItemsOf(stream[k].msg.post)
  IN  /\ WorkerAt(w, "idle")
      /\ Waiting(k)
      /\ IF mine = {}
         THEN /\ stream' = [stream EXCEPT ![k].state = "acked", ![k].tries = @ + 1]
              /\ UNCHANGED worker
         ELSE /\ Deliver(k)
              /\ \E i \in mine :
                   worker' = [worker EXCEPT ![w] =
                     [Asleep EXCEPT !.pc = "ask", !.msg = k, !.item = i, !.row = item[i]]]
      /\ UNCHANGED <<rows, posts, presence, req, ops, faults, history>>

\* Reconcile, on a tick.
StartRun(w) ==
  /\ WorkerAt(w, "idle")
  /\ \E b \in DueLists \ {{}} :
       worker' = [worker EXCEPT ![w] = [Asleep EXCEPT !.pc = "next",
                    !.todo = {[item |-> i, row |-> item[i]] : i \in b}]]
  /\ UNCHANGED <<rows, posts, presence, stream, req, ops, faults, history>>

\* The next item of the run, the earliest first. A failing AsUser ends the run.
NextItem(w) ==
  \E x \in worker[w].todo : \E t \in Tokens(x.row.by) :
    LET rest == [worker[w] EXCEPT !.todo = @ \ {x}]
    IN  /\ WorkerAt(w, "next")
        /\ \A y \in worker[w].todo : PublishAt[x.item] <= PublishAt[y.item]
        /\ worker' = [worker EXCEPT ![w] =
             IF x.row.by = NoUser THEN IF rest.todo = {} THEN Asleep ELSE rest
             ELSE IF t = "none" THEN Asleep
             ELSE [rest EXCEPT !.pc = "ask", !.item = x.item, !.row = x.row]]
        /\ UNCHANGED <<rows, posts, presence, stream, req, ops, faults, history>>

\* The handler is done with the item at hand: the next one, or the ack.
Rest(w) ==
  IF worker[w].todo = {} THEN Asleep
  ELSE [Asleep EXCEPT !.pc = "next", !.todo = worker[w].todo]

Finish(w) ==
  /\ worker' = [worker EXCEPT ![w] = Rest(w)]
  /\ IF InRun(w) THEN UNCHANGED stream ELSE Ack(worker[w].msg)

\* GetPost as the person who scheduled the item. In a run an item whose post is
\* not to be had is passed over; an event falls back on what it carries itself.
Told(w, found) ==
  LET r    == worker[w].row
      seen == IF found THEN post[r.post] ELSE Message(w).status
  IN  /\ IF (InRun(w) /\ ~found) \/ Folded(r, seen) = r
         THEN Finish(w)
         ELSE /\ worker' = [worker EXCEPT ![w].pc = "apply", ![w].seen = seen]
              /\ UNCHANGED stream
      /\ UNCHANGED <<rows, posts, presence, req, ops, history>>

AskPost(w) ==
  LET r == worker[w].row
  IN  /\ WorkerAt(w, "ask")
      /\ \E t \in Tokens(r.by) : Told(w, t = "good" /\ PostExists(r.post))
      /\ UNCHANGED faults

\* The lookup fails although the post is there.
AskFails(w) == WorkerAt(w, "ask") /\ Told(w, FALSE) /\ Fault

ApplyPost(w) ==
  /\ WorkerAt(w, "apply")
  /\ Applies(worker[w].item, worker[w].row, worker[w].seen)
  /\ Finish(w)
  /\ UNCHANGED <<req, faults>>

WorkerStep(w) == NextItem(w) \/ AskPost(w) \/ ApplyPost(w)

\* The handler fails and NAKs, or its process dies: a run is simply over, the
\* message comes again.
WorkerFails(w) ==
  /\ ~WorkerAt(w, "idle")
  /\ Fault
  /\ worker' = [worker EXCEPT ![w] = Asleep]
  /\ IF InRun(w) THEN UNCHANGED stream ELSE Return(worker[w].msg)
  /\ UNCHANGED <<rows, posts, presence, req, ops, history>>

\* The ack is late: the message is delivered again while it is handled.
AckLate(w) ==
  /\ ~WorkerAt(w, "idle") /\ ~InRun(w)
  /\ stream[worker[w].msg].state = "out"
  /\ Fault
  /\ Return(worker[w].msg)
  /\ UNCHANGED <<rows, posts, presence, req, worker, ops, history>>
=============================================================================
