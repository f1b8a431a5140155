--------------------------- MODULE PostWorkflow ---------------------------
(***************************************************************************)
(* The composer and the approval workflow (internal/publishing/app/        *)
(* posts.go). A request runs in two steps, as its handler does: load()     *)
(* reads the post and checks the move outside any transaction, then one    *)
(* transaction writes by id alone. Anything may happen in between.         *)
(***************************************************************************)
EXTENDS PostStore

\* May(op, u, p, at): the checks op's handler makes on what it has loaded.
May(op, u, p, at) ==
  LET Can(to) == CanTransition(status[p], to, Role[u], IsAuthor(u, p))
      valid   == Targets(p) # {}
      ahead   == at >= now + Lead
  IN  CASE op = "submit"     -> Can("IN_REVIEW") /\ valid
        [] op = "approve"    -> Can("APPROVED") /\ valid
        [] op = "reject"     -> Can("REJECTED")
        [] op = "schedule"   -> Can("SCHEDULED") /\ valid /\ ahead
        [] op = "unschedule" -> status[p] = "SCHEDULED" /\ Can("APPROVED")
        [] op = "reschedule" -> /\ CanReschedule(status[p], Role[u])
                                /\ status[p] = "SCHEDULED" => ahead
        [] op = "draft"      -> Can("DRAFT")
        [] op = "save"       -> CanEdit(status[p], Role[u])
        [] op = "delete"     -> CanDelete(status[p], Role[u])
        [] op = "publish"    -> Can("PUBLISHING") /\ valid

\* The instants a request may carry.
Instants(op) ==
  CASE op \in {"schedule", "reschedule"} -> Times
    [] op = "save" -> Times \cup {NoTime}
    [] OTHER       -> {NoTime}

Load(u, op, p, at) ==
  /\ ops < MaxOps
  /\ ~Busy(u)
  /\ Exists(p)
  /\ May(op, u, p, at)
  /\ req' = [req EXCEPT ![u] = [op |-> op, no |-> ops + 1, post |-> p,
                                from |-> status[p], at |-> at,
                                stale |-> FALSE]]
  /\ ops' = ops + 1
  /\ UNCHANGED <<tables, now, live, flow, faults, history>>

-----------------------------------------------------------------------------
\* Writing(u, op): u's request is about to run its transaction on a post that
\* still exists.
Writing(u, op) == req[u].op = op /\ Exists(req[u].post)

Done(u) == req' = [req EXCEPT ![u] = NoReq]

\* setStatus: the post's status and its unpublished targets', by id.
SetStatus(u, s) ==
  LET p == req[u].post
  IN  /\ status' = [status EXCEPT ![p] = s]
      /\ MoveTargets(p, s)
      /\ incidents' = Noted(p, If("clobbered", Clobbers(u, p))
                               \cup If("overtaken", req[u].stale))
      /\ Done(u)
      /\ UNCHANGED <<author, now, live, flow, ops, faults, holder>>

SubmitForReview(u) ==
  /\ Writing(u, "submit")
  /\ SetStatus(u, "IN_REVIEW")
  /\ UNCHANGED <<sched, approvedBy, approvals, unseen>>

Approve(u) ==
  /\ Writing(u, "approve")
  /\ SetStatus(u, "APPROVED")
  /\ approvedBy' = [approvedBy EXCEPT ![req[u].post] = u]
  /\ approvals' = [approvals EXCEPT ![req[u].post] = @ \cup {u}]
  /\ unseen' = IF req[u].stale THEN unseen ELSE unseen \ {req[u].post}
  /\ UNCHANGED sched

Reject(u) ==
  /\ Writing(u, "reject")
  /\ SetStatus(u, "REJECTED")
  /\ UNCHANGED <<sched, approvedBy, approvals, unseen>>

Schedule(u) ==
  /\ Writing(u, "schedule")
  /\ SetStatus(u, "SCHEDULED")
  /\ sched' = [sched EXCEPT ![req[u].post] = req[u].at]
  /\ UNCHANGED <<approvedBy, approvals, unseen>>

Unschedule(u) ==
  /\ Writing(u, "unschedule")
  /\ SetStatus(u, "APPROVED")
  /\ UNCHANGED <<sched, approvedBy, approvals, unseen>>

BackToDraft(u) ==
  /\ Writing(u, "draft")
  /\ SetStatus(u, "DRAFT")
  /\ approvedBy' = [approvedBy EXCEPT ![req[u].post] = NoUser]
  /\ UNCHANGED <<sched, approvals, unseen>>

Reschedule(u) ==
  /\ Writing(u, "reschedule")
  /\ sched' = [sched EXCEPT ![req[u].post] = req[u].at]
  /\ Done(u)
  /\ UNCHANGED <<status, author, approvedBy, target, now, live, flow, ops,
                 faults, history>>

-----------------------------------------------------------------------------
\* Save without an id inserts the post with its targets; Duplicate inserts
\* one the same way, with the targets of another post and no instant.
Create(u, p, keep, at) ==
  /\ ops < MaxOps
  /\ ~Busy(u)
  /\ Role[u] # "VIEWER"
  /\ status[p] = "UNUSED"
  /\ status' = [status EXCEPT ![p] = "DRAFT"]
  /\ sched' = [sched EXCEPT ![p] = at]
  /\ author' = [author EXCEPT ![p] = u]
  /\ target' = [target EXCEPT ![p] = RowsAfterSave(@, keep, ops + 1)]
  /\ ops' = ops + 1
  /\ unseen' = unseen \cup {p}
  /\ UNCHANGED <<approvedBy, now, live, req, flow, faults, approvals, holder, incidents>>

\* Save with an id: the approval goes only when the status loaded was not
\* DRAFT already.
Save(u, keep) ==
  LET p == req[u].post
      published == \E a \in Targets(p) : target[p][a].status = "PUBLISHED"
  IN  /\ Writing(u, "save")
      /\ status' = [status EXCEPT ![p] = StatusAfterEdit(req[u].from)]
      /\ sched' = [sched EXCEPT ![p] = req[u].at]
      /\ approvedBy' = [approvedBy EXCEPT ![p] = IF req[u].from # "DRAFT" THEN NoUser ELSE @]
      /\ target' = [target EXCEPT ![p] = RowsAfterSave(@, keep, req[u].no)]
      /\ incidents' = Noted(p, If("clobbered", Clobbers(u, p)) \cup If("reset", published))
      /\ unseen' = unseen \cup {p}
      /\ req' = [v \in Users |->
           IF v = u THEN NoReq
           ELSE IF req[v].post = p THEN [req[v] EXCEPT !.stale = TRUE] ELSE req[v]]
      /\ UNCHANGED <<author, now, live, flow, ops, faults, approvals, holder>>

\* The row goes, its targets with it (ON DELETE CASCADE).
Delete(u) ==
  LET p == req[u].post
  IN  /\ Writing(u, "delete")
      /\ status' = [status EXCEPT ![p] = "DELETED"]
      /\ target' = [target EXCEPT ![p] = [a \in Accounts |-> NoRow]]
      /\ Done(u)
      /\ UNCHANGED <<sched, author, approvedBy, now, live, flow, ops, faults, history>>

\* The post went away after load(): nothing is left to write to.
Gone(u) ==
  /\ req[u].op # "none"
  /\ ~Exists(req[u].post)
  /\ Done(u)
  /\ UNCHANGED <<tables, now, live, flow, ops, faults, history>>

Write(u) ==
  \/ SubmitForReview(u) \/ Approve(u) \/ Reject(u)
  \/ Schedule(u) \/ Unschedule(u) \/ Reschedule(u) \/ BackToDraft(u)
  \/ \E keep \in SUBSET Accounts : Save(u, keep)
  \/ Delete(u) \/ Gone(u)
=============================================================================
