----------------------------- MODULE PostStore -----------------------------
(***************************************************************************)
(* The tables of the publishing service (schema "publishing") and the SQL  *)
(* statements its handlers run, for one client. A post is an element of    *)
(* Posts, a target row the row of an account in target[p].                 *)
(*                                                                         *)
(* What stays outside: titles, captions, media and comments (validatePost  *)
(* looks at them; here a post with at least one target may pass it), the   *)
(* activity log and the sync jobs (append-only, read by no handler).       *)
(***************************************************************************)
EXTENDS PostRules, FiniteSets

CONSTANTS
  Posts,         \* ids a post can get; a deleted id is never used again
  Accounts,      \* the client's own social accounts
  Users,         \* people with access to the client
  Workers,       \* publishing processes consuming white.publish.tick
  Role,          \* Role[u]: the role identity reports for u
  NoUser, NoPost, NoProc, NoRow, \* SQL NULL or "none"
  MaxTime, Lead, \* the clock's last value; MinScheduleLead
  MaxAttempts,   \* MaxPublishAttempts
  Limit,         \* posts one tick may take
  Menu,          \* bound: the kinds of request people make
  MaxOps,        \* bound: requests people make
  MaxFaults      \* bound: crashes and failing calls

Procs == Users \cup Workers
Ops == {"submit", "approve", "reject", "schedule", "unschedule",
        "reschedule", "draft", "save", "delete", "publish"}

ASSUME PublishingAssumption ==
  /\ Role \in [Users -> Roles]
  /\ Users \cap Workers = {}
  /\ NoUser \notin Users /\ NoProc \notin Procs /\ NoPost \notin Posts
  /\ MaxTime \in Nat /\ Lead \in Nat /\ MaxAttempts \in Nat /\ Limit \in Nat
  /\ Menu \subseteq Ops
  /\ MaxOps \in Nat /\ MaxFaults \in Nat

VARIABLES
  \* content_posts
  status,        \* "UNUSED" before the insert, "DELETED" after the delete
  sched,         \* scheduled_at, NoTime for NULL
  author,        \* created_by_id
  approvedBy,    \* approved_by_id
  \* post_targets
  target,
  \* the outside
  now,           \* the clock
  live,          \* live[p][a]: how often p stands on account a
  \* processes
  req,           \* req[u]: the request u has in flight, between load and write
  flow,          \* flow[q]: the publish flow process q is in
  ops, faults,   \* the bounded counters
  \* history, read by properties only
  approvals,     \* approvals[p]: who approved p, over its whole life
  unseen,        \* the posts with content no approval covers
  holder,        \* holder[p]: the process whose claim on p is the latest
  incidents      \* incidents[p]: what went wrong around p

tables  == <<status, sched, author, approvedBy, target>>
history == <<approvals, unseen, holder, incidents>>
vars == <<status, sched, author, approvedBy, target, now, live, req, flow,
          ops, faults, approvals, unseen, holder, incidents>>

NoTime == -1
Times == 0..MaxTime
Exists(p) == status[p] \in Statuses
IsAuthor(u, p) == author[p] = u

(***************************************************************************)
(* Target rows. An id tells a row from another one inserted later for the  *)
(* same account; the number of the request that inserts it serves as one.  *)
(***************************************************************************)
\* Mutant of NewRow: a row starts in the status of a sync job.
QueuedRow(id) == [id |-> id, status |-> "QUEUED", attempts |-> 0]

TargetRows == [id : 0..MaxOps, status : Statuses, attempts : Nat]
ASSUME NoRowAssumption == NoRow \notin TargetRows
NewRow(id) == [id |-> id, status |-> "DRAFT", attempts |-> 0]
HasRow(p, a) == target[p][a] # NoRow
Targets(p) == {a \in Accounts : HasRow(p, a)}

\* SetTargetsStatusExceptPublished
MoveTargets(p, s) ==
  target' = [target EXCEPT ![p] = [a \in Accounts |->
     IF HasRow(p, a) /\ @[a].status # "PUBLISHED"
     THEN [@[a] EXCEPT !.status = s] ELSE @[a]]]

\* DeleteTargetsNotIn, then UpsertTarget with status DRAFT for each of keep:
\* a row that exists keeps its id and its attempts.
RowsAfterSave(rows, keep, id) ==
  [a \in Accounts |->
     IF a \notin keep THEN NoRow
     ELSE IF rows[a] = NoRow THEN NewRow(id)
     ELSE [rows[a] EXCEPT !.status = "DRAFT"]]

Due(p, t) == status[p] = "SCHEDULED" /\ sched[p] \in 0..t

\* Mutant of DueBatches: a post that went out or failed stays on the list.
EverDueBatches(t) ==
  LET due == {p \in Posts : status[p] \in {"SCHEDULED", "PUBLISHED", "FAILED"}
                              /\ sched[p] \in 0..t}
  IN  {b \in SUBSET due :
         /\ Cardinality(b) = IF Cardinality(due) < Limit THEN Cardinality(due) ELSE Limit
         /\ \A x \in b, y \in due \ b : sched[x] <= sched[y]}

\* ListDuePosts: at most Limit of the due posts, the earliest first.
DueBatches(t) ==
  LET due == {p \in Posts : Due(p, t)}
  IN  {b \in SUBSET due :
         /\ Cardinality(b) = IF Cardinality(due) < Limit THEN Cardinality(due) ELSE Limit
         /\ \A x \in b, y \in due \ b : sched[x] <= sched[y]}

(***************************************************************************)
(* Local state of the processes.                                           *)
(***************************************************************************)
\* A request in flight: its number, the post, the status load() saw, the
\* instant asked for; stale: the post was edited since (history only).
NoReq == [op |-> "none", no |-> 0, post |-> NoPost, from |-> "DRAFT",
          at |-> NoTime, stale |-> FALSE]

\* A publish flow. todo: posts still to claim, then still to publish; held:
\* posts claimed; job: the post being published; rows: its targets still to
\* send; row, ok: the one just sent and the provider's answer; outs: outcomes.
Idle == [pc |-> "idle", runAt |-> 0, todo |-> {}, held |-> {}, job |-> NoPost,
         rows |-> {}, row |-> NoRow, ok |-> FALSE, outs |-> {}]

Busy(q) == flow[q].pc # "idle" \/ (q \in Users /\ req[q].op # "none")

(***************************************************************************)
(* Incidents, recorded for the properties:                                 *)
(*   clobbered  a status was written under another process's claim         *)
(*   overtaken  a status was written after an edit the writer had not seen: *)
(*              by a request, or by a tick whose publish failed late        *)
(*   orphaned   a claim's process went away without writing an outcome     *)
(*   lost       a target was sent and its result never written             *)
(*   unacked    the provider published and answered with an error          *)
(*   reset      an edit dropped or reset a row that was published          *)
(***************************************************************************)
Incidents == {"clobbered", "overtaken", "orphaned", "lost", "unacked", "reset"}

If(kind, happened) == IF happened THEN {kind} ELSE {}
Noted(p, kinds) == [incidents EXCEPT ![p] = @ \cup kinds]
Clobbers(q, p) == holder[p] \notin {NoProc, q}
=============================================================================
