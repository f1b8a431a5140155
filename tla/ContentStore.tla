---------------------------- MODULE ContentStore ----------------------------
(***************************************************************************)
(* What the content service keeps of its items (schema "content"), what    *)
(* the publishing service keeps of the posts made for them, and the local  *)
(* state of the handlers between the two. One client stands for all.       *)
(*                                                                         *)
(* An item is read as a whole row and written back as a whole row, by id   *)
(* alone (UpdateItem), so a row is one value here. Of its columns the ones *)
(* stay that a handler's decision depends on; a caption is its version.    *)
(***************************************************************************)
EXTENDS ContentRules, EventBus, FiniteSets

CONSTANTS
  Items,         \* content items
  Posts,         \* ids publishing can give to a post
  Users,         \* people with access to the client
  Client,        \* the client, deciding on the share page
  Workers,       \* content processes consuming "content-events"
  Role,          \* Role[u]: the role identity reports for u
  PublishAt,     \* PublishAt[i]: the instant item i is planned for
  NoUser, NoPost, NoItem, NoRow,  \* SQL NULL or "none"
  Limit,         \* items one reconciliation looks at
  Start,         \* where the items are in the workflow at the beginning
  Leavers,       \* people who may be deleted from identity
  Assignees,     \* bound: whom an edit may make an item's copywriter
  Menu,          \* bound: the kinds of request people make, in publishing too
  MaxOps,        \* bound: requests people make
  MaxFaults      \* bound: crashes and failing calls

Publishing == INSTANCE PostRules

Actors == Users \cup {Client}
Ops == {"update", "move", "revise", "delete", "stamp", "decide", "schedule", "sync"}
ByHands == {"post moved", "post deleted", "post published"}

ASSUME ContentAssumption ==
  /\ Role \in [Users -> Publishing!Roles]
  /\ PublishAt \in [Items -> Nat]
  /\ Client \notin Users /\ NoUser \notin Actors
  /\ NoPost \notin Posts /\ NoItem \notin Items
  /\ Start \in {"IDEA", "REVIEW", "APPROVED"}
  /\ Leavers \subseteq Users /\ Assignees \subseteq Users \cup {NoUser}
  /\ Menu \subseteq Ops \cup ByHands
  /\ Limit \in Nat /\ MaxOps \in Nat /\ MaxFaults \in Nat

VARIABLES
  \* content
  item,        \* content.items: the row of each item
  deleted,     \* the items with deleted_at set
  revisions,   \* content.caption_revisions: who wrote each version of a caption
  \* publishing, seen from outside
  post,        \* the status of each post
  origin,      \* the item a post was made for
  author,      \* who is on record as having written a post
  copy,        \* the version of the caption last saved to a post
  \* identity
  presence,    \* presence[u]: "here", "left", and "forgotten" by content
  \* processes
  req,         \* req[a]: the request a has in flight
  worker,      \* worker[w]: the handler w runs
  ops, faults, \* the bounded counters
  \* history, read by properties only
  approved,    \* approved[i]: the versions of i's caption a review approved
  incidents    \* incidents[i]: what went wrong around i

rows    == <<item, deleted, revisions>>
posts   == <<post, origin, author, copy>>
history == <<approved, incidents>>
vars == <<item, deleted, revisions, post, origin, author, copy, presence, stream, req,
          worker, ops, faults, approved, incidents>>

\* Post statuses, with "NONE" before the insert and "DELETED" after the delete.
PostStates == Publishing!Statuses \cup {"NONE", "DELETED"}
PostExists(p) == post[p] \in Publishing!Statuses

Versions == 0..(MaxOps + 1)
ItemRows == [status : ItemStatuses, version : Versions, post : Posts \cup {NoPost},
             copywriter : Users \cup {NoUser}, by : Users \cup {NoUser}]

Visible(i) == i \notin deleted
Gone(u) == presence[u] # "here"

\* GetItemByPublishingPost.
ItemsOf(p) == {i \in Items : Visible(i) /\ item[i].post = p}

\* ListScheduledDue: at most Limit of the scheduled items, the earliest first.
\* An instant that has not passed makes no difference: its post is not final.
DueLists ==
  LET due == {i \in Items : Visible(i) /\ item[i].status = "SCHEDULED"
                                       /\ item[i].post # NoPost}
  IN  {b \in SUBSET due :
         /\ Cardinality(b) = IF Cardinality(due) < Limit THEN Cardinality(due) ELSE Limit
         /\ \A x \in b, y \in due \ b : PublishAt[x] <= PublishAt[y]}

(***************************************************************************)
(* Local state of the handlers.                                            *)
(***************************************************************************)
\* A request: the step it is at, the row as it last read or wrote it; to, who:
\* what it was asked for; post, seen: the post it works on and its status.
NoReq == [op |-> "none", step |-> "idle", item |-> NoItem, row |-> NoRow,
          to |-> "IDEA", who |-> NoUser, post |-> NoPost, seen |-> "NONE"]

\* A worker: the message it handles (0 in a reconciliation), the items a
\* reconciliation has still to check, the row at hand and what it was told.
Asleep == [pc |-> "idle", msg |-> 0, todo |-> {}, item |-> NoItem, row |-> NoRow,
           seen |-> "NONE"]

Scheduling(a, i) == req[a].op = "schedule" /\ req[a].item = i

(***************************************************************************)
(* Incidents, recorded for the properties:                                 *)
(*   overwritten  a row was written over a change its writer had not seen,  *)
(*                or after the post had gone on                             *)
(*   doubled      two people scheduled the item at the same time            *)
(*   strayed      the post was scheduled and the item never told            *)
(*   byhand       somebody scheduled or published the post in publishing    *)
(*   retouched    the caption was revised after a failed publish            *)
(***************************************************************************)
Incidents == {"overwritten", "doubled", "strayed", "byhand", "retouched"}

If(kind, happened) == IF happened THEN {kind} ELSE {}
Noted(i, kinds) == [incidents EXCEPT ![i] = @ \cup kinds]

\* i's row is not the one its writer has read.
Overwrites(i, old) == item[i] # old \/ ~Visible(i)

Fault == faults < MaxFaults /\ faults' = faults + 1
=============================================================================
