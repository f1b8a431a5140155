----------------------------- MODULE Publishing -----------------------------
(***************************************************************************)
(* The publishing service: people's requests (PostWorkflow), the publish   *)
(* flows of the tick workers and of PublishNow (PublishFlow) and the clock,*)
(* interleaved over the same tables.                                       *)
(***************************************************************************)
EXTENDS PostWorkflow, PublishFlow

Init ==
  /\ status = [p \in Posts |-> "UNUSED"]
  /\ sched = [p \in Posts |-> NoTime]
  /\ author = [p \in Posts |-> NoUser]
  /\ approvedBy = [p \in Posts |-> NoUser]
  /\ target = [p \in Posts |-> [a \in Accounts |-> NoRow]]
  /\ now = 0
  /\ live = [p \in Posts |-> [a \in Accounts |-> 0]]
  /\ req = [u \in Users |-> NoReq]
  /\ flow = [q \in Procs |-> Idle]
  /\ ops = 0
  /\ faults = 0
  /\ approvals = [p \in Posts |-> {}]
  /\ unseen = {}
  /\ holder = [p \in Posts |-> NoProc]
  /\ incidents = [p \in Posts |-> {}]

Advance ==
  /\ now < MaxTime
  /\ now' = now + 1
  /\ UNCHANGED <<tables, live, req, flow, ops, faults, history>>

Request(u) ==
  \/ \E op \in Menu, p \in Posts : \E at \in Instants(op) : Load(u, op, p, at)
  \/ \E p \in Posts, keep \in SUBSET Accounts, at \in Times \cup {NoTime} :
       Create(u, p, keep, at)

Respond(u) == Write(u) \/ PublishNow(u) \/ ClaimLost(u)

Work(w) ==
  \/ \E p \in Posts : ClaimDue(w, p) \/ StartJob(w, p)
  \/ Reread(w)

Failure ==
  \/ \E w \in Workers, written \in BOOLEAN : MarkFailed(w, written)
  \/ \E q \in Procs : Abandon(q)

Next ==
  \/ Advance
  \/ \E u \in Users : Request(u) \/ Respond(u)
  \/ \E w \in Workers : (\E t \in 0..now : Tick(w, t)) \/ Work(w)
  \/ \E q \in Procs : PublishStep(q)
  \/ Failure

Spec == Init /\ [][Next]_vars

\* Handlers run to their end, the clock moves, and the scheduler never stops
\* ticking: every five minutes a tick with the current instant arrives.
Fairness ==
  /\ WF_vars(Advance)
  /\ \A u \in Users : WF_vars(Respond(u))
  /\ \A w \in Workers : WF_vars(Tick(w, now)) /\ WF_vars(Work(w))
  /\ \A q \in Procs : WF_vars(PublishStep(q))

FairSpec == Spec /\ Fairness

-----------------------------------------------------------------------------
Rows == [acc : Accounts, id : 0..MaxOps, attempts : Nat]
Outcomes == [status : {"PUBLISHED", "FAILED"}, attempts : Nat]
InFlight == [op : Ops, no : 0..MaxOps, post : Posts, from : Statuses,
             at : Times \cup {NoTime}, stale : BOOLEAN]
Flows == [pc : {"idle", "claim", "reread", "next", "load", "mark", "send",
                "record", "finish", "log"},
          runAt : Times, todo : SUBSET Posts, held : SUBSET Posts,
          job : Posts \cup {NoPost}, rows : SUBSET Rows,
          row : Rows \cup {NoRow}, ok : BOOLEAN, outs : SUBSET Outcomes]

\* Where a flow has a post at hand.
JobSteps == {"load", "mark", "send", "record", "finish", "log"}
Publishes(q) == flow[q].pc \in JobSteps

\* The types of every variable; a flow that publishes has a post, and a row to
\* record when it has just sent one.
TypeOK ==
  /\ status \in [Posts -> Statuses \cup {"UNUSED", "DELETED"}]
  /\ sched \in [Posts -> Times \cup {NoTime}]
  /\ author \in [Posts -> Users \cup {NoUser}]
  /\ approvedBy \in [Posts -> Users \cup {NoUser}]
  /\ target \in [Posts -> [Accounts -> TargetRows \cup {NoRow}]]
  /\ now \in Times
  /\ live \in [Posts -> [Accounts -> Nat]]
  /\ req \in [Users -> InFlight \cup {NoReq}]
  /\ flow \in [Procs -> Flows]
  /\ \A q \in Procs : /\ Publishes(q) => Job(q) \in Posts
                      /\ At(q, "record") => flow[q].row \in Rows
  /\ ops \in 0..MaxOps
  /\ faults \in 0..MaxFaults
  /\ approvals \in [Posts -> SUBSET Users]
  /\ unseen \subseteq Posts
  /\ holder \in [Posts -> Procs \cup {NoProc}]
  /\ incidents \in [Posts -> SUBSET Incidents]

\* Process q believes that p is its to publish.
Owns(q, p) ==
  \/ Job(q) = p /\ flow[q].pc \in {"load", "mark", "send", "record", "finish"}
  \/ q \in Workers /\ (p \in flow[q].held \/ (~At(q, "claim") /\ p \in flow[q].todo))

\* The claims, as an inductive invariant. A process that believes it owns a
\* post holds its latest claim; whoever holds one still works on the post; and
\* a post with a standing claim stays in PUBLISHING until it is deleted -
\* unless something clobbered the claim. A post in PUBLISHING is claimed,
\* unless its process went away.
ClaimInv ==
  /\ \A u \in Users : req[u].op # "none" => At(u, "idle")
  /\ \A q \in Procs : At(q, "idle") => flow[q] = Idle
  /\ \A p \in Posts, q \in Procs : holder[p] = q => Owns(q, p)
  /\ \A p \in Posts : "clobbered" \notin incidents[p] =>
       /\ \A q \in Procs : Owns(q, p) => holder[p] = q
       /\ holder[p] # NoProc => status[p] \in {"PUBLISHING", "DELETED"}
  /\ \A p \in Posts : status[p] = "PUBLISHING" /\ "orphaned" \notin incidents[p]
                        => holder[p] # NoProc

\* Two processes never publish one post at a time, unless a status was
\* written to it under the first one's claim (ClaimPost and ClaimDuePost are
\* conditional updates; UpdatePostStatus and UpdatePostContent are not).
ClaimExclusive ==
  \A p \in Posts : "clobbered" \notin incidents[p] =>
    \A q, r \in Procs : Owns(q, p) /\ Owns(r, p) => q = r

\* A post is in PUBLISHING only while some process works on it, or after that
\* process went away without an outcome. Nothing else can strand a post in
\* the one status people cannot move, edit or delete it from.
PublishingIsHeld ==
  \A p \in Posts : status[p] = "PUBLISHING" /\ "orphaned" \notin incidents[p] =>
    \E q \in Procs : Owns(q, p)

\* A post stands on an account at most once, except for the causes named:
\* a clobbered claim, a result that was lost, a provider that published and
\* answered with an error, an edit that reset a published row.
AtMostOnce ==
  \A p \in Posts, a \in Accounts :
    live[p][a] > 1 => incidents[p] \cap {"clobbered", "lost", "unacked", "reset"} # {}

\* A post that reads PUBLISHED stands on every account it is targeted at, and
\* each of its rows says so, unless a claim on it was clobbered.
PublishedIsComplete ==
  \A p \in Posts : status[p] = "PUBLISHED" /\ "clobbered" \notin incidents[p] =>
    \A a \in Targets(p) : target[p][a].status = "PUBLISHED" /\ live[p][a] >= 1

-----------------------------------------------------------------------------
\* Who may approve p, by the four-eyes rule of CanTransition.
Entitled(u, p) == Role[u] = "ADMIN" \/ (Role[u] = "MANAGER" /\ author[p] # u)
Cleared(p) == \E u \in approvals[p] : Entitled(u, p)

Reviewed == {"APPROVED", "SCHEDULED", "PUBLISHING", "PUBLISHED", "FAILED"}

\* A request in flight by u: who is about to approve may, and what is about to
\* be put into a status past review is cleared.
RequestCleared(u, r) ==
  r.op # "none" =>
    /\ status[r.post] # "UNUSED"
    /\ r.op = "approve" => Entitled(u, r.post)
    /\ r.op \in {"schedule", "unschedule"} => Cleared(r.post)
    /\ r.op = "save" => r.from \in EditableStatuses

\* A flow: every post it works on or is about to is cleared.
FlowCleared(f) ==
  /\ f.pc \in JobSteps => Cleared(f.job)
  /\ \A p \in f.todo \cup f.held : Cleared(p)

\* The review, as an inductive invariant: every post in a status past review is
\* cleared, and so is every post that somebody's request or flow, whatever it
\* read however long ago, is about to take further.
GateInv ==
  /\ \A p \in Posts : status[p] \in Reviewed => Cleared(p)
  /\ \A p \in Posts : status[p] = "UNUSED" => approvals[p] = {}
  /\ \A u \in Users : RequestCleared(u, req[u])
  /\ \A q \in Procs : FlowCleared(flow[q])

\* Whatever people do at the same time and whatever fails, nothing of a post
\* reaches an account before somebody entitled to approved it.
Gate == INSTANCE ReviewGate WITH cleared <- {p \in Posts : Cleared(p)}, shown <- live
GateSpec == Gate!Spec

\* Content goes out only after an approval that was decided on that content:
\* an edit takes the post back to DRAFT. The exceptions are named: a request
\* that moved the post on what it had loaded before the edit, a tick that wrote
\* FAILED over the edit because what follows its outcome failed, or an edit that
\* came under a claim.
ReviewedContent ==
  [][\A p \in Posts : live'[p] # live[p] /\ p \in unseen
        => incidents[p] \cap {"overtaken", "clobbered"} # {}]_vars

\* While nothing fails, every post that is due leaves SCHEDULED and
\* PUBLISHING: it is published, it fails for good, or somebody takes it back.
DueIsResolved ==
  \A p \in Posts : Due(p, now) ~> status[p] \notin {"SCHEDULED", "PUBLISHING"}

-----------------------------------------------------------------------------
\* publish.go: "PublishPost returns nil, nil when the claim is lost (someone
\* else owns the post)": the claim makes one process the owner of a post.
OneOwner ==
  \A p \in Posts, q, r \in Procs : Owns(q, p) /\ Owns(r, p) => q = r
=============================================================================
