------------------------------- MODULE Content -------------------------------
(***************************************************************************)
(* The content service next to publishing: people's requests, the consumer *)
(* of publishing's outcomes, publishing's own life and the people leaving, *)
(* interleaved over the same items and posts.                              *)
(***************************************************************************)
EXTENDS ContentScheduling

FirstVersion == IF Start = "IDEA" THEN 0 ELSE 1

\* Items as a person alone brings them to Start: created, and with a caption by
\* its copywriter from REVIEW on.
Init ==
  /\ item \in [Items -> [status : {Start}, version : {FirstVersion}, post : {NoPost},
                         copywriter : Assignees \cap Users, by : {NoUser}]]
  /\ deleted = {}
  /\ revisions = [i \in Items |-> [v \in Versions |->
                    IF v = 1 /\ FirstVersion = 1 THEN item[i].copywriter ELSE NoUser]]
  /\ post = [p \in Posts |-> "NONE"]
  /\ origin = [p \in Posts |-> NoItem]
  /\ author = [p \in Posts |-> NoUser]
  /\ copy = [p \in Posts |-> 0]
  /\ presence = [u \in Users |-> "here"]
  /\ BusInit
  /\ req = [a \in Actors |-> NoReq]
  /\ worker = [w \in Workers |-> Asleep]
  /\ ops = 0
  /\ faults = 0
  /\ approved = [i \in Items |-> IF Start = "APPROVED" THEN {1} ELSE {}]
  /\ incidents = [i \in Items |-> {}]

Targets(op) == IF op \in {"move", "decide"} THEN ItemStatuses ELSE {"IDEA"}
Assigned(op) == IF op = "update" THEN Assignees ELSE {NoUser}

Request(a) ==
  \E op \in Menu \cap Ops, i \in Items : \E to \in Targets(op), who \in Assigned(op) :
    Load(a, op, i, to, who)

Respond(a) == Write(a) \/ ScheduleStep(a) \/ SyncRead(a) \/ SyncWrite(a)

PublishingMoves ==
  \E p \in Posts :
    \/ \E s \in {"PUBLISHED", "FAILED"} :
         \/ \E heard \in BOOLEAN : PublishOutcome(p, s, heard)
         \/ PublishByHand(p, s)
    \/ \E to \in Publishing!Statuses \cup {"DELETED"} : ByHand(p, to)

Next ==
  \/ \E a \in Actors : Request(a) \/ Respond(a) \/ ScheduleEnds(a)
  \/ PublishingMoves
  \/ \E w \in Workers :
       \/ \E k \in DOMAIN stream : Receive(w, k)
       \/ StartRun(w) \/ WorkerStep(w)
       \/ AskFails(w) \/ WorkerFails(w) \/ AckLate(w)
  \/ \E u \in Users : Leave(u) \/ ForgetUser(u)

Spec == Init /\ [][Next]_vars

\* Handlers run to their end, the tick of every fifteen minutes comes, outcomes
\* are delivered, and publishing resolves what is due.
Fairness ==
  /\ \A a \in Actors : WF_vars(Respond(a)) /\ WF_vars(Refused(a) /\ ScheduleEnds(a))
  /\ \A p \in Posts : WF_vars(\E s \in {"PUBLISHED", "FAILED"} : PublishOutcome(p, s, TRUE))
  /\ \A w \in Workers : /\ WF_vars(WorkerStep(w)) /\ SF_vars(StartRun(w))
                        /\ WF_vars(\E k \in DOMAIN stream : Receive(w, k))

FairSpec == Spec /\ Fairness

-----------------------------------------------------------------------------
Letters == [msg : [post : Posts, status : {"PUBLISHED", "FAILED"}],
            state : LetterStates, tries : Nat]
InFlight == [op : Ops, step : {"write", "save", "link", "approve", "queue", "commit", "read"},
             item : Items, row : ItemRows, to : ItemStatuses,
             who : Users \cup {NoUser}, post : Posts \cup {NoPost}, seen : PostStates]
Handlers == [pc : {"next", "ask", "apply"}, msg : Nat,
             todo : SUBSET [item : Items, row : ItemRows],
             item : Items \cup {NoItem}, row : ItemRows \cup {NoRow}, seen : PostStates]

\* What a request in flight was let in with: it stands whatever the table says
\* by now. A schedule past its save has a post, past its link its row names it.
Admitted(a, r) ==
  /\ r.op \in {"revise", "schedule"} => a \in Users
  /\ r.op \in {"move", "decide"} => r.to \in ItemTransitions[r.row.status]
  /\ r.op \in {"revise", "delete"} => ~IsLocked(r.row.status)
  /\ r.op = "sync" => r.row.post \in Posts
  /\ r.op = "schedule" =>
       /\ CanSchedule(r.row.status)
       /\ r.step \notin {"write", "read"}
       /\ r.step # "save" => r.post \in Posts
       /\ r.step \notin {"save", "link"} => r.row.post = r.post

\* A handler that asks or applies has an item with a post, and the message it
\* handles, if any, is in the stream. A reconciliation lists items with posts.
Handles(h, messages) ==
  /\ \A x \in h.todo : x.row.post \in Posts
  /\ h.pc = "next" => h = [Asleep EXCEPT !.pc = "next", !.todo = h.todo]
  /\ h.pc \in {"ask", "apply"} =>
       /\ h.item \in Items /\ h.row \in ItemRows /\ h.row.post \in Posts
       /\ h.msg \in {0} \cup messages

\* The types of every variable, of requests and handlers with what they are at.
TypeOK ==
  /\ item \in [Items -> ItemRows]
  /\ deleted \subseteq Items
  /\ revisions \in [Items -> [Versions -> Users \cup {NoUser}]]
  /\ post \in [Posts -> PostStates]
  /\ origin \in [Posts -> Items \cup {NoItem}]
  /\ author \in [Posts -> Users \cup {NoUser}]
  /\ copy \in [Posts -> Versions]
  /\ presence \in [Users -> {"here", "left", "forgotten"}]
  /\ stream \in Seq(Letters)
  /\ req \in [Actors -> InFlight \cup {NoReq}]
  /\ worker \in [Workers -> Handlers \cup {Asleep}]
  /\ ops \in 0..MaxOps
  /\ faults \in 0..MaxFaults
  /\ approved \in [Items -> SUBSET Versions]
  /\ incidents \in [Items -> SUBSET Incidents]
  /\ \A p \in Posts : post[p] # "NONE" => origin[p] \in Items
  /\ \A a \in Actors : req[a] # NoReq => Admitted(a, req[a])
  /\ \A w \in Workers : worker[w] # Asleep => Handles(worker[w], DOMAIN stream)

-----------------------------------------------------------------------------
\* The rows in flight: what handlers have read of i and may still write.
RowsOf(i) ==
  {item[i]}
    \cup {req[a].row : a \in {b \in Actors : req[b].item = i}}
    \cup {worker[w].row : w \in {v \in Workers : worker[v].item = i}}
    \cup UNION {{x.row : x \in {y \in worker[w].todo : y.item = i}} : w \in Workers}

Settled == {"APPROVED", "SCHEDULED", "PUBLISHED", "FAILED"}

\* The review of copy, as an inductive invariant. An item past its review, in
\* the table or in the hands of any handler, carries a version of its caption
\* that a review approved, and so does every post made for it: whatever rows
\* are written over each other. Unless it was revised after a failed publish.
CopyInv ==
  \A i \in Items : "retouched" \notin incidents[i] =>
    /\ \A r \in RowsOf(i) : r.status \in Settled => r.version \in approved[i]
    /\ \A p \in Posts : origin[p] = i => copy[p] \in approved[i]

Out(p) == post[p] \in {"PUBLISHED", "DELETED"}

\* What content says of publishing is so: an item that reads PUBLISHED, in the
\* table or in any handler's hands, has a post that was published (and perhaps
\* deleted since); so has a handler that was told so, and an outcome that says so.
TruthInv ==
  /\ \A i \in Items : \A r \in RowsOf(i) :
       r.status = "PUBLISHED" => r.post \in Posts /\ Out(r.post)
  /\ \A a \in Actors : req[a].op = "sync" /\ req[a].seen = "PUBLISHED"
                          => Out(req[a].row.post)
  /\ \A w \in Workers : worker[w].pc = "apply" /\ worker[w].seen = "PUBLISHED"
                          => Out(worker[w].row.post)
  /\ \A k \in DOMAIN stream : stream[k].msg.status = "PUBLISHED" => Out(stream[k].msg.post)
  /\ \A w \in Workers : worker[w].pc = "ask" /\ worker[w].msg # 0
                          => stream[worker[w].msg].msg.post = worker[w].row.post

\* An item goes out once, but for the causes named: a row written over another
\* one's, two people scheduling it at the same time, a schedule that ended
\* before the item was told, and people who take up its posts in publishing.
PublishedOnce ==
  \A i \in Items :
    incidents[i] \cap {"overwritten", "doubled", "strayed", "byhand"} = {} =>
      Cardinality({p \in Posts : origin[p] = i /\ post[p] = "PUBLISHED"}) <= 1

\* A post that is to go out or went out is known to its item, which waits for
\* it, or somebody is about to tell the item - but for the same causes.
Tracked ==
  \A p \in Posts : post[p] \in {"SCHEDULED", "PUBLISHED"} =>
    \/ incidents[origin[p]] \cap {"overwritten", "doubled", "strayed", "byhand"} # {}
    \/ \E a \in Users : Doing(a, "commit") /\ req[a].post = p
    \/ /\ Visible(origin[p]) /\ item[origin[p]].post = p
       /\ item[origin[p]].status \in {"SCHEDULED", "PUBLISHED"}

\* An item does not stay scheduled: it is published or fails with its post, or
\* comes back to APPROVED. Unless it or its post is deleted, or its scheduler left.
ScheduledResolves ==
  \A i \in Items :
    item[i].status = "SCHEDULED" ~>
      \/ item[i].status # "SCHEDULED" \/ ~Visible(i) \/ Gone(item[i].by)
      \/ post[item[i].post] = "DELETED"

-----------------------------------------------------------------------------
\* rules.go: "IsLocked: scheduled and published items no longer change here":
\* no request takes an item out of them.
LockedStays ==
  [][\A a \in Actors, i \in Items :
       Write(a) /\ IsLocked(item[i].status) => item'[i] = item[i]]_vars

\* scheduling.go: "Reconcile stays as the safety net": an item whose scheduler
\* is still there is resolved whatever became of other people.
SafetyNet ==
  \A i \in Items :
    item[i].status = "SCHEDULED" /\ ~Gone(item[i].by) ~>
      \/ item[i].status # "SCHEDULED" \/ ~Visible(i) \/ Gone(item[i].by)
      \/ post[item[i].post] = "DELETED"
=============================================================================
