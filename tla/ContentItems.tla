---------------------------- MODULE ContentItems ----------------------------
(***************************************************************************)
(* The workflow of content items (internal/content/app/items.go, portal.go *)
(* and the part of designs.go that writes an item). Like publishing's, a   *)
(* handler reads the row and checks it, then writes the whole row back by  *)
(* id; anything may happen in between.                                     *)
(***************************************************************************)
EXTENDS ContentStore

\* May(op, a, i, to): the checks op's handler makes on the row it has read.
May(op, a, i, to) ==
  LET r      == item[i]
      writes == a \in Users /\ Role[a] # "VIEWER"
      \* copy is needed to approve; no item here is a story
      worded == to = "APPROVED" /\ r.status = "REVIEW" => r.version > 0
  IN  CASE op \in {"update", "revise", "delete"} -> writes /\ ~IsLocked(r.status)
        [] op = "stamp"    -> writes
        [] op = "move"     -> /\ a \in Users
                              /\ CanMove(r.status, to, Role[a], r.copywriter = a)
                              /\ worded
        [] op = "decide"   -> /\ a = Client
                              /\ r.status = "REVIEW"
                              /\ to \in {"APPROVED", "REVISION"} /\ worded
        [] op = "schedule" -> writes /\ CanSchedule(r.status)
        [] op = "sync"     -> a \in Users /\ r.post # NoPost

FirstStep(op) == CASE op = "schedule" -> "save" [] op = "sync" -> "read" [] OTHER -> "write"

Load(a, op, i, to, who) ==
  /\ ops < MaxOps
  /\ req[a] = NoReq
  /\ a \in Users => ~Gone(a)
  /\ Visible(i)
  /\ May(op, a, i, to)
  /\ req' = [req EXCEPT ![a] = [NoReq EXCEPT !.op = op, !.step = FirstStep(op),
                                 !.item = i, !.row = item[i], !.to = to, !.who = who]]
  /\ ops' = ops + 1
  /\ incidents' = Noted(i, If("doubled", op = "schedule" /\ \E b \in Users : Scheduling(b, i)))
  /\ UNCHANGED <<rows, posts, presence, stream, worker, faults, approved>>

-----------------------------------------------------------------------------
Writing(a, op) == req[a].op = op /\ req[a].step = "write"

Done(a) == req' = [req EXCEPT ![a] = NoReq]

\* UpdateItem, by a request that is then done.
PutRow(a, new, kinds) ==
  LET i == req[a].item
  IN  /\ item' = [item EXCEPT ![i] = new]
      /\ incidents' = Noted(i, kinds \cup If("overwritten", Overwrites(i, req[a].row)))
      /\ Done(a)
      /\ UNCHANGED <<deleted, posts, presence, stream, worker, ops, faults>>

\* Update writes the planning fields; who writes the copy is one of them.
Update(a) ==
  /\ Writing(a, "update")
  /\ PutRow(a, [req[a].row EXCEPT !.copywriter = req[a].who], {})
  /\ UNCHANGED <<revisions, approved>>

\* Designs.Review: an approved design is stamped on the item, locked or not.
StampDesign(a) ==
  /\ Writing(a, "stamp")
  /\ PutRow(a, req[a].row, {})
  /\ UNCHANGED <<revisions, approved>>

\* Move, and Decide on the share page.
Move(a) ==
  LET r == req[a]
  IN  /\ Writing(a, "move") \/ Writing(a, "decide")
      /\ PutRow(a, [r.row EXCEPT !.status = r.to], {})
      /\ approved' = IF r.to = "APPROVED" /\ r.row.status = "REVIEW"
                     THEN [approved EXCEPT ![r.item] = @ \cup {r.row.version}]
                     ELSE approved
      /\ UNCHANGED revisions

\* Revise: the new version must not be there yet (UNIQUE (item_id, version)).
Unwritten(i, v) == revisions[i][v] = NoUser

Revise(a) ==
  LET r == req[a]
      v == r.row.version + 1
  IN  /\ Writing(a, "revise")
      /\ Unwritten(r.item, v)
      /\ revisions' = [revisions EXCEPT ![r.item][v] = a]
      /\ PutRow(a, [r.row EXCEPT !.version = v, !.status = StatusAfterRevise(@)],
                If("retouched", r.row.status = "FAILED"))
      /\ UNCHANGED approved

ReviseFails(a) ==
  /\ Writing(a, "revise")
  /\ ~Unwritten(req[a].item, req[a].row.version + 1)
  /\ Done(a)
  /\ UNCHANGED <<rows, posts, presence, stream, worker, ops, faults, history>>

Delete(a) ==
  LET i == req[a].item
  IN  /\ Writing(a, "delete")
      /\ deleted' = deleted \cup {i}
      /\ incidents' = Noted(i, If("overwritten", Overwrites(i, req[a].row)))
      /\ Done(a)
      /\ UNCHANGED <<item, revisions, posts, presence, stream, worker, ops, faults, approved>>

Write(a) ==
  \/ Update(a) \/ StampDesign(a) \/ Move(a)
  \/ Revise(a) \/ ReviseFails(a) \/ Delete(a)

-----------------------------------------------------------------------------
\* identity deletes a user; content hears of it and clears the assignments,
\* not scheduled_by.
Leave(u) ==
  /\ u \in Leavers /\ ~Gone(u)
  /\ presence' = [presence EXCEPT ![u] = "left"]
  /\ UNCHANGED <<rows, posts, stream, req, worker, ops, faults, history>>

ForgetUser(u) ==
  /\ presence[u] = "left"
  /\ presence' = [presence EXCEPT ![u] = "forgotten"]
  /\ item' = [i \in Items |-> IF item[i].copywriter = u
                              THEN [item[i] EXCEPT !.copywriter = NoUser] ELSE item[i]]
  /\ UNCHANGED <<deleted, revisions, posts, stream, req, worker, ops, faults, history>>
=============================================================================
