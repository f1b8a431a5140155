---------------------------- MODULE ContentRules ----------------------------
(***************************************************************************)
(* The pure rules of a content item (internal/content/domain/rules.go):    *)
(* its statuses, the moves people make by hand, what is locked, and how    *)
(* the state of its publishing post is folded into it.                     *)
(***************************************************************************)
EXTENDS Naturals

ItemStatuses == {"IDEA", "COPYWRITING", "DESIGN", "REVIEW", "REVISION",
                 "APPROVED", "SCHEDULED", "PUBLISHED", "FAILED"}

\* SCHEDULED, PUBLISHED and FAILED are reached through scheduling and results.
ItemTransitions ==
  [s \in ItemStatuses |->
     CASE s = "IDEA"        -> {"COPYWRITING"}
       [] s = "COPYWRITING" -> {"DESIGN", "REVIEW", "IDEA"}
       [] s = "DESIGN"      -> {"REVIEW", "COPYWRITING"}
       [] s = "REVIEW"      -> {"APPROVED", "REVISION"}
       [] s = "REVISION"    -> {"REVIEW"}
       [] s = "APPROVED"    -> {"REVISION"}
       [] s = "FAILED"      -> {"APPROVED"}
       [] OTHER             -> {}]

\* Approving or sending back is the reviewer's call.
IsReviewMove(from, to) ==
  \/ to = "APPROVED" /\ from = "REVIEW"
  \/ to = "REVISION"

CanMove(from, to, role, isCopywriter) ==
  /\ role # "VIEWER"
  /\ to \in ItemTransitions[from]
  /\ ~(IsReviewMove(from, to) /\ role = "MANAGER" /\ isCopywriter)

IsLocked(s) == s \in {"SCHEDULED", "PUBLISHED"}

\* Mutant: what is scheduled already may be scheduled again.
ScheduleAgain(s) == s \in {"APPROVED", "FAILED", "SCHEDULED"}

CanSchedule(s) == s \in {"APPROVED", "FAILED"}

\* Mutant: revised copy stays approved.
ReviseKeeps(s) == s

\* What Revise does to the status: approved copy goes back to review.
StatusAfterRevise(s) == IF s = "APPROVED" THEN "REVIEW" ELSE s

(***************************************************************************)
(* apply (scheduling.go): the status of an item after it is told that its  *)
(* post has the given status. Only a scheduled or failed item listens.     *)
(***************************************************************************)
Unposted == {"DRAFT", "IN_REVIEW", "APPROVED", "REJECTED"}

\* Mutant: what is not known to have failed or stopped has been published.
ElsePublished(s, post) ==
  IF s \notin {"SCHEDULED", "FAILED"} THEN s
  ELSE IF post = "FAILED" THEN "FAILED"
  ELSE IF post \in Unposted THEN IF s = "SCHEDULED" THEN "APPROVED" ELSE s
  ELSE "PUBLISHED"

\* Mutant: a post taken off its schedule in publishing is not noticed.
OnlyOutcomes(s, post) ==
  IF s \in {"SCHEDULED", "FAILED"} /\ post \in {"PUBLISHED", "FAILED"} THEN post ELSE s

\* Mutant: what is not published by now has failed.
ElseFailed(s, post) ==
  IF s \notin {"SCHEDULED", "FAILED"} THEN s
  ELSE IF post = "PUBLISHED" THEN "PUBLISHED" ELSE "FAILED"

Fold(s, post) ==
  IF s \notin {"SCHEDULED", "FAILED"} THEN s
  ELSE IF post = "PUBLISHED" THEN "PUBLISHED"
  ELSE IF post = "FAILED" THEN "FAILED"
  ELSE IF post \in Unposted /\ s = "SCHEDULED" THEN "APPROVED"
  ELSE s
=============================================================================
