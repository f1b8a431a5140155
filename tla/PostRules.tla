----------------------------- MODULE PostRules -----------------------------
(***************************************************************************)
(* The pure rules of a content post (internal/publishing/domain/rules.go): *)
(* its statuses, the moves a person may make, and how the outcome of a     *)
(* publish run is resolved from the outcomes of its targets.               *)
(***************************************************************************)
EXTENDS Integers

Statuses == {"DRAFT", "IN_REVIEW", "APPROVED", "SCHEDULED", "PUBLISHING",
             "PUBLISHED", "FAILED", "REJECTED"}

Roles == {"ADMIN", "MANAGER", "VIEWER"}

\* Mutant: a draft may be scheduled without a review.
UnreviewedTransitions ==
  [s \in Statuses |->
     CASE s = "DRAFT"     -> {"IN_REVIEW", "APPROVED", "SCHEDULED"}
       [] s = "IN_REVIEW" -> {"APPROVED", "REJECTED", "DRAFT"}
       [] s = "REJECTED"  -> {"DRAFT", "IN_REVIEW"}
       [] s = "APPROVED"  -> {"SCHEDULED", "PUBLISHING", "DRAFT"}
       [] s = "SCHEDULED" -> {"APPROVED", "PUBLISHING"}
       [] s = "FAILED"    -> {"PUBLISHING", "SCHEDULED", "DRAFT"}
       [] OTHER           -> {}]

\* The human-driven moves: Transitions[s] is where a person may take a post.
Transitions ==
  [s \in Statuses |->
     CASE s = "DRAFT"     -> {"IN_REVIEW", "APPROVED"}
       [] s = "IN_REVIEW" -> {"APPROVED", "REJECTED", "DRAFT"}
       [] s = "REJECTED"  -> {"DRAFT", "IN_REVIEW"}
       [] s = "APPROVED"  -> {"SCHEDULED", "PUBLISHING", "DRAFT"}
       [] s = "SCHEDULED" -> {"APPROVED", "PUBLISHING"}
       [] s = "FAILED"    -> {"PUBLISHING", "SCHEDULED", "DRAFT"}
       [] OTHER           -> {}]

\* Mutant: the four-eyes rule is gone.
SelfApproval(from, to, role, isAuthor) == role # "VIEWER" /\ to \in Transitions[from]

\* A viewer moves nothing, a manager decides on nobody's post but others'.
CanTransition(from, to, role, isAuthor) ==
  /\ role # "VIEWER"
  /\ to \in Transitions[from]
  /\ ~(to \in {"APPROVED", "REJECTED"} /\ role = "MANAGER" /\ isAuthor)

EditableStatuses == {"DRAFT", "REJECTED", "IN_REVIEW", "APPROVED"}
ReschedulableStatuses == {"DRAFT", "APPROVED", "SCHEDULED"}

CanEdit(s, role) == role # "VIEWER" /\ s \in EditableStatuses
CanReschedule(s, role) == role # "VIEWER" /\ s \in ReschedulableStatuses
CanDelete(s, role) == role # "VIEWER" /\ s # "PUBLISHING"

\* Mutant: an edit leaves the status alone.
StatusKept(s) == s

StatusAfterEdit(s) == IF s \in EditableStatuses THEN "DRAFT" ELSE s

\* What ClaimPost may take a post from.
Claimable == {"APPROVED", "SCHEDULED", "FAILED"}

\* Mutant: one published target is enough.
LenientOutcome(outcomes, maxAttempts, manual) ==
  IF \E o \in outcomes : o.status = "PUBLISHED" THEN "PUBLISHED"
  ELSE IF outcomes = {} \/ manual \/ \E o \in outcomes : o.attempts >= maxAttempts
  THEN "FAILED" ELSE "SCHEDULED"

(***************************************************************************)
(* The verdict on a post, from the set of its targets' outcomes (records   *)
(* with a status and the attempts made). The code takes a list; only which *)
(* outcomes occur matters to it, never how often.                          *)
(***************************************************************************)
ResolvePostOutcome(outcomes, maxAttempts, manual) ==
  LET failed == {o \in outcomes : o.status = "FAILED"}
  IN  IF outcomes = {} THEN "FAILED"
      ELSE IF \A o \in outcomes : o.status = "PUBLISHED" THEN "PUBLISHED"
      ELSE IF failed # {} /\ (manual \/ \E o \in failed : o.attempts >= maxAttempts)
      THEN "FAILED"
      ELSE "SCHEDULED"
=============================================================================
