---------------------------- MODULE MCPublishing ----------------------------
(***************************************************************************)
(* Small instances of Publishing for TLC.                                  *)
(***************************************************************************)
EXTENDS Publishing, TLC

CONSTANTS ana, budi, citra

\* ana writes, budi may approve her posts but not his own, citra may all.
MCRole == [u \in Users |-> CASE u = citra -> "ADMIN" [] OTHER -> "MANAGER"]

\* The requests that matter where two people work on one post at a time, and
\* those that matter to the ticks.
RaceMenu == {"approve", "draft", "schedule", "save", "delete", "publish"}
TickMenu == {"approve", "schedule"}

Symmetric == Permutations(Posts) \cup Permutations(Accounts) \cup Permutations(Workers)
=============================================================================
