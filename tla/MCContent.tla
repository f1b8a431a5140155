------------------------------ MODULE MCContent ------------------------------
(***************************************************************************)
(* Small instances of Content for TLC.                                     *)
(***************************************************************************)
EXTENDS Content, TLC

CONSTANTS ana, budi, citra

\* ana is a manager, budi and citra may do everything.
MCRole == [u \in Users |-> CASE u = ana -> "MANAGER" [] OTHER -> "ADMIN"]

\* The items are planned for one instant after the other.
Planned == [i \in Items |-> i]

CopyMenu == {"revise", "update", "schedule", "decide", "post published"}
HandMenu == {"move", "update", "schedule", "sync", "delete", "stamp", "post moved", "post deleted",
             "post published"}
RetryMenu == {"move", "schedule"}

Symmetric == Permutations(Posts) \cup Permutations(Workers)
=============================================================================
