----------------------------- MODULE ReviewGate -----------------------------
(***************************************************************************)
(* What the approval workflow promises the client, without any of its      *)
(* machinery: nothing of a post reaches a social account unless somebody   *)
(* entitled to has approved that post before.                              *)
(***************************************************************************)
EXTENDS Naturals

CONSTANTS Posts, Accounts

VARIABLES cleared, \* the posts somebody entitled to approved
          shown    \* shown[p][a]: how often p was put on account a

gateVars == <<cleared, shown>>

Init == cleared = {} /\ shown = [p \in Posts |-> [a \in Accounts |-> 0]]

Clear(p) == cleared' = cleared \cup {p} /\ UNCHANGED shown

Show(p, a) ==
  /\ p \in cleared
  /\ shown' = [shown EXCEPT ![p][a] = @ + 1]
  /\ UNCHANGED cleared

Next == \E p \in Posts : Clear(p) \/ \E a \in Accounts : Show(p, a)

Spec == Init /\ [][Next]_gateVars
=============================================================================
