------------------------------- MODULE MCHires -------------------------------
(***************************************************************************)
(* Small instances of Hires for TLC.                                       *)
(***************************************************************************)
EXTENDS Hires, TLC

CONSTANTS c1, o1, o2, e1

\* Every candidate gave the address somebody at hr may give an employee.
MCEmail == [c \in Candidates |-> e1]

\* Nothing is offered yet; or the link of an open offer has run out; or a second
\* offer has replaced the first.
NoRow == [cand |-> NoCandidate, version |-> 0, status |-> "NONE", lapsed |-> FALSE]
Row(v, status, lapsed) == [cand |-> c1, version |-> v, status |-> status, lapsed |-> lapsed]

MCStarts ==
  {[o \in Offers |-> NoRow]}
  \cup {[o \in Offers |-> IF o = o1 THEN Row(1, "sent", TRUE) ELSE NoRow]}
  \cup {[o \in Offers |-> CASE o = o1 -> Row(1, "expired", TRUE) [] o = o2 -> Row(2, "sent", FALSE)
                                [] OTHER -> NoRow]}

AllRequests == {"move", "delete", "offer", "lapse", "visit", "respond", "record", "employ",
                "dismiss"}
=============================================================================
