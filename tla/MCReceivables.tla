---------------------------- MODULE MCReceivables ----------------------------
(***************************************************************************)
(* Small instances of Receivables for TLC.                                 *)
(***************************************************************************)
EXTENDS Receivables, TLC

CONSTANTS p1

\* The first payment brings 1, others 2.
MCAmount == [p \in Payments |-> IF p = p1 THEN 1 ELSE 2]

BillingMenu == {"submit", "revise", "issue", "cancel", "attach", "detach", "remove", "proof",
                "approve", "reject"}
ReceiptMenu == {"submit", "issue", "cancel", "record", "remove", "receipt", "credit note",
                "write-off", "void", "retry", "run", "OPEN", "CLOSED"}

Symmetric == Permutations(Vouchers) \cup Permutations(Staff) \cup Permutations(Workers)
=============================================================================
