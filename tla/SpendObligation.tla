--------------------------- MODULE SpendObligation ---------------------------
(***************************************************************************)
(* What the durable commit path promises about one spend, with nothing of  *)
(* how: once owed, it stays owed until the ledger has it, the server has   *)
(* refused it, or a client that cannot send anything forsakes it; and the  *)
(* ledger takes it at most once.                                           *)
(***************************************************************************)
VARIABLES
    owed,      \* the client still has to settle the spend
    ledger,    \* the settlements the server has recorded
    refused,   \* the server has refused the spend
    forsaken   \* a client that cannot send has given it up

vars == <<owed, ledger, refused, forsaken>>

Init == owed = FALSE /\ ledger = {} /\ refused = FALSE /\ forsaken = FALSE

(* The spend becomes owed; a straggler may owe it again after it was       *)
(* settled, which costs a request and charges nothing.                     *)
Owe == owed' = TRUE /\ UNCHANGED <<ledger, refused, forsaken>>

Settle ==
    /\ ledger = {}
    /\ \E entry \in ledger' : ledger' = {entry}
    /\ UNCHANGED <<owed, refused, forsaken>>

Reject == refused' = TRUE /\ UNCHANGED <<owed, ledger, forsaken>>

(* The spend is dropped, unsettled, or would be if the removal worked.     *)
Forsake ==
    /\ forsaken' = TRUE
    /\ owed' \in {owed, FALSE}
    /\ UNCHANGED <<ledger, refused>>

Discharge ==
    /\ ledger # {} \/ refused
    /\ owed' = FALSE
    /\ UNCHANGED <<ledger, refused, forsaken>>

Next == Owe \/ Settle \/ Reject \/ Forsake \/ Discharge

Spec == Init /\ [][Next]_vars

(* No spend is charged twice.                                              *)
AtMostOnce == \A x, y \in ledger : x = y
==============================================================================
