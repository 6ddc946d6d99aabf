--------------------------- MODULE DeliveryPromise ---------------------------
(***************************************************************************)
(* What a Delivery Receipt promises its clients, whatever they repeat or   *)
(* reorder: every reported attempt counts once, a receipt is acknowledged  *)
(* only as delivered, and an acknowledgement is final.                     *)
(***************************************************************************)
CONSTANTS Receipts, Keys

VARIABLES
    phase,            \* of each receipt
    counted           \* the reports of attempts that each receipt has counted

PromiseInit ==
    /\ phase = [r \in Receipts |-> "absent"]
    /\ counted = [r \in Receipts |-> {}]

Open(r) ==
    /\ phase[r] = "absent"
    /\ phase' = [phase EXCEPT ![r] = "open"]
    /\ UNCHANGED counted

(* One report is counted by one receipt.                                   *)
Count(r, k, result) ==
    /\ phase[r] \in {"open", "delivered"}
    /\ \A s \in Receipts : k \notin counted[s]
    /\ phase' = [phase EXCEPT ![r] = result]
    /\ counted' = [counted EXCEPT ![r] = counted[r] \cup {k}]

Finish(r) ==
    /\ phase[r] = "delivered"
    /\ phase' = [phase EXCEPT ![r] = "acknowledged"]
    /\ UNCHANGED counted

PromiseNext == \E r \in Receipts :
    \/ Open(r) \/ Finish(r)
    \/ \E k \in Keys, result \in {"open", "delivered"} : Count(r, k, result)

Promise == PromiseInit /\ [][PromiseNext]_<<phase, counted>>
=============================================================================
