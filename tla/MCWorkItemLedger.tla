--------------------------- MODULE MCWorkItemLedger ---------------------------
EXTENDS WorkItemLedger

CONSTANTS owner, reviewer

(* One principal that may do everything.                                   *)
SoleOwner == [u \in {owner} |-> Permissions]

(* A delivery role that may start delivery and submit, and a reviewer who  *)
(* may only return a submission.                                           *)
DeliveryAndReturn ==
    [u \in {owner, reviewer} |->
        IF u = owner
          THEN {"work_item.ready", "work_item.start_delivery", "work_item.submit"}
          ELSE {"work_item.return_for_revision"}]
===============================================================================
