----------------------------- MODULE Deliveries -----------------------------
(***************************************************************************)
(* Delivery Receipts, the outbox and the inbox of the Work Item ledger     *)
(* (runner/work_item_governance/service.py).                               *)
(*                                                                         *)
(* Nothing in the repository delivers: external clients dispatch outbox    *)
(* events and report what happened.  They may repeat a report, report out  *)
(* of order, and report with a key that was used before for something      *)
(* else.  Every command is one write transaction; the inbox, unique by     *)
(* source and key, tells a repeated report from a new one.                 *)
(*                                                                         *)
(* A receipt stands for its idempotency_key, which is unique: creating it  *)
(* again replays or conflicts, and changes nothing either way.             *)
(***************************************************************************)
EXTENDS Integers, FiniteSets

CONSTANTS
    Receipts,         \* delivery receipts
    Keys,             \* source event keys
    AckSources,       \* the sources that acknowledgements name: any text
    None,
    DelayCap,         \* 3600 seconds
    ExponentCap       \* 12

ASSUME DeliveryAssumption ==
    /\ DelayCap \in Nat \ {0} /\ ExponentCap \in Nat
    /\ None \notin Receipts \cup Keys

VARIABLES
    receipts,         \* delivery_receipts
    outbox,           \* outbox_events
    inbox             \* inbox_events: the payload of each source and key

vars == <<receipts, outbox, inbox>>

-----------------------------------------------------------------------------
Sources == {"delivery_retry", "outbox_delivery", "outbox_manual_recovery"} \cup AckSources

(* The dedupe_key of an outbox event: delivery:R:created and               *)
(* delivery:R:retry:K.                                                     *)
OutboxEvents == Receipts \X (Keys \cup {None})

Result(r, ok) == [kind |-> "result", receipt |-> r, ok |-> ok]
Acknowledgement(r) == [kind |-> "acknowledgement", receipt |-> r]
OutboxResult(e, ok) == [kind |-> "outbox_result", event |-> e, ok |-> ok]
Recovery(e) == [kind |-> "recovery", event |-> e]

Payloads ==
    {Result(r, ok) : r \in Receipts, ok \in BOOLEAN}
    \cup {Acknowledgement(r) : r \in Receipts}
    \cup {OutboxResult(e, ok) : e \in OutboxEvents, ok \in BOOLEAN}
    \cup {Recovery(e) : e \in OutboxEvents}

(* None is neither a payload nor a delay; and powers of two are positive,  *)
(* which the prover's arithmetic does not know.                            *)
ASSUME NoneAssumption == None \notin Payloads /\ None \notin Nat
ASSUME PowerAssumption == \A n \in 0 .. ExponentCap : 2 ^ n \in Nat \ {0}

ReceiptStatuses == {"absent", "pending", "retry_scheduled", "delivered", "acknowledged"}
OutboxStatuses == {"absent", "pending", "retry_scheduled", "delivered"}

(* delay is the time to next_attempt_at, or None.                          *)
Row(status, attempts, delay) ==
    [status |-> status, attempts |-> attempts, delay |-> delay]

Init ==
    /\ receipts = [r \in Receipts |-> Row("absent", 0, None)]
    /\ outbox = [e \in OutboxEvents |-> Row("absent", 0, None)]
    /\ inbox = [s \in Sources |-> [k \in Keys |-> None]]

-----------------------------------------------------------------------------
Smaller(a, b) == IF a <= b THEN a ELSE b
UncappedDelay(attempts) == 2 ^ attempts
RetryDelay(attempts) == Smaller(DelayCap, 2 ^ Smaller(attempts, ExponentCap))

(* A delivery attempt with its result, of a receipt or an outbox event.    *)
AfterAttemptKeepingDelay(row, ok) ==
    LET n == row.attempts + 1
    IN  Row(IF ok THEN "delivered" ELSE "retry_scheduled", n,
            IF ok THEN row.delay ELSE RetryDelay(n))
AfterAttempt(row, ok) ==
    LET n == row.attempts + 1
    IN  Row(IF ok THEN "delivered" ELSE "retry_scheduled", n,
            IF ok THEN None ELSE RetryDelay(n))

(* The key is new for its source.  A known key with the same payload       *)
(* replays, with another it conflicts: no change.                          *)
IsNewIgnored(source, k) == TRUE
IsNew(source, k) == inbox[source][k] = None

Receive(source, k, payload) ==
    inbox' = [inbox EXCEPT ![source][k] = payload]

Publish(e) == [outbox EXCEPT ![e] = Row("pending", 0, None)]

create_delivery_receipt(r) ==
    /\ receipts[r].status = "absent"
    /\ receipts' = [receipts EXCEPT ![r] = Row("pending", 0, None)]
    /\ outbox' = Publish(<<r, None>>)
    /\ UNCHANGED inbox

CanRetryEvenIfAcknowledged(r) == receipts[r].status # "absent"
CanRetry(r) == receipts[r].status \notin {"absent", "acknowledged"}

retry_delivery(r, k, ok) ==
    /\ IsNew("delivery_retry", k) /\ CanRetry(r)
    /\ receipts' = [receipts EXCEPT ![r] = AfterAttempt(receipts[r], ok)]
    /\ Receive("delivery_retry", k, Result(r, ok))
    /\ outbox' = Publish(<<r, k>>)

CanAcknowledgeUndelivered(r) == receipts[r].status # "absent"
CanAcknowledge(r) == receipts[r].status \in {"delivered", "acknowledged"}

acknowledge_delivery(r, source, k) ==
    /\ IsNew(source, k) /\ CanAcknowledge(r)
    /\ receipts' = [receipts EXCEPT ![r] =
           Row("acknowledged", receipts[r].attempts, receipts[r].delay)]
    /\ Receive(source, k, Acknowledgement(r))
    /\ UNCHANGED outbox

(* Whatever the status of the event: a failure may come in after success.  *)
record_outbox_delivery_result(e, k, ok) ==
    /\ outbox[e].status # "absent" /\ IsNew("outbox_delivery", k)
    /\ outbox' = [outbox EXCEPT ![e] = AfterAttempt(outbox[e], ok)]
    /\ Receive("outbox_delivery", k, OutboxResult(e, ok))
    /\ UNCHANGED receipts

Recovered(row) == Row("pending", row.attempts, None)

recover_outbox_event(e, k) ==
    /\ outbox[e].status \notin {"absent", "delivered"}
    /\ IsNew("outbox_manual_recovery", k)
    /\ outbox' = [outbox EXCEPT ![e] = Recovered(outbox[e])]
    /\ Receive("outbox_manual_recovery", k, Recovery(e))
    /\ UNCHANGED receipts

Next ==
    \/ \E r \in Receipts : create_delivery_receipt(r)
    \/ \E r \in Receipts, k \in Keys :
         \/ \E ok \in BOOLEAN : retry_delivery(r, k, ok)
         \/ \E source \in AckSources : acknowledge_delivery(r, source, k)
    \/ \E e \in OutboxEvents, k \in Keys :
         \/ \E ok \in BOOLEAN : record_outbox_delivery_result(e, k, ok)
         \/ recover_outbox_event(e, k)

Spec == Init /\ [][Next]_vars

-----------------------------------------------------------------------------
(* Properties.                                                             *)

Rows(statuses) ==
    [status : statuses, attempts : Nat, delay : 0 .. DelayCap \cup {None}]

TypeOK ==
    /\ receipts \in [Receipts -> Rows(ReceiptStatuses)]
    /\ outbox \in [OutboxEvents -> Rows(OutboxStatuses)]
    /\ inbox \in [Sources -> [Keys -> Payloads \cup {None}]]

(* The reports of attempts that receipt r, or outbox event e, has counted. *)
ResultsOf(r) == {k \in Keys : inbox["delivery_retry"][k] \in {Result(r, TRUE), Result(r, FALSE)}}
OutboxResultsOf(e) ==
    {k \in Keys : inbox["outbox_delivery"][k] \in {OutboxResult(e, TRUE), OutboxResult(e, FALSE)}}

(* attempt_count never drifts from the inbox, however often a report is    *)
(* repeated: each attempt counted is one report received, by the receipt   *)
(* and by each outbox event; and each report of a receipt has published    *)
(* exactly one outbox event, that the acknowledgements do not.             *)
AttemptsMatchInbox ==
    /\ \A r \in Receipts :
         /\ receipts[r].attempts = Cardinality(ResultsOf(r))
         /\ {k \in Keys : outbox[<<r, k>>].status # "absent"} = ResultsOf(r)
    /\ \A e \in OutboxEvents : outbox[e].attempts = Cardinality(OutboxResultsOf(e))

(* An acknowledged receipt was once reported as delivered, by a report of  *)
(* its own (DELIVERY_NOT_DELIVERED).                                       *)
AcknowledgedWasDelivered == \A r \in Receipts :
    receipts[r].status = "acknowledged" =>
        /\ \E k \in Keys : inbox["delivery_retry"][k] = Result(r, TRUE)
        /\ \E s \in AckSources, k \in Keys : inbox[s][k] = Acknowledgement(r)

(* A next attempt is due exactly while a retry is scheduled, and no later  *)
(* than the cap: a receipt or event is neither forgotten nor delivered     *)
(* again while nothing is due.                                             *)
DueIffScheduled ==
    LET Due(row) ==
            /\ row.delay # None <=> row.status = "retry_scheduled"
            /\ row.delay # None => row.delay \in 1 .. DelayCap
    IN  /\ \A r \in Receipts : Due(receipts[r])
        /\ \A e \in OutboxEvents : Due(outbox[e])

(* The receipts keep the promise that DeliveryPromise states, under        *)
(* repetition, reordering and keys shared between sources.                 *)
Phase(r) ==
    CASE receipts[r].status \in {"pending", "retry_scheduled"} -> "open"
      [] OTHER -> receipts[r].status
DP == INSTANCE DeliveryPromise WITH
    phase <- [r \in Receipts |-> Phase(r)],
    counted <- [r \in Receipts |-> ResultsOf(r)]
KeepsPromise == DP!Promise
=============================================================================
