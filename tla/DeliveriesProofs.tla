--------------------------- MODULE DeliveriesProofs ---------------------------
(***************************************************************************)
(* Theorems about Deliveries, for every set of receipts, keys and sources  *)
(* of acknowledgements, and every cap of the delay.                        *)
(***************************************************************************)
EXTENDS Deliveries, FiniteSetTheorems, TLAPS

-----------------------------------------------------------------------------
(* Payloads of different reports differ.                                   *)
LEMMA ResultsAreDistinct ==
    /\ \A r, s, a, b : Result(r, a) = Result(s, b) => r = s /\ a = b
    /\ \A e, f, a, b : OutboxResult(e, a) = OutboxResult(f, b) => e = f /\ a = b
BY DEF Result, OutboxResult

LEMMA KindsAreDistinct ==
    /\ \A r, s, a : Result(r, a) # Acknowledgement(s)
    /\ \A r, e, a, b : Result(r, a) # OutboxResult(e, b)
    /\ \A r, e, a : Result(r, a) # Recovery(e)
    /\ \A r, e, a : OutboxResult(e, a) # Acknowledgement(r)
<1>1. \A r, s, a : Result(r, a).kind # Acknowledgement(s).kind
  BY DEF Result, Acknowledgement
<1>2. \A r, e, a, b : Result(r, a).kind # OutboxResult(e, b).kind
  BY DEF Result, OutboxResult
<1>3. \A r, e, a : Result(r, a).kind # Recovery(e).kind
  BY DEF Result, Recovery
<1>4. \A r, e, a : OutboxResult(e, a).kind # Acknowledgement(r).kind
  BY DEF OutboxResult, Acknowledgement
<1> QED BY <1>1, <1>2, <1>3, <1>4

LEMMA NoneIsNoReport ==
    /\ \A r \in Receipts, ok \in BOOLEAN : Result(r, ok) # None
    /\ \A r \in Receipts : Acknowledgement(r) # None
    /\ \A e \in OutboxEvents, ok \in BOOLEAN : OutboxResult(e, ok) # None
<1>1. \A r \in Receipts, ok \in BOOLEAN : Result(r, ok) \in Payloads
  BY DEF Payloads
<1>2. \A r \in Receipts : Acknowledgement(r) \in Payloads
  BY DEF Payloads
<1>3. \A e \in OutboxEvents, ok \in BOOLEAN : OutboxResult(e, ok) \in Payloads
  BY DEF Payloads
<1> QED BY <1>1, <1>2, <1>3, NoneAssumption

(* The delay after a failure is positive and capped.                       *)
LEMMA DelayIsCapped ==
    ASSUME NEW n \in Nat
    PROVE  RetryDelay(n) \in 1 .. DelayCap
<1>1. Smaller(n, ExponentCap) \in 0 .. ExponentCap
  BY DeliveryAssumption DEF Smaller
<1>2. 2 ^ Smaller(n, ExponentCap) \in Nat \ {0}
  BY <1>1, PowerAssumption
<1> DEFINE power == 2 ^ Smaller(n, ExponentCap)
<1>3. power \in Nat \ {0}
  BY <1>2
<1> HIDE DEF power
<1>4. Smaller(DelayCap, power) \in 1 .. DelayCap
  BY <1>3, DeliveryAssumption DEF Smaller
<1> QED BY <1>4 DEF RetryDelay, power

Due(row) ==
    /\ row.delay # None <=> row.status = "retry_scheduled"
    /\ row.delay # None => row.delay \in 1 .. DelayCap

LEMMA AttemptsAreTyped ==
    ASSUME NEW statuses, {"delivered", "retry_scheduled"} \subseteq statuses,
           NEW row \in Rows(statuses), NEW ok \in BOOLEAN
    PROVE  /\ AfterAttempt(row, ok) \in Rows(statuses)
           /\ AfterAttempt(row, ok).attempts = row.attempts + 1
           /\ AfterAttempt(row, ok).status = IF ok THEN "delivered" ELSE "retry_scheduled"
           /\ Due(AfterAttempt(row, ok))
<1> DEFINE n == row.attempts + 1
           delay == IF ok THEN None ELSE RetryDelay(n)
           status == IF ok THEN "delivered" ELSE "retry_scheduled"
<1>1. n \in Nat
  BY DEF Rows
<1>2. RetryDelay(n) \in 1 .. DelayCap /\ RetryDelay(n) # None
  BY <1>1, DelayIsCapped, NoneAssumption, DeliveryAssumption
<1>3. AfterAttempt(row, ok) = [status |-> status, attempts |-> n, delay |-> delay]
  BY DEF AfterAttempt, Row
<1>4. delay \in 0 .. DelayCap \cup {None} /\ status \in statuses
  BY <1>2
<1>5. delay # None <=> status = "retry_scheduled"
  BY <1>2
<1>6. delay # None => delay \in 1 .. DelayCap
  BY <1>2
<1> HIDE DEF n, delay, status
<1>7. AfterAttempt(row, ok) \in Rows(statuses) /\ Due(AfterAttempt(row, ok))
  BY <1>1, <1>3, <1>4, <1>5, <1>6 DEF Rows, Due
<1> QED BY <1>3, <1>7 DEF n, status

-----------------------------------------------------------------------------
(* The steps, with their parameters.                                       *)
CreateStep == \E r \in Receipts : create_delivery_receipt(r)
RetryStep == \E r \in Receipts, k \in Keys, ok \in BOOLEAN : retry_delivery(r, k, ok)
AcknowledgeStep ==
    \E r \in Receipts, k \in Keys, source \in AckSources : acknowledge_delivery(r, source, k)
ResultStep ==
    \E e \in OutboxEvents, k \in Keys, ok \in BOOLEAN : record_outbox_delivery_result(e, k, ok)
RecoverStep == \E e \in OutboxEvents, k \in Keys : recover_outbox_event(e, k)

LEMMA StepsOfNext ==
    Next => CreateStep \/ RetryStep \/ AcknowledgeStep \/ ResultStep \/ RecoverStep
BY DEF Next, CreateStep, RetryStep, AcknowledgeStep, ResultStep, RecoverStep

(* The three tables keep their types, and whatever is due is scheduled.    *)
Scheduled == TypeOK /\ DueIffScheduled

LEMMA FreshRows ==
    /\ Row("pending", 0, None) \in Rows(OutboxStatuses)
    /\ Row("pending", 0, None) \in Rows(ReceiptStatuses)
    /\ Row("absent", 0, None) \in Rows(OutboxStatuses)
    /\ Row("absent", 0, None) \in Rows(ReceiptStatuses)
    /\ Due(Row("pending", 0, None)) /\ Due(Row("absent", 0, None))
BY DEF Row, Rows, OutboxStatuses, ReceiptStatuses, Due

LEMMA PublishIsTyped ==
    ASSUME Scheduled, NEW e \in OutboxEvents, outbox' = Publish(e)
    PROVE  /\ outbox' \in [OutboxEvents -> Rows(OutboxStatuses)]
           /\ \A f \in OutboxEvents : Due(outbox'[f])
BY FreshRows DEF Scheduled, TypeOK, DueIffScheduled, Due, Publish

LEMMA ReceiveIsTyped ==
    ASSUME TypeOK, NEW source \in Sources, NEW k \in Keys, NEW payload \in Payloads,
           Receive(source, k, payload)
    PROVE  inbox' \in [Sources -> [Keys -> Payloads \cup {None}]]
BY DEF TypeOK, Receive

LEMMA ScheduledStep == Scheduled /\ [Next]_vars => Scheduled'
<1> SUFFICES ASSUME Scheduled, [Next]_vars
             PROVE  /\ receipts' \in [Receipts -> Rows(ReceiptStatuses)]
                    /\ outbox' \in [OutboxEvents -> Rows(OutboxStatuses)]
                    /\ inbox' \in [Sources -> [Keys -> Payloads \cup {None}]]
                    /\ \A r \in Receipts : Due(receipts'[r])
                    /\ \A e \in OutboxEvents : Due(outbox'[e])
  BY DEF Scheduled, TypeOK, DueIffScheduled, Due
<1>typed. /\ receipts \in [Receipts -> Rows(ReceiptStatuses)]
          /\ outbox \in [OutboxEvents -> Rows(OutboxStatuses)]
          /\ inbox \in [Sources -> [Keys -> Payloads \cup {None}]]
          /\ \A r \in Receipts : Due(receipts[r])
          /\ \A e \in OutboxEvents : Due(outbox[e])
  BY DEF Scheduled, TypeOK, DueIffScheduled, Due
<1>1. CASE CreateStep
  <2>1. PICK r \in Receipts : create_delivery_receipt(r)
    BY <1>1 DEF CreateStep
  <2>2. <<r, None>> \in OutboxEvents
    BY DEF OutboxEvents
  <2>3. /\ receipts' = [receipts EXCEPT ![r] = Row("pending", 0, None)]
        /\ outbox' = Publish(<<r, None>>) /\ inbox' = inbox
    BY <2>1 DEF create_delivery_receipt
  <2> QED BY <2>2, <2>3, <1>typed, FreshRows, PublishIsTyped
<1>2. CASE RetryStep
  <2>1. PICK r \in Receipts, k \in Keys, ok \in BOOLEAN : retry_delivery(r, k, ok)
    BY <1>2 DEF RetryStep
  <2>2. /\ receipts' = [receipts EXCEPT ![r] = AfterAttempt(receipts[r], ok)]
        /\ outbox' = Publish(<<r, k>>)
        /\ Receive("delivery_retry", k, Result(r, ok))
    BY <2>1 DEF retry_delivery
  <2>3. <<r, k>> \in OutboxEvents /\ "delivery_retry" \in Sources /\ Result(r, ok) \in Payloads
    BY DEF OutboxEvents, Sources, Payloads
  <2>4. /\ AfterAttempt(receipts[r], ok) \in Rows(ReceiptStatuses)
        /\ Due(AfterAttempt(receipts[r], ok))
    BY <1>typed, AttemptsAreTyped DEF ReceiptStatuses
  <2>5. TypeOK
    BY DEF Scheduled
  <2> QED BY <2>2, <2>3, <2>4, <2>5, <1>typed, PublishIsTyped, ReceiveIsTyped
<1>3. CASE AcknowledgeStep
  <2>1. PICK r \in Receipts, k \in Keys, source \in AckSources :
            acknowledge_delivery(r, source, k)
    BY <1>3 DEF AcknowledgeStep
  <2> DEFINE row == Row("acknowledged", receipts[r].attempts, receipts[r].delay)
  <2>2. /\ receipts' = [receipts EXCEPT ![r] = row]
        /\ outbox' = outbox
        /\ Receive(source, k, Acknowledgement(r))
        /\ receipts[r].status \in {"delivered", "acknowledged"}
    BY <2>1 DEF acknowledge_delivery, CanAcknowledge
  <2>3. source \in Sources /\ Acknowledgement(r) \in Payloads
    BY DEF Sources, Payloads
  <2>4. receipts[r] \in Rows(ReceiptStatuses) /\ Due(receipts[r])
    BY <1>typed
  <2>5. row \in Rows(ReceiptStatuses) /\ Due(row)
    BY <2>2, <2>4 DEF Row, Rows, Due, ReceiptStatuses
  <2>6. TypeOK
    BY DEF Scheduled
  <2> HIDE DEF row
  <2> QED BY <2>2, <2>3, <2>5, <2>6, <1>typed, ReceiveIsTyped
<1>4. CASE ResultStep
  <2>1. PICK e \in OutboxEvents, k \in Keys, ok \in BOOLEAN :
            record_outbox_delivery_result(e, k, ok)
    BY <1>4 DEF ResultStep
  <2>2. /\ outbox' = [outbox EXCEPT ![e] = AfterAttempt(outbox[e], ok)]
        /\ receipts' = receipts
        /\ Receive("outbox_delivery", k, OutboxResult(e, ok))
    BY <2>1 DEF record_outbox_delivery_result
  <2>3. "outbox_delivery" \in Sources /\ OutboxResult(e, ok) \in Payloads
    BY DEF Sources, Payloads
  <2>4. /\ AfterAttempt(outbox[e], ok) \in Rows(OutboxStatuses)
        /\ Due(AfterAttempt(outbox[e], ok))
    BY <1>typed, AttemptsAreTyped DEF OutboxStatuses
  <2>5. TypeOK
    BY DEF Scheduled
  <2> QED BY <2>2, <2>3, <2>4, <2>5, <1>typed, ReceiveIsTyped
<1>5. CASE RecoverStep
  <2>1. PICK e \in OutboxEvents, k \in Keys : recover_outbox_event(e, k)
    BY <1>5 DEF RecoverStep
  <2>2. /\ outbox' = [outbox EXCEPT ![e] = Recovered(outbox[e])]
        /\ receipts' = receipts
        /\ Receive("outbox_manual_recovery", k, Recovery(e))
    BY <2>1 DEF recover_outbox_event
  <2>3. "outbox_manual_recovery" \in Sources /\ Recovery(e) \in Payloads
    BY DEF Sources, Payloads
  <2>4. outbox[e] \in Rows(OutboxStatuses)
    BY <1>typed
  <2>5. Recovered(outbox[e]) \in Rows(OutboxStatuses) /\ Due(Recovered(outbox[e]))
    BY <2>4 DEF Recovered, Row, Rows, OutboxStatuses, Due
  <2>6. TypeOK
    BY DEF Scheduled
  <2> QED BY <2>2, <2>3, <2>5, <2>6, <1>typed, ReceiveIsTyped
<1>6. CASE UNCHANGED vars
  BY <1>6, <1>typed DEF vars
<1> QED BY <1>1, <1>2, <1>3, <1>4, <1>5, <1>6, StepsOfNext

LEMMA ScheduledInit == Init => Scheduled
<1> SUFFICES ASSUME Init PROVE TypeOK /\ DueIffScheduled
  BY DEF Scheduled
<1>1. receipts \in [Receipts -> Rows(ReceiptStatuses)] /\ \A r \in Receipts : Due(receipts[r])
  BY FreshRows DEF Init
<1>2. outbox \in [OutboxEvents -> Rows(OutboxStatuses)] /\ \A e \in OutboxEvents : Due(outbox[e])
  BY FreshRows DEF Init
<1>3. inbox \in [Sources -> [Keys -> Payloads \cup {None}]]
  BY DEF Init
<1> QED BY <1>1, <1>2, <1>3 DEF TypeOK, DueIffScheduled, Due

LEMMA AlwaysScheduled == Spec => []Scheduled
BY ScheduledInit, ScheduledStep, PTL DEF Spec

(* Every table holds rows of its schema: no delay exceeds the cap, however *)
(* many attempts fail (service.py, retry_delivery and                      *)
(* record_outbox_delivery_result).                                         *)
THEOREM TypeCorrect == Spec => []TypeOK
<1>1. Scheduled => TypeOK
  BY DEF Scheduled
<1> QED BY <1>1, AlwaysScheduled, PTL

(* A next attempt is due exactly while a retry is scheduled, for receipts  *)
(* and outbox events, in whatever order results and recoveries come in.    *)
THEOREM NothingIsForgotten == Spec => []DueIffScheduled
<1>1. Scheduled => DueIffScheduled
  BY DEF Scheduled
<1> QED BY <1>1, AlwaysScheduled, PTL

-----------------------------------------------------------------------------
(* What the inbox says of a receipt or an event after a report.            *)

(* The payloads that report an attempt at a receipt or an event.           *)
Retries(r) == {Result(r, TRUE), Result(r, FALSE)}
EventResults(e) == {OutboxResult(e, TRUE), OutboxResult(e, FALSE)}

LEMMA ReceiptReports ==
    ASSUME TypeOK, NEW source \in Sources, NEW k \in Keys, NEW payload,
           IsNew(source, k), Receive(source, k, payload), NEW r \in Receipts
    PROVE  /\ source = "delivery_retry" => k \notin ResultsOf(r)
           /\ source = "delivery_retry" /\ payload \in Retries(r)
                => ResultsOf(r)' = ResultsOf(r) \cup {k}
           /\ source # "delivery_retry" \/ payload \notin Retries(r)
                => ResultsOf(r)' = ResultsOf(r)
<1>1. None \notin Retries(r)
  BY NoneIsNoReport DEF Retries
<1>2. "delivery_retry" \in Sources
  BY DEF Sources
<1>3. \A j \in Keys : inbox'["delivery_retry"][j] =
          IF source = "delivery_retry" /\ j = k THEN payload ELSE inbox["delivery_retry"][j]
  BY <1>2 DEF TypeOK, Receive
<1>4. inbox[source][k] = None
  BY DEF IsNew
<1>5. ResultsOf(r) = {j \in Keys : inbox["delivery_retry"][j] \in Retries(r)}
  BY DEF ResultsOf, Retries
<1>6. ResultsOf(r)' = {j \in Keys : inbox'["delivery_retry"][j] \in Retries(r)}
  BY DEF ResultsOf, Retries
<1>7. source = "delivery_retry" => k \notin ResultsOf(r)
  BY <1>1, <1>4, <1>5
<1>8. source = "delivery_retry" /\ payload \in Retries(r) => ResultsOf(r)' = ResultsOf(r) \cup {k}
  BY <1>3, <1>5, <1>6
<1>9. source # "delivery_retry" \/ payload \notin Retries(r) => ResultsOf(r)' = ResultsOf(r)
  BY <1>1, <1>3, <1>4, <1>5, <1>6
<1> QED BY <1>7, <1>8, <1>9

LEMMA ReceiptReported ==
    ASSUME TypeOK, NEW k \in Keys, NEW r \in Receipts, NEW payload,
           payload \in Retries(r),
           IsNew("delivery_retry", k), Receive("delivery_retry", k, payload)
    PROVE  ResultsOf(r)' = ResultsOf(r) \cup {k}
<1>1. "delivery_retry" \in Sources
  BY DEF Sources
<1> QED BY <1>1, ReceiptReports

LEMMA OutboxReports ==
    ASSUME TypeOK, NEW source \in Sources, NEW k \in Keys, NEW payload,
           IsNew(source, k), Receive(source, k, payload), NEW e \in OutboxEvents
    PROVE  /\ source = "outbox_delivery" => k \notin OutboxResultsOf(e)
           /\ source = "outbox_delivery" /\ payload \in EventResults(e)
                => OutboxResultsOf(e)' = OutboxResultsOf(e) \cup {k}
           /\ (\/ source # "outbox_delivery"
               \/ payload \notin EventResults(e))
                => OutboxResultsOf(e)' = OutboxResultsOf(e)
<1>1. None \notin EventResults(e)
  BY NoneIsNoReport DEF EventResults
<1>2. "outbox_delivery" \in Sources
  BY DEF Sources
<1>3. \A j \in Keys : inbox'["outbox_delivery"][j] =
          IF source = "outbox_delivery" /\ j = k THEN payload ELSE inbox["outbox_delivery"][j]
  BY <1>2 DEF TypeOK, Receive
<1>4. inbox[source][k] = None
  BY DEF IsNew
<1>5. OutboxResultsOf(e) = {j \in Keys : inbox["outbox_delivery"][j] \in EventResults(e)}
  BY DEF OutboxResultsOf, EventResults
<1>6. OutboxResultsOf(e)' = {j \in Keys : inbox'["outbox_delivery"][j] \in EventResults(e)}
  BY DEF OutboxResultsOf, EventResults
<1>7. source = "outbox_delivery" => k \notin OutboxResultsOf(e)
  BY <1>1, <1>4, <1>5
<1>8. source = "outbox_delivery" /\ payload \in EventResults(e)
        => OutboxResultsOf(e)' = OutboxResultsOf(e) \cup {k}
  BY <1>3, <1>5, <1>6
<1>9. source # "outbox_delivery" \/ payload \notin EventResults(e)
        => OutboxResultsOf(e)' = OutboxResultsOf(e)
  BY <1>1, <1>3, <1>4, <1>5, <1>6
<1> QED BY <1>7, <1>8, <1>9

LEMMA OutboxReported ==
    ASSUME TypeOK, NEW k \in Keys, NEW e \in OutboxEvents, NEW payload,
           payload \in EventResults(e),
           IsNew("outbox_delivery", k), Receive("outbox_delivery", k, payload)
    PROVE  OutboxResultsOf(e)' = OutboxResultsOf(e) \cup {k}
<1>1. "outbox_delivery" \in Sources
  BY DEF Sources
<1> QED BY <1>1, OutboxReports

(* A retry is a report of its receipt, and of no other receipt or event.   *)
LEMMA RetryReports ==
    ASSUME TypeOK, NEW r \in Receipts, NEW k \in Keys, NEW ok \in BOOLEAN,
           retry_delivery(r, k, ok)
    PROVE  /\ \A s \in Receipts : k \notin ResultsOf(s)
           /\ ResultsOf(r)' = ResultsOf(r) \cup {k}
           /\ \A s \in Receipts : s # r => ResultsOf(s)' = ResultsOf(s)
           /\ \A e \in OutboxEvents : OutboxResultsOf(e)' = OutboxResultsOf(e)
<1> DEFINE report == Result(r, ok)
<1>1. "delivery_retry" \in Sources
  BY DEF Sources
<1>2. IsNew("delivery_retry", k) /\ Receive("delivery_retry", k, report)
  BY DEF retry_delivery
<1>3. report \in Retries(r)
  <2>1. ok = TRUE \/ ok = FALSE
    OBVIOUS
  <2> QED BY <2>1 DEF Retries
<1>4. \A s \in Receipts : s # r => report \notin Retries(s)
  BY ResultsAreDistinct DEF Retries
<1> HIDE DEF report
<1>5. \A s \in Receipts : k \notin ResultsOf(s)
  BY <1>1, <1>2, ReceiptReports
<1>6. ResultsOf(r)' = ResultsOf(r) \cup {k}
  BY <1>2, <1>3, ReceiptReported
<1>7. ASSUME NEW s \in Receipts, s # r PROVE ResultsOf(s)' = ResultsOf(s)
  BY <1>1, <1>2, <1>4, <1>7, ReceiptReports
<1>8. ASSUME NEW e \in OutboxEvents PROVE OutboxResultsOf(e)' = OutboxResultsOf(e)
  BY <1>1, <1>2, OutboxReports
<1> QED BY <1>5, <1>6, <1>7, <1>8

(* A result is a report of its event, and of no other event or receipt.    *)
LEMMA EventResultReports ==
    ASSUME TypeOK, NEW e \in OutboxEvents, NEW k \in Keys, NEW ok \in BOOLEAN,
           record_outbox_delivery_result(e, k, ok)
    PROVE  /\ k \notin OutboxResultsOf(e)
           /\ OutboxResultsOf(e)' = OutboxResultsOf(e) \cup {k}
           /\ \A f \in OutboxEvents : f # e => OutboxResultsOf(f)' = OutboxResultsOf(f)
           /\ \A r \in Receipts : ResultsOf(r)' = ResultsOf(r)
<1> DEFINE report == OutboxResult(e, ok)
<1>1. "outbox_delivery" \in Sources
  BY DEF Sources
<1>2. IsNew("outbox_delivery", k) /\ Receive("outbox_delivery", k, report)
  BY DEF record_outbox_delivery_result
<1>3. report \in EventResults(e)
  <2>1. ok = TRUE \/ ok = FALSE
    OBVIOUS
  <2> QED BY <2>1 DEF EventResults
<1>4. \A f \in OutboxEvents : f # e => report \notin EventResults(f)
  BY ResultsAreDistinct DEF EventResults
<1> HIDE DEF report
<1>5. k \notin OutboxResultsOf(e)
  BY <1>1, <1>2, OutboxReports
<1>6. OutboxResultsOf(e)' = OutboxResultsOf(e) \cup {k}
  BY <1>2, <1>3, OutboxReported
<1>7. ASSUME NEW f \in OutboxEvents, f # e PROVE OutboxResultsOf(f)' = OutboxResultsOf(f)
  BY <1>1, <1>2, <1>4, <1>7, OutboxReports
<1>8. ASSUME NEW r \in Receipts PROVE ResultsOf(r)' = ResultsOf(r)
  BY <1>1, <1>2, ReceiptReports
<1> QED BY <1>5, <1>6, <1>7, <1>8

(* An acknowledgement is a report of no attempt, whatever source it names. *)
LEMMA AcknowledgementReportsNothing ==
    ASSUME TypeOK, NEW r \in Receipts, NEW k \in Keys, NEW source \in AckSources,
           acknowledge_delivery(r, source, k)
    PROVE  /\ \A s \in Receipts : ResultsOf(s)' = ResultsOf(s)
           /\ \A e \in OutboxEvents : OutboxResultsOf(e)' = OutboxResultsOf(e)
<1>1. source \in Sources
  BY DEF Sources
<1>2. IsNew(source, k) /\ Receive(source, k, Acknowledgement(r))
  BY DEF acknowledge_delivery
<1>3. ASSUME NEW s \in Receipts PROVE ResultsOf(s)' = ResultsOf(s)
  <2>1. Acknowledgement(r) \notin Retries(s)
    BY KindsAreDistinct DEF Retries
  <2> QED BY <1>1, <1>2, <2>1, ReceiptReports
<1>4. ASSUME NEW e \in OutboxEvents PROVE OutboxResultsOf(e)' = OutboxResultsOf(e)
  <2>1. Acknowledgement(r) \notin EventResults(e)
    BY KindsAreDistinct DEF EventResults
  <2> QED BY <1>1, <1>2, <2>1, OutboxReports
<1> QED BY <1>3, <1>4

-----------------------------------------------------------------------------
(* Acknowledgements.                                                       *)

LEMMA InboxGrows ==
    ASSUME TypeOK, [Next]_vars, NEW s \in Sources, NEW j \in Keys, inbox[s][j] # None
    PROVE  inbox'[s][j] = inbox[s][j]
<1>1. ASSUME NEW source, NEW k, NEW payload, IsNew(source, k), Receive(source, k, payload)
      PROVE  inbox'[s][j] = inbox[s][j]
  BY <1>1 DEF TypeOK, IsNew, Receive
<1>2. CASE CreateStep
  BY <1>2 DEF CreateStep, create_delivery_receipt
<1>3. CASE RetryStep
  BY <1>1, <1>3 DEF RetryStep, retry_delivery
<1>4. CASE AcknowledgeStep
  BY <1>1, <1>4 DEF AcknowledgeStep, acknowledge_delivery
<1>5. CASE ResultStep
  BY <1>1, <1>5 DEF ResultStep, record_outbox_delivery_result
<1>6. CASE RecoverStep
  <2>1. PICK e \in OutboxEvents, k \in Keys : recover_outbox_event(e, k)
    BY <1>6 DEF RecoverStep
  <2>2. IsNew("outbox_manual_recovery", k) /\ Receive("outbox_manual_recovery", k, Recovery(e))
    BY <2>1 DEF recover_outbox_event
  <2> QED BY <1>1, <2>2
<1>7. CASE UNCHANGED vars
  BY <1>7 DEF vars
<1> QED BY <1>2, <1>3, <1>4, <1>5, <1>6, <1>7, StepsOfNext

WasReported(r) == \E k \in Keys : inbox["delivery_retry"][k] = Result(r, TRUE)
WasAcknowledged(r) ==
    \E s \in AckSources, k \in Keys : inbox[s][k] = Acknowledgement(r)

(* AcknowledgedWasDelivered is not inductive: it does not say that a       *)
(* receipt that is about to be acknowledged was reported as delivered.     *)
DeliveredWasReported == \A r \in Receipts :
    /\ receipts[r].status \in {"delivered", "acknowledged"} => WasReported(r)
    /\ receipts[r].status = "acknowledged" => WasAcknowledged(r)

LEMMA ReportsStay ==
    ASSUME TypeOK, [Next]_vars, NEW r \in Receipts
    PROVE  /\ WasReported(r) => WasReported(r)'
           /\ WasAcknowledged(r) => WasAcknowledged(r)'
<1>1. Result(r, TRUE) # None /\ Acknowledgement(r) # None
  BY NoneIsNoReport
<1>2. "delivery_retry" \in Sources /\ AckSources \subseteq Sources
  BY DEF Sources
<1>3. WasReported(r) => WasReported(r)'
  BY <1>1, <1>2, InboxGrows DEF WasReported
<1>4. WasAcknowledged(r) => WasAcknowledged(r)'
  BY <1>1, <1>2, InboxGrows DEF WasAcknowledged
<1> QED BY <1>3, <1>4

LEMMA DeliveredStep == TypeOK /\ DeliveredWasReported /\ [Next]_vars => DeliveredWasReported'
<1> SUFFICES ASSUME TypeOK, DeliveredWasReported, [Next]_vars, NEW s \in Receipts
             PROVE  /\ receipts'[s].status \in {"delivered", "acknowledged"} => WasReported(s)'
                    /\ receipts'[s].status = "acknowledged" => WasAcknowledged(s)'
  BY DEF DeliveredWasReported
<1>stay. CASE receipts'[s] = receipts[s]
  BY <1>stay, ReportsStay DEF DeliveredWasReported
<1>1. CASE CreateStep
  <2>1. PICK r \in Receipts : create_delivery_receipt(r)
    BY <1>1 DEF CreateStep
  <2>2. receipts'[r].status = "pending" /\ (s # r => receipts'[s] = receipts[s])
    BY <2>1 DEF create_delivery_receipt, Row, TypeOK
  <2> QED BY <2>2, <1>stay
<1>2. CASE RetryStep
  <2>1. PICK r \in Receipts, k \in Keys, ok \in BOOLEAN : retry_delivery(r, k, ok)
    BY <1>2 DEF RetryStep
  <2>2. /\ receipts' = [receipts EXCEPT ![r] = AfterAttempt(receipts[r], ok)]
        /\ Receive("delivery_retry", k, Result(r, ok))
    BY <2>1 DEF retry_delivery
  <2>3. /\ receipts'[r].status = IF ok THEN "delivered" ELSE "retry_scheduled"
        /\ s # r => receipts'[s] = receipts[s]
    BY <2>2 DEF TypeOK, AfterAttempt, Row
  <2>4. inbox'["delivery_retry"][k] = Result(r, ok)
    BY <2>2 DEF TypeOK, Receive, Sources
  <2>5. ok => WasReported(r)'
    BY <2>4 DEF WasReported
  <2> QED BY <2>3, <2>5, <1>stay
<1>3. CASE AcknowledgeStep
  <2>1. PICK r \in Receipts, k \in Keys, source \in AckSources :
            acknowledge_delivery(r, source, k)
    BY <1>3 DEF AcknowledgeStep
  <2>2. /\ receipts[r].status \in {"delivered", "acknowledged"}
        /\ Receive(source, k, Acknowledgement(r))
        /\ s # r => receipts'[s] = receipts[s]
    BY <2>1 DEF acknowledge_delivery, CanAcknowledge, TypeOK
  <2>3. inbox'[source][k] = Acknowledgement(r)
    BY <2>2 DEF TypeOK, Receive, Sources
  <2>4. WasAcknowledged(r)'
    BY <2>3 DEF WasAcknowledged
  <2>5. WasReported(r)'
    BY <2>2, ReportsStay DEF DeliveredWasReported
  <2> QED BY <2>2, <2>4, <2>5, <1>stay
<1>4. CASE ResultStep
  BY <1>4, <1>stay DEF ResultStep, record_outbox_delivery_result
<1>5. CASE RecoverStep
  BY <1>5, <1>stay DEF RecoverStep, recover_outbox_event
<1>6. CASE UNCHANGED vars
  BY <1>6, <1>stay DEF vars
<1> QED BY <1>1, <1>2, <1>3, <1>4, <1>5, <1>6, StepsOfNext

(* An acknowledged receipt was once reported as delivered, whatever is     *)
(* repeated, reordered or sent under a key of another source               *)
(* (acknowledge_delivery, DELIVERY_NOT_DELIVERED).                         *)
THEOREM AcknowledgementsAreOfDeliveries == Spec => []AcknowledgedWasDelivered
<1>1. Init => DeliveredWasReported
  BY DEF Init, Row, DeliveredWasReported
<1>2. DeliveredWasReported => AcknowledgedWasDelivered
  BY DEF DeliveredWasReported, WasReported, WasAcknowledged, AcknowledgedWasDelivered
<1> QED BY <1>1, <1>2, DeliveredStep, TypeCorrect, PTL DEF Spec

-----------------------------------------------------------------------------
(* The refinement of DeliveryPromise.                                      *)

phases == [r \in Receipts |-> Phase(r)]
counts == [r \in Receipts |-> ResultsOf(r)]

LEMMA PhaseOf ==
    ASSUME NEW r \in Receipts
    PROVE  /\ receipts[r].status \in {"pending", "retry_scheduled"} => Phase(r) = "open"
           /\ receipts[r].status \notin {"pending", "retry_scheduled"}
                => Phase(r) = receipts[r].status
BY DEF Phase

(* A step that leaves the receipts and the reports of attempts alone.      *)
LEMMA Unseen ==
    ASSUME receipts' = receipts, \A r \in Receipts : ResultsOf(r)' = ResultsOf(r)
    PROVE  phases' = phases /\ counts' = counts
<1>1. \A r \in Receipts : Phase(r)' = Phase(r)
  BY DEF Phase
<1> QED BY <1>1 DEF phases, counts

(* A step that changes the phase of one receipt.                           *)
LEMMA PhaseChange ==
    ASSUME TypeOK, NEW r \in Receipts, NEW row, receipts' = [receipts EXCEPT ![r] = row],
           NEW phase, Phase(r)' = phase
    PROVE  phases' = [phases EXCEPT ![r] = phase]
<1>1. \A s \in Receipts : s # r => receipts'[s] = receipts[s]
  BY DEF TypeOK
<1>2. \A s \in Receipts : s # r => Phase(s)' = Phase(s)
  BY <1>1 DEF Phase
<1> QED BY <1>2 DEF phases

LEMMA PromiseStep ==
    TypeOK /\ [Next]_vars => DP!PromiseNext \/ (phases' = phases /\ counts' = counts)
<1> SUFFICES ASSUME TypeOK, [Next]_vars
             PROVE  DP!PromiseNext \/ (phases' = phases /\ counts' = counts)
  OBVIOUS
<1>typed. \A r \in Receipts : receipts[r].status \in ReceiptStatuses
  BY DEF TypeOK, Rows
<1>1. CASE CreateStep
  <2>1. PICK r \in Receipts : create_delivery_receipt(r)
    BY <1>1 DEF CreateStep
  <2>2. /\ receipts' = [receipts EXCEPT ![r] = Row("pending", 0, None)]
        /\ receipts[r].status = "absent" /\ inbox' = inbox
    BY <2>1 DEF create_delivery_receipt
  <2>3. receipts'[r].status = "pending"
    BY <2>2 DEF TypeOK, Row
  <2>4. Phase(r)' = "open" /\ Phase(r) = "absent"
    BY <2>2, <2>3 DEF Phase
  <2>5. phases' = [phases EXCEPT ![r] = "open"]
    BY <2>2, <2>4, PhaseChange
  <2>6. counts' = counts
    BY <2>2 DEF counts, ResultsOf
  <2>7. DP!Open(r)
    BY <2>4, <2>5, <2>6 DEF DP!Open, phases, counts
  <2> QED BY <2>7 DEF DP!PromiseNext
<1>2. CASE RetryStep
  <2>1. PICK r \in Receipts, k \in Keys, ok \in BOOLEAN : retry_delivery(r, k, ok)
    BY <1>2 DEF RetryStep
  <2> DEFINE result == IF ok THEN "delivered" ELSE "open"
  <2>2. /\ receipts' = [receipts EXCEPT ![r] = AfterAttempt(receipts[r], ok)]
        /\ receipts[r].status \notin {"absent", "acknowledged"}
        /\ IsNew("delivery_retry", k) /\ Receive("delivery_retry", k, Result(r, ok))
    BY <2>1 DEF retry_delivery, CanRetry
  <2>3. receipts'[r].status = IF ok THEN "delivered" ELSE "retry_scheduled"
    BY <2>2 DEF TypeOK, AfterAttempt, Row
  <2>4. Phase(r)' = result
    BY <2>3 DEF Phase
  <2>5. Phase(r) \in {"open", "delivered"}
    BY <2>2, <1>typed, PhaseOf DEF ReceiptStatuses
  <2>6. phases' = [phases EXCEPT ![r] = result]
    BY <2>2, <2>4, PhaseChange
  <2>7. /\ \A s \in Receipts : k \notin ResultsOf(s)
        /\ ResultsOf(r)' = ResultsOf(r) \cup {k}
        /\ \A s \in Receipts : s # r => ResultsOf(s)' = ResultsOf(s)
    BY <2>1, RetryReports
  <2>8. counts' = [counts EXCEPT ![r] = counts[r] \cup {k}]
    BY <2>7 DEF counts
  <2>9. result \in {"open", "delivered"}
    OBVIOUS
  <2> HIDE DEF result
  <2>10. DP!Count(r, k, result)
    BY <2>5, <2>6, <2>7, <2>8 DEF DP!Count, phases, counts
  <2> QED BY <2>9, <2>10 DEF DP!PromiseNext
<1>3. CASE AcknowledgeStep
  <2>1. PICK r \in Receipts, k \in Keys, source \in AckSources :
            acknowledge_delivery(r, source, k)
    BY <1>3 DEF AcknowledgeStep
  <2> DEFINE row == Row("acknowledged", receipts[r].attempts, receipts[r].delay)
  <2>2. /\ receipts' = [receipts EXCEPT ![r] = row]
        /\ receipts[r].status \in {"delivered", "acknowledged"}
        /\ IsNew(source, k) /\ Receive(source, k, Acknowledgement(r))
    BY <2>1 DEF acknowledge_delivery, CanAcknowledge
  <2>3. receipts'[r].status = "acknowledged"
    BY <2>2 DEF TypeOK, Row
  <2>4. Phase(r)' = "acknowledged" /\ Phase(r) = receipts[r].status
    BY <2>2, <2>3, PhaseOf DEF Phase
  <2>5. phases' = [phases EXCEPT ![r] = "acknowledged"]
    BY <2>2, <2>4, PhaseChange
  <2>7. \A s \in Receipts : ResultsOf(s)' = ResultsOf(s)
    BY <2>1, AcknowledgementReportsNothing
  <2>8. counts' = counts
    BY <2>7 DEF counts
  <2>9. CASE receipts[r].status = "acknowledged"
    BY <2>4, <2>5, <2>8, <2>9 DEF phases
  <2>10. CASE receipts[r].status = "delivered"
    <3>1. DP!Finish(r)
      BY <2>4, <2>5, <2>8, <2>10 DEF DP!Finish, phases, counts
    <3> QED BY <3>1 DEF DP!PromiseNext
  <2> QED BY <2>2, <2>9, <2>10
<1>4. CASE ResultStep
  <2>1. PICK e \in OutboxEvents, k \in Keys, ok \in BOOLEAN :
            record_outbox_delivery_result(e, k, ok)
    BY <1>4 DEF ResultStep
  <2>2. "outbox_delivery" \in Sources
    BY DEF Sources
  <2>3. /\ receipts' = receipts /\ IsNew("outbox_delivery", k)
        /\ Receive("outbox_delivery", k, OutboxResult(e, ok))
    BY <2>1 DEF record_outbox_delivery_result
  <2>4. \A r \in Receipts : ResultsOf(r)' = ResultsOf(r)
    BY <2>2, <2>3, ReceiptReports
  <2> QED BY <2>3, <2>4, Unseen
<1>5. CASE RecoverStep
  <2>1. PICK e \in OutboxEvents, k \in Keys : recover_outbox_event(e, k)
    BY <1>5 DEF RecoverStep
  <2>2. "outbox_manual_recovery" \in Sources
    BY DEF Sources
  <2>3. /\ receipts' = receipts /\ IsNew("outbox_manual_recovery", k)
        /\ Receive("outbox_manual_recovery", k, Recovery(e))
    BY <2>1 DEF recover_outbox_event
  <2>4. \A r \in Receipts : ResultsOf(r)' = ResultsOf(r)
    BY <2>2, <2>3, ReceiptReports
  <2> QED BY <2>3, <2>4, Unseen
<1>6. CASE UNCHANGED vars
  <2>1. \A r \in Receipts : ResultsOf(r)' = ResultsOf(r)
    BY <1>6 DEF vars, ResultsOf
  <2> QED BY <1>6, <2>1, Unseen DEF vars
<1> QED BY <1>1, <1>2, <1>3, <1>4, <1>5, <1>6, StepsOfNext

LEMMA PromiseHolds == Init => DP!PromiseInit
<1> SUFFICES ASSUME Init PROVE DP!PromiseInit
  OBVIOUS
<1>1. \A r \in Receipts : receipts[r].status = "absent"
  BY DEF Init, Row
<1>2. \A r \in Receipts : Phase(r) = "absent"
  BY <1>1, PhaseOf
<1>3. "delivery_retry" \in Sources
  BY DEF Sources
<1>4. \A k \in Keys : inbox["delivery_retry"][k] = None
  BY <1>3 DEF Init
<1>5. \A r \in Receipts : ResultsOf(r) = {}
  BY <1>4, NoneIsNoReport DEF ResultsOf
<1> QED BY <1>2, <1>5 DEF DP!PromiseInit

(* The receipts keep the promise of DeliveryPromise: every report counts   *)
(* once, only what was delivered is acknowledged, and an acknowledgement   *)
(* is final (create_delivery_receipt, retry_delivery,                      *)
(* acknowledge_delivery).                                                  *)
THEOREM ReceiptsKeepPromise == Spec => KeepsPromise
<1>1. TypeOK /\ [Next]_vars =>
          [DP!PromiseNext]_<<[r \in Receipts |-> Phase(r)], [r \in Receipts |-> ResultsOf(r)]>>
  BY PromiseStep DEF phases, counts
<1> QED BY <1>1, PromiseHolds, TypeCorrect, PTL DEF Spec, KeepsPromise, DP!Promise

-----------------------------------------------------------------------------
(* The counts of attempts.                                                 *)

(* AttemptsMatchInbox is not inductive: the sets it counts must be finite, *)
(* and what was not yet created or published must have counted nothing.    *)
ReceiptCounted(r) ==
    /\ receipts[r].attempts = Cardinality(ResultsOf(r)) /\ IsFiniteSet(ResultsOf(r))
    /\ receipts[r].status = "absent" => outbox[<<r, None>>].status = "absent"
    /\ \A k \in Keys : outbox[<<r, k>>].status # "absent" <=> k \in ResultsOf(r)
EventCounted(e) ==
    /\ outbox[e].attempts = Cardinality(OutboxResultsOf(e)) /\ IsFiniteSet(OutboxResultsOf(e))
    /\ outbox[e].status = "absent" => outbox[e].attempts = 0
Counted ==
    /\ \A r \in Receipts :
         ReceiptCounted(r) /\ (receipts[r].status = "absent" => receipts[r].attempts = 0)
    /\ \A e \in OutboxEvents : EventCounted(e)

LEMMA OneMore ==
    ASSUME NEW S, IsFiniteSet(S), NEW k, k \notin S
    PROVE  IsFiniteSet(S \cup {k}) /\ Cardinality(S \cup {k}) = Cardinality(S) + 1
BY FS_AddElement

(* Publishing an event for the first time counts no attempt.               *)
LEMMA PublishCounts ==
    ASSUME TypeOK, Counted, NEW e \in OutboxEvents, outbox[e].status = "absent",
           outbox' = Publish(e),
           \A f \in OutboxEvents : OutboxResultsOf(f)' = OutboxResultsOf(f)
    PROVE  \A f \in OutboxEvents : EventCounted(f)'
<1> SUFFICES ASSUME NEW f \in OutboxEvents
             PROVE  /\ outbox'[f].attempts = Cardinality(OutboxResultsOf(f)')
                    /\ IsFiniteSet(OutboxResultsOf(f)')
                    /\ outbox'[f].status = "absent" => outbox'[f].attempts = 0
  BY DEF EventCounted
<1>1. OutboxResultsOf(f)' = OutboxResultsOf(f) /\ EventCounted(f)
  BY DEF Counted
<1>2. CASE f = e
  <2>1. outbox'[f].attempts = 0 /\ outbox[f].attempts = 0
    BY <1>1, <1>2 DEF TypeOK, Publish, Row, EventCounted
  <2> QED BY <2>1, <1>1 DEF EventCounted
<1>3. CASE f # e
  <2>1. outbox'[f] = outbox[f]
    BY <1>3 DEF TypeOK, Publish
  <2> QED BY <2>1, <1>1 DEF EventCounted
<1> QED BY <1>2, <1>3

(* A step that changes neither the counts nor what was published.          *)
LEMMA CountsStay ==
    ASSUME Counted, NEW r \in Receipts, ResultsOf(r)' = ResultsOf(r),
           receipts'[r].attempts = receipts[r].attempts,
           receipts'[r].status = "absent" => receipts[r].status = "absent",
           \A e \in OutboxEvents :
               e[1] = r => (outbox'[e].status = "absent" <=> outbox[e].status = "absent")
    PROVE  ReceiptCounted(r)' /\ (receipts'[r].status = "absent" => receipts'[r].attempts = 0)
<1>1. ReceiptCounted(r) /\ (receipts[r].status = "absent" => receipts[r].attempts = 0)
  BY DEF Counted
<1>2. \A k \in Keys \cup {None} :
          outbox'[<<r, k>>].status = "absent" <=> outbox[<<r, k>>].status = "absent"
  BY DEF OutboxEvents
<1> QED BY <1>1, <1>2 DEF ReceiptCounted

LEMMA EventsStay ==
    ASSUME Counted, NEW e \in OutboxEvents, OutboxResultsOf(e)' = OutboxResultsOf(e),
           outbox'[e].attempts = outbox[e].attempts,
           outbox'[e].status = "absent" => outbox[e].status = "absent"
    PROVE  EventCounted(e)'
BY DEF Counted, EventCounted

LEMMA CountedStep == TypeOK /\ Counted /\ [Next]_vars => Counted'
<1> SUFFICES ASSUME TypeOK, Counted, [Next]_vars
             PROVE  /\ \A r \in Receipts :
                         /\ ReceiptCounted(r)'
                         /\ receipts'[r].status = "absent" => receipts'[r].attempts = 0
                    /\ \A e \in OutboxEvents : EventCounted(e)'
  BY DEF Counted
<1>1. CASE CreateStep
  <2>1. PICK r \in Receipts : create_delivery_receipt(r)
    BY <1>1 DEF CreateStep
  <2> DEFINE event == <<r, None>>
  <2>2. /\ receipts' = [receipts EXCEPT ![r] = Row("pending", 0, None)]
        /\ outbox' = Publish(event) /\ inbox' = inbox /\ receipts[r].status = "absent"
    BY <2>1 DEF create_delivery_receipt
  <2>3. /\ \A s \in Receipts : ResultsOf(s)' = ResultsOf(s)
        /\ \A e \in OutboxEvents : OutboxResultsOf(e)' = OutboxResultsOf(e)
    BY <2>2 DEF ResultsOf, OutboxResultsOf
  <2>4. ReceiptCounted(r) /\ receipts[r].attempts = 0
    BY <2>2 DEF Counted
  <2>5. event \in OutboxEvents /\ outbox[event].status = "absent"
    BY <2>2, <2>4 DEF ReceiptCounted, OutboxEvents
  <2>6. \A e \in OutboxEvents : EventCounted(e)'
    BY <2>2, <2>3, <2>5, PublishCounts
  <2>7. \A e \in OutboxEvents : e # event => outbox'[e] = outbox[e]
    BY <2>2 DEF TypeOK, Publish
  <2>8. /\ receipts'[r].attempts = 0 /\ receipts'[r].status = "pending"
        /\ \A s \in Receipts : s # r => receipts'[s] = receipts[s]
    BY <2>2 DEF TypeOK, Row
  <2>9. \A k \in Keys : outbox'[<<r, k>>] = outbox[<<r, k>>]
    BY <2>7, DeliveryAssumption DEF OutboxEvents
  <2>10. ReceiptCounted(r)'
    BY <2>3, <2>4, <2>8, <2>9 DEF ReceiptCounted
  <2>11. ASSUME NEW s \in Receipts, s # r
         PROVE  /\ ReceiptCounted(s)'
                /\ receipts'[s].status = "absent" => receipts'[s].attempts = 0
    <3>1. \A e \in OutboxEvents : e[1] = s => outbox'[e] = outbox[e]
      BY <2>7, <2>11
    <3> QED BY <2>3, <2>8, <2>11, <3>1, CountsStay
  <2> QED BY <2>6, <2>8, <2>10, <2>11
<1>2. CASE RetryStep
  <2>1. PICK r \in Receipts, k \in Keys, ok \in BOOLEAN : retry_delivery(r, k, ok)
    BY <1>2 DEF RetryStep
  <2> DEFINE event == <<r, k>>
  <2>2. /\ receipts' = [receipts EXCEPT ![r] = AfterAttempt(receipts[r], ok)]
        /\ outbox' = Publish(event)
    BY <2>1 DEF retry_delivery
  <2>3. /\ \A s \in Receipts : k \notin ResultsOf(s)
        /\ ResultsOf(r)' = ResultsOf(r) \cup {k}
        /\ \A s \in Receipts : s # r => ResultsOf(s)' = ResultsOf(s)
        /\ \A e \in OutboxEvents : OutboxResultsOf(e)' = OutboxResultsOf(e)
    BY <2>1, RetryReports
  <2>4. ReceiptCounted(r)
    BY DEF Counted
  <2>5. event \in OutboxEvents /\ outbox[event].status = "absent"
    BY <2>3, <2>4 DEF ReceiptCounted, OutboxEvents
  <2>6. \A e \in OutboxEvents : EventCounted(e)'
    BY <2>2, <2>3, <2>5, PublishCounts
  <2>7. /\ \A e \in OutboxEvents : e # event => outbox'[e] = outbox[e]
        /\ outbox'[event].status = "pending"
    BY <2>2, <2>5 DEF TypeOK, Publish, Row
  <2>8. /\ receipts'[r].attempts = receipts[r].attempts + 1
        /\ receipts'[r].status # "absent"
        /\ \A s \in Receipts : s # r => receipts'[s] = receipts[s]
    BY <2>2 DEF TypeOK, AfterAttempt, Row
  <2>9. \A j \in Keys : j # k => outbox'[<<r, j>>] = outbox[<<r, j>>]
    BY <2>7 DEF OutboxEvents
  <2>10. \A j \in Keys : outbox'[<<r, j>>].status # "absent" <=> j \in ResultsOf(r) \cup {k}
    BY <2>4, <2>7, <2>9 DEF ReceiptCounted
  <2>11. /\ IsFiniteSet(ResultsOf(r) \cup {k})
         /\ Cardinality(ResultsOf(r) \cup {k}) = receipts[r].attempts + 1
    BY <2>3, <2>4, OneMore DEF ReceiptCounted
  <2>12. ReceiptCounted(r)'
    BY <2>3, <2>8, <2>10, <2>11 DEF ReceiptCounted
  <2>13. ASSUME NEW s \in Receipts, s # r
         PROVE  /\ ReceiptCounted(s)'
                /\ receipts'[s].status = "absent" => receipts'[s].attempts = 0
    <3>1. \A e \in OutboxEvents : e[1] = s => outbox'[e] = outbox[e]
      BY <2>7, <2>13
    <3> QED BY <2>3, <2>8, <2>13, <3>1, CountsStay
  <2> QED BY <2>6, <2>8, <2>12, <2>13
<1>3. CASE AcknowledgeStep
  <2>1. PICK r \in Receipts, k \in Keys, source \in AckSources :
            acknowledge_delivery(r, source, k)
    BY <1>3 DEF AcknowledgeStep
  <2>2. /\ receipts' = [receipts EXCEPT ![r] =
               Row("acknowledged", receipts[r].attempts, receipts[r].delay)]
        /\ outbox' = outbox
    BY <2>1 DEF acknowledge_delivery
  <2>3. /\ \A s \in Receipts : ResultsOf(s)' = ResultsOf(s)
        /\ \A e \in OutboxEvents : OutboxResultsOf(e)' = OutboxResultsOf(e)
    BY <2>1, AcknowledgementReportsNothing
  <2>4. \A s \in Receipts :
            /\ receipts'[s].attempts = receipts[s].attempts
            /\ receipts'[s].status = "absent" => receipts[s].status = "absent"
    BY <2>2 DEF TypeOK, Row
  <2> QED BY <2>2, <2>3, <2>4, CountsStay, EventsStay
<1>4. CASE ResultStep
  <2>1. PICK e \in OutboxEvents, k \in Keys, ok \in BOOLEAN :
            record_outbox_delivery_result(e, k, ok)
    BY <1>4 DEF ResultStep
  <2>2. /\ outbox' = [outbox EXCEPT ![e] = AfterAttempt(outbox[e], ok)]
        /\ receipts' = receipts /\ outbox[e].status # "absent"
    BY <2>1 DEF record_outbox_delivery_result
  <2>3. /\ k \notin OutboxResultsOf(e)
        /\ OutboxResultsOf(e)' = OutboxResultsOf(e) \cup {k}
        /\ \A f \in OutboxEvents : f # e => OutboxResultsOf(f)' = OutboxResultsOf(f)
        /\ \A r \in Receipts : ResultsOf(r)' = ResultsOf(r)
    BY <2>1, EventResultReports
  <2>4. /\ outbox'[e].attempts = outbox[e].attempts + 1
        /\ outbox'[e].status # "absent"
        /\ \A f \in OutboxEvents : f # e => outbox'[f] = outbox[f]
    BY <2>2 DEF TypeOK, AfterAttempt, Row
  <2>5. EventCounted(e)
    BY DEF Counted
  <2>6. /\ IsFiniteSet(OutboxResultsOf(e) \cup {k})
        /\ Cardinality(OutboxResultsOf(e) \cup {k}) = outbox[e].attempts + 1
    BY <2>3, <2>5, OneMore DEF EventCounted
  <2>7. EventCounted(e)'
    BY <2>3, <2>4, <2>6 DEF EventCounted
  <2>8. \A f \in OutboxEvents : f # e => EventCounted(f)'
    BY <2>3, <2>4, EventsStay
  <2>9. \A f \in OutboxEvents : outbox'[f].status = "absent" <=> outbox[f].status = "absent"
    BY <2>2, <2>4
  <2> QED BY <2>2, <2>3, <2>7, <2>8, <2>9, CountsStay
<1>5. CASE RecoverStep
  <2>1. PICK e \in OutboxEvents, k \in Keys : recover_outbox_event(e, k)
    BY <1>5 DEF RecoverStep
  <2>2. /\ outbox' = [outbox EXCEPT ![e] = Recovered(outbox[e])]
        /\ receipts' = receipts /\ outbox[e].status # "absent"
        /\ IsNew("outbox_manual_recovery", k)
        /\ Receive("outbox_manual_recovery", k, Recovery(e))
    BY <2>1 DEF recover_outbox_event
  <2>3. "outbox_manual_recovery" \in Sources
    BY DEF Sources
  <2>4. \A r \in Receipts : ResultsOf(r)' = ResultsOf(r)
    BY <2>2, <2>3, ReceiptReports
  <2>5. \A f \in OutboxEvents : OutboxResultsOf(f)' = OutboxResultsOf(f)
    BY <2>2, <2>3, OutboxReports
  <2>6. \A f \in OutboxEvents :
            /\ outbox'[f].attempts = outbox[f].attempts
            /\ outbox'[f].status = "absent" <=> outbox[f].status = "absent"
    BY <2>2 DEF TypeOK, Recovered, Row
  <2> QED BY <2>2, <2>4, <2>5, <2>6, CountsStay, EventsStay
<1>6. CASE UNCHANGED vars
  <2>1. /\ \A r \in Receipts : ResultsOf(r)' = ResultsOf(r)
        /\ \A e \in OutboxEvents : OutboxResultsOf(e)' = OutboxResultsOf(e)
    BY <1>6 DEF vars, ResultsOf, OutboxResultsOf
  <2> QED BY <1>6, <2>1, CountsStay, EventsStay DEF vars
<1> QED BY <1>1, <1>2, <1>3, <1>4, <1>5, <1>6, StepsOfNext

LEMMA CountedInit == Init => Counted
<1> SUFFICES ASSUME Init PROVE Counted
  OBVIOUS
<1>1. \A r \in Receipts : receipts[r].status = "absent" /\ receipts[r].attempts = 0
  BY DEF Init, Row
<1>2. \A e \in OutboxEvents : outbox[e].status = "absent" /\ outbox[e].attempts = 0
  BY DEF Init, Row
<1>3. \A s \in Sources, k \in Keys : inbox[s][k] = None
  BY DEF Init
<1>4. \A r \in Receipts : ResultsOf(r) = {}
  BY <1>3, NoneIsNoReport DEF ResultsOf, Sources
<1>5. \A e \in OutboxEvents : OutboxResultsOf(e) = {}
  BY <1>3, NoneIsNoReport DEF OutboxResultsOf, Sources
<1>6. IsFiniteSet({}) /\ Cardinality({}) = 0
  BY FS_EmptySet
<1>7. \A r \in Receipts, k \in Keys \cup {None} : <<r, k>> \in OutboxEvents
  BY DEF OutboxEvents
<1>8. \A r \in Receipts : ReceiptCounted(r)
  BY <1>1, <1>2, <1>4, <1>6, <1>7 DEF ReceiptCounted
<1>9. \A e \in OutboxEvents : EventCounted(e)
  BY <1>2, <1>5, <1>6 DEF EventCounted
<1> QED BY <1>1, <1>8, <1>9 DEF Counted

(* Every attempt counted is one report in the inbox, and every report of a *)
(* receipt published one event, however reports are repeated or their keys *)
(* shared (retry_delivery, record_outbox_delivery_result, _load_inbox).    *)
THEOREM AttemptsCountReports == Spec => []AttemptsMatchInbox
<1>1. Counted => AttemptsMatchInbox
  <2> SUFFICES ASSUME Counted
               PROVE  /\ \A r \in Receipts :
                           /\ receipts[r].attempts = Cardinality(ResultsOf(r))
                           /\ {k \in Keys : outbox[<<r, k>>].status # "absent"} = ResultsOf(r)
                      /\ \A e \in OutboxEvents :
                           outbox[e].attempts = Cardinality(OutboxResultsOf(e))
    BY DEF AttemptsMatchInbox
  <2>1. \A r \in Receipts : ResultsOf(r) \subseteq Keys
    BY DEF ResultsOf
  <2>2. \A r \in Receipts :
            {k \in Keys : outbox[<<r, k>>].status # "absent"} = ResultsOf(r)
    BY <2>1 DEF Counted, ReceiptCounted
  <2> QED BY <2>2 DEF Counted, ReceiptCounted, EventCounted
<1> QED BY <1>1, CountedInit, CountedStep, TypeCorrect, PTL DEF Spec
=============================================================================
