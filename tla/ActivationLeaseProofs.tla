------------------------ MODULE ActivationLeaseProofs ------------------------
(***************************************************************************)
(* Theorems about ActivationLease, for every set of leases and processes,  *)
(* every quota, and any number of unguarded facts and restores.            *)
(***************************************************************************)
EXTENDS ActivationLease, FiniteSetTheorems, TLAPS

-----------------------------------------------------------------------------
(* What a step does to the database.  The row of one lease is inserted,    *)
(* claimed, attested, moved to another status or charged with a command;   *)
(* or a fact is written without a guard; or all rows are restored.         *)

Inserted(l) ==
    /\ status[l] = "absent" /\ FreshBaseline /\ issuing[l] = "written"
    /\ status' = [status EXCEPT ![l] = "prepared"]
    /\ usage' = [usage EXCEPT ![l] = 1]
    /\ log' = [log EXCEPT ![l] = <<"lease_issued">>]
    /\ expected' = [expected EXCEPT ![l] = waiting[l]]
    /\ UNCHANGED <<version, owner, spent, facts, plain>>

ClaimedBy(p, l) ==
    /\ CanClaim(p, l)
    /\ status' = [status EXCEPT ![l] = "claimed"]
    /\ version' = [version EXCEPT ![l] = 1]
    /\ usage' = [usage EXCEPT ![l] = 2]
    /\ log' = [log EXCEPT ![l] = Append(log[l], "process_claimed")]
    /\ owner' = [owner EXCEPT ![l] = p]
    /\ UNCHANGED <<expected, spent, facts, plain>>

AttestedBy(p, l) ==
    /\ status[l] = "claimed" /\ version[l] = 1 /\ owner[l] = p
    /\ status' = [status EXCEPT ![l] = "active"]
    /\ version' = [version EXCEPT ![l] = 2]
    /\ usage' = [usage EXCEPT ![l] = 3]
    /\ log' = [log EXCEPT ![l] = Append(log[l], "listener_attested")]
    /\ UNCHANGED <<owner, expected, spent, facts, plain>>

(* The moves that end what a lease may do.                                 *)
Endings == {<<"active", "expired", "lease_expired">>,
            <<"active", "write_frozen", "lease_write_frozen">>,
            <<"write_frozen", "closed", "lease_closed">>,
            <<"prepared", "revoked", "lease_revoked">>,
            <<"claimed", "revoked", "lease_revoked">>,
            <<"active", "revoked", "lease_revoked">>}

Ended(l, to, event) ==
    /\ <<status[l], to, event>> \in Endings
    /\ Move(l, to, event)
    /\ UNCHANGED <<owner, expected, spent, facts, plain>>

Committed(p, l, event) ==
    /\ MayCommit(p, l)
    /\ Move(l, "active", event)
    /\ spent' = [spent EXCEPT ![l] = spent[l] + 1]
    /\ facts' = [facts EXCEPT ![l] = facts[l] + 1]
    /\ UNCHANGED <<plain, owner, expected>>

WrittenUnguarded ==
    /\ NoLeaseEver
    /\ plain' = plain + 1
    /\ UNCHANGED <<status, version, usage, spent, owner, expected, log, facts>>

LeaseWrites ==
    \/ \E l \in Leases : Inserted(l)
    \/ \E p \in Processes, l \in Leases : ClaimedBy(p, l) \/ AttestedBy(p, l)
    \/ \E l \in Leases : \E move \in Endings : Ended(l, move[2], move[3])
    \/ \E p \in Processes, l \in Leases, event \in CommandEvents : Committed(p, l, event)

DatabaseSteps ==
    \/ UNCHANGED <<database, maintenance>>
    \/ (LeaseWrites \/ WrittenUnguarded) /\ UNCHANGED maintenance
    \/ Backup
    \/ Restore

LEMMA EndingsAreEnumerated ==
    ASSUME NEW l \in Leases, NEW to, NEW event, Ended(l, to, event)
    PROVE  \E move \in Endings : Ended(l, move[2], move[3])
<1>1. <<status[l], to, event>> \in Endings
  BY DEF Ended
<1>2. <<status[l], to, event>>[2] = to /\ <<status[l], to, event>>[3] = event
  OBVIOUS
<1> QED BY <1>1, <1>2

LEMMA StepsOfTheDatabase ==
    ASSUME [Next]_vars, \A p \in Processes : server[p] # "idle" => work[p] \in Leases
    PROVE  DatabaseSteps
<1> USE DEF database, maintenance
<1>1. ASSUME NEW l \in Leases, Issuance(l) PROVE DatabaseSteps
  <2>1. CASE InsertLease(l)
    BY <2>1 DEF InsertLease, DatabaseSteps, LeaseWrites, Inserted, NoFacts
  <2> QED
    BY <1>1, <2>1 DEF Issuance, ValidatePreflight, IssuerCrash, WriteEnvelope, DatabaseSteps
<1>2. ASSUME NEW l \in Leases, Freeze(l) \/ Close(l) \/ Revoke(l) PROVE DatabaseSteps
  <2>1. \E to, event : Ended(l, to, event)
    BY <1>2 DEF Freeze, Close, Revoke, Operate, Ended, Endings, NoFacts, NoClaim
  <2>2. UNCHANGED maintenance
    BY <1>2 DEF Freeze, Close, Revoke, Operate
  <2> QED BY <2>1, <2>2, EndingsAreEnumerated DEF DatabaseSteps, LeaseWrites
<1>3. ASSUME NEW l \in Leases, TimePasses(l) PROVE DatabaseSteps
  BY <1>3 DEF TimePasses, DatabaseSteps
<1>4. ASSUME NEW p \in Processes, ServerStep(p) PROVE DatabaseSteps
  <2>1. CASE ClaimLease(p)
    BY <2>1 DEF ClaimLease, DatabaseSteps, LeaseWrites, ClaimedBy, NoFacts
  <2>2. CASE AttestListener(p)
    BY <2>2 DEF AttestListener, DatabaseSteps, LeaseWrites, AttestedBy, NoFacts, NoClaim
  <2>3. CASE RevokeAfterFailure(p)
    <3>1. work[p] \in Leases
      BY <2>3 DEF RevokeAfterFailure
    <3>2. UNCHANGED maintenance
      BY <2>3 DEF RevokeAfterFailure
    <3>3. CASE status[work[p]] \in {"prepared", "claimed", "active"} /\ HasRoom(work[p])
      <4>1. Ended(work[p], "revoked", "lease_revoked")
        BY <2>3, <3>3 DEF RevokeAfterFailure, Ended, Endings, NoFacts, NoClaim
      <4> QED BY <3>1, <3>2, <4>1, EndingsAreEnumerated DEF DatabaseSteps, LeaseWrites
    <3>4. CASE ~(status[work[p]] \in {"prepared", "claimed", "active"} /\ HasRoom(work[p]))
      BY <2>3, <3>4 DEF RevokeAfterFailure, DatabaseSteps, NoFacts, NoClaim
    <3> QED BY <3>3, <3>4
  <2>4. CASE StopServer(p)
    <3>1. work[p] \in Leases
      BY <2>4 DEF StopServer
    <3>2. UNCHANGED maintenance
      BY <2>4 DEF StopServer
    <3>3. CASE status[work[p]] = "active" /\ HasRoom(work[p])
      <4>1. Ended(work[p], "write_frozen", "lease_write_frozen")
        BY <2>4, <3>3 DEF StopServer, Ended, Endings, NoFacts, NoClaim
      <4> QED BY <3>1, <3>2, <4>1, EndingsAreEnumerated DEF DatabaseSteps, LeaseWrites
    <3>4. CASE ~(status[work[p]] = "active" /\ HasRoom(work[p]))
      BY <2>4, <3>4 DEF StopServer, DatabaseSteps, NoFacts, NoClaim
    <3> QED BY <3>3, <3>4
  <2> QED
    BY <1>4, <2>1, <2>2, <2>3, <2>4
       DEF ServerStep, LinkEnvelope, UnlinkEnvelope, BindListener, CrashServer, CheckClaimable,
           DatabaseSteps
<1>5. ASSUME NEW p \in Processes, Request(p) PROVE DatabaseSteps
  <2>1. PICK l \in Leases : \/ ExpireLease(p, l) \/ FreezeOnRequest(p, l)
                            \/ \E event \in CommandEvents : CommitCommand(p, l, event)
    BY <1>5 DEF Request
  <2>2. CASE ExpireLease(p, l) \/ FreezeOnRequest(p, l)
    <3>1. \E to, event : Ended(l, to, event)
      BY <2>2 DEF ExpireLease, FreezeOnRequest, Ended, Endings, NoFacts, NoClaim
    <3>2. UNCHANGED maintenance
      BY <2>2 DEF ExpireLease, FreezeOnRequest
    <3> QED BY <3>1, <3>2, EndingsAreEnumerated DEF DatabaseSteps, LeaseWrites
  <2>3. ASSUME NEW event \in CommandEvents, CommitCommand(p, l, event) PROVE DatabaseSteps
    BY <2>3 DEF CommitCommand, DatabaseSteps, LeaseWrites, Committed, NoClaim
  <2> QED BY <2>1, <2>2, <2>3
<1>6. CASE UnguardedWrite
  BY <1>6 DEF UnguardedWrite, MayWriteUnguarded, WrittenUnguarded, DatabaseSteps, NoClaim
<1>7. CASE UNCHANGED vars
  BY <1>7 DEF vars, DatabaseSteps
<1> QED BY <1>1, <1>2, <1>3, <1>4, <1>5, <1>6, <1>7 DEF Next, DatabaseSteps

-----------------------------------------------------------------------------
(* Types.                                                                  *)

TypedRows ==
    /\ status \in [Leases -> LiveStatuses \cup TerminalStatuses \cup {"absent"}]
    /\ version \in [Leases -> Nat] /\ usage \in [Leases -> Nat] /\ spent \in [Leases -> Nat]
    /\ owner \in [Leases -> Processes \cup {None}]
    /\ expected \in [Leases -> Envelopes \cup {None}]
    /\ log \in [Leases -> Seq(LeaseEventTypes)]
    /\ facts \in [Leases -> Nat] /\ plain \in Nat

LEMMA SnapshotsAreOfTypedRows == Snapshot \in Snapshots <=> TypedRows
BY DEF Snapshot, Snapshots, TypedRows

LEMMA EventsAreTyped ==
    ASSUME NEW events \in Seq(LeaseEventTypes), NEW event \in LeaseEventTypes
    PROVE  Append(events, event) \in Seq(LeaseEventTypes)
OBVIOUS

LEMMA MoveIsTyped ==
    ASSUME TypedRows, NEW l \in Leases, NEW to \in LiveStatuses \cup TerminalStatuses,
           NEW event \in LeaseEventTypes, Move(l, to, event)
    PROVE  /\ status' \in [Leases -> LiveStatuses \cup TerminalStatuses \cup {"absent"}]
           /\ version' \in [Leases -> Nat] /\ usage' \in [Leases -> Nat]
           /\ log' \in [Leases -> Seq(LeaseEventTypes)]
BY EventsAreTyped DEF TypedRows, Move

LEMMA DatabaseIsTyped ==
    ASSUME TypeOK, DatabaseSteps
    PROVE  TypedRows'
<1>1. TypedRows
  BY SnapshotsAreOfTypedRows DEF TypeOK
<1>2. CASE UNCHANGED <<database, maintenance>>
  BY <1>1, <1>2 DEF TypedRows, database
<1>3. ASSUME NEW l \in Leases, Inserted(l) PROVE TypedRows'
  <2>1. <<"lease_issued">> \in Seq(LeaseEventTypes)
    BY DEF LeaseEventTypes
  <2>2. waiting[l] \in Envelopes \cup {None}
    BY DEF TypeOK
  <2> QED BY <1>1, <1>3, <2>1, <2>2 DEF TypedRows, Inserted, LiveStatuses
<1>4. ASSUME NEW p \in Processes, NEW l \in Leases, ClaimedBy(p, l) PROVE TypedRows'
  <2>1. "process_claimed" \in LeaseEventTypes
    BY DEF LeaseEventTypes
  <2>2. Append(log[l], "process_claimed") \in Seq(LeaseEventTypes)
    BY <1>1, <2>1, EventsAreTyped DEF TypedRows
  <2> QED BY <1>1, <1>4, <2>2 DEF TypedRows, ClaimedBy, LiveStatuses
<1>5. ASSUME NEW p \in Processes, NEW l \in Leases, AttestedBy(p, l) PROVE TypedRows'
  <2>1. "listener_attested" \in LeaseEventTypes
    BY DEF LeaseEventTypes
  <2>2. Append(log[l], "listener_attested") \in Seq(LeaseEventTypes)
    BY <1>1, <2>1, EventsAreTyped DEF TypedRows
  <2> QED BY <1>1, <1>5, <2>2 DEF TypedRows, AttestedBy, LiveStatuses
<1>6. ASSUME NEW l \in Leases, NEW move \in Endings, Ended(l, move[2], move[3])
      PROVE  TypedRows'
  <2>1. /\ move[2] \in LiveStatuses \cup TerminalStatuses
        /\ move[3] \in LeaseEventTypes
    BY DEF Endings, LiveStatuses, TerminalStatuses, LeaseEventTypes
  <2>2. Move(l, move[2], move[3])
    BY <1>6 DEF Ended
  <2> QED BY <1>1, <1>6, <2>1, <2>2, MoveIsTyped DEF TypedRows, Ended
<1>7. ASSUME NEW p \in Processes, NEW l \in Leases, NEW event \in CommandEvents,
             Committed(p, l, event)
      PROVE  TypedRows'
  <2>1. "active" \in LiveStatuses \cup TerminalStatuses /\ event \in LeaseEventTypes
    BY DEF LiveStatuses, LeaseEventTypes
  <2>2. Move(l, "active", event)
    BY <1>7 DEF Committed
  <2>3. /\ status' \in [Leases -> LiveStatuses \cup TerminalStatuses \cup {"absent"}]
        /\ version' \in [Leases -> Nat] /\ usage' \in [Leases -> Nat]
        /\ log' \in [Leases -> Seq(LeaseEventTypes)]
    BY <1>1, <2>1, <2>2, MoveIsTyped
  <2>4. spent' \in [Leases -> Nat] /\ facts' \in [Leases -> Nat]
    BY <1>1, <1>7 DEF TypedRows, Committed
  <2> QED BY <1>1, <1>7, <2>3, <2>4 DEF TypedRows, Committed
<1>8. CASE WrittenUnguarded
  BY <1>1, <1>8 DEF TypedRows, WrittenUnguarded
<1>9. CASE Backup
  BY <1>1, <1>9 DEF TypedRows, Backup, database
<1>10. CASE Restore
  BY <1>10 DEF TypeOK, Restore, TypedRows, Snapshots
<1> QED BY <1>2, <1>3, <1>4, <1>5, <1>6, <1>7, <1>8, <1>9, <1>10 DEF DatabaseSteps, LeaseWrites

LEMMA MaintenanceIsTyped ==
    ASSUME TypeOK, DatabaseSteps
    PROVE  backup' \in Snapshots \cup {None} /\ restores' \in Nat
BY DEF TypeOK, DatabaseSteps, maintenance, Backup, Restore

LEMMA TypeStep == TypeOK /\ [Next]_vars => TypeOK'
<1> SUFFICES ASSUME TypeOK, [Next]_vars
             PROVE  TypeOK'
  OBVIOUS
<1>1. DatabaseSteps
  BY StepsOfTheDatabase DEF TypeOK
<1>2. Snapshot' \in Snapshots /\ backup' \in Snapshots \cup {None} /\ restores' \in Nat
  <2>1. TypedRows'
    BY <1>1, DatabaseIsTyped
  <2>2. (Snapshot \in Snapshots)' <=> TypedRows'
    BY DEF Snapshot, Snapshots, TypedRows
  <2> QED BY <1>1, <2>1, <2>2, MaintenanceIsTyped
<1> DEFINE Others ==
      /\ waiting \in [Leases -> Envelopes \cup {None}]
      /\ claimed \in [Leases -> Envelopes \cup {None}]
      /\ issuing \in [Leases -> {"no", "validated", "written"}]
      /\ preflight \in [Leases -> Nat]
      /\ clock \in [Leases -> {"fresh", "stale", "over"}]
      /\ server \in [Processes -> Phases]
      /\ work \in [Processes -> Leases \cup {None}]
      /\ consumers \in [Leases -> SUBSET Processes]
      /\ \A p \in Processes : server[p] # "idle" => work[p] \in Leases
<1> USE DEF files, issuance, processes
<1>3. Others
  BY DEF TypeOK
<1>4. ASSUME NEW l \in Leases, ValidatePreflight(l) \/ InsertLease(l) \/ IssuerCrash(l)
      PROVE  Others'
  BY <1>3, <1>4 DEF TypeOK, ValidatePreflight, InsertLease, IssuerCrash
<1>5. ASSUME NEW l \in Leases, NEW p \in Processes, WriteEnvelope(l, p)
      PROVE  Others'
  <2>1. [process |-> p, generation |-> preflight[l]] \in Envelopes
    BY DEF TypeOK, Envelopes
  <2> QED BY <1>3, <1>5, <2>1 DEF WriteEnvelope
<1>6. ASSUME NEW l \in Leases, Freeze(l) \/ Close(l) \/ Revoke(l) \/ TimePasses(l)
      PROVE  Others'
  BY <1>3, <1>6 DEF Freeze, Close, Revoke, Operate, TimePasses
<1>7. ASSUME NEW p \in Processes, ServerStep(p)
      PROVE  Others'
  <2>1. ASSUME NEW l \in Leases, CheckClaimable(p, l) PROVE Others'
    BY <1>3, <2>1 DEF CheckClaimable, Goto, Phases
  <2>2. CASE LinkEnvelope(p)
    BY <1>3, <2>2 DEF LinkEnvelope, Goto, Phases
  <2>3. CASE UnlinkEnvelope(p)
    BY <1>3, <2>3 DEF UnlinkEnvelope, Goto, Phases
  <2>4. CASE ClaimLease(p)
    BY <1>3, <2>4 DEF ClaimLease, Goto, Phases
  <2>5. CASE BindListener(p)
    BY <1>3, <2>5 DEF BindListener, Goto, Phases
  <2>6. CASE AttestListener(p)
    <3>1. PICK phase \in Phases : Goto(p, phase)
      BY <2>6 DEF AttestListener, Phases
    <3>2. server[p] # "idle" /\ UNCHANGED <<waiting, claimed, issuing, preflight, clock, work, consumers>>
      BY <2>6 DEF AttestListener
    <3> QED BY <1>3, <3>1, <3>2 DEF Goto
  <2>7. CASE RevokeAfterFailure(p)
    BY <1>3, <2>7 DEF RevokeAfterFailure, Goto, Phases
  <2>8. CASE StopServer(p)
    BY <1>3, <2>8 DEF StopServer, Goto, Phases
  <2>9. CASE CrashServer(p)
    BY <1>3, <2>9 DEF CrashServer, Goto, Phases
  <2> QED BY <1>7, <2>1, <2>2, <2>3, <2>4, <2>5, <2>6, <2>7, <2>8, <2>9 DEF ServerStep
<1>8. ASSUME NEW p \in Processes, Request(p)
      PROVE  Others'
  BY <1>3, <1>8 DEF Request, ExpireLease, FreezeOnRequest, CommitCommand
<1>9. ASSUME UnguardedWrite \/ Backup \/ Restore \/ UNCHANGED vars
      PROVE  Others'
  BY <1>3, <1>9 DEF UnguardedWrite, Backup, Restore, vars
<1>10. Others'
  BY <1>4, <1>5, <1>6, <1>7, <1>8, <1>9 DEF Next, Issuance
<1> QED BY <1>2, <1>10 DEF TypeOK

LEMMA TypeInit == Init => TypeOK
<1> SUFFICES ASSUME Init PROVE TypeOK
  OBVIOUS
<1>1. TypedRows
  <2>1. <<>> \in Seq(LeaseEventTypes)
    OBVIOUS
  <2> QED BY <2>1 DEF Init, TypedRows
<1> QED BY <1>1, SnapshotsAreOfTypedRows DEF Init, TypeOK, Phases

(* Every row, event, envelope, backup and server keeps its type, and every *)
(* server that has started works for a lease (activation.py, repository.py *)
(* and the server start and stop of mcp_server.py).                        *)
THEOREM TypeCorrect == Spec => []TypeOK
BY TypeInit, TypeStep, PTL DEF Spec
-----------------------------------------------------------------------------
(* The rows and their events.                                              *)

Told(row, changes, events, used) ==
    /\ used = Len(events)
    /\ IF events = <<>>
         THEN row = "absent" /\ changes = 0
         ELSE /\ events[1] = "lease_issued"
              /\ \A i \in 1 .. Len(events) - 1 : events[i + 1] \in EventsAfter[events[i]]
              /\ row = StatusAfter[events[Len(events)]]
              /\ changes = Len(events) - 1

RowsAreTold == \A l \in Leases : Told(status[l], version[l], log[l], usage[l])
BackupIsTold == backup # None => \A l \in Leases :
    Told(backup.status[l], backup.version[l], backup.log[l], backup.usage[l])

LEMMA RowsFollowWhenTold == RowFollowsItsEvents <=> RowsAreTold
BY DEF RowFollowsItsEvents, RowsAreTold, Told

(* The status of a row that has events tells which events may follow.      *)
LEMMA WhatMayFollow ==
    ASSUME NEW last \in LeaseEventTypes
    PROVE  /\ StatusAfter[last] # "absent"
           /\ StatusAfter[last] = "prepared" =>
                /\ last = "lease_issued"
                /\ EventsAfter[last] = {"process_claimed", "lease_revoked"}
           /\ StatusAfter[last] = "claimed" =>
                /\ last = "process_claimed"
                /\ EventsAfter[last] = {"listener_attested", "lease_revoked"}
           /\ StatusAfter[last] = "active" =>
                EventsAfter[last] = CommandEvents \cup
                    {"lease_write_frozen", "lease_expired", "lease_revoked"}
           /\ StatusAfter[last] = "write_frozen" => EventsAfter[last] = {"lease_closed"}
           /\ "lease_issued" \notin EventsAfter[last]
BY DEF LeaseEventTypes, CommandEvents, StatusAfter, EventsAfter

LEMMA WhatEventsLeadTo ==
    /\ StatusAfter["lease_issued"] = "prepared"
    /\ StatusAfter["process_claimed"] = "claimed"
    /\ StatusAfter["listener_attested"] = "active"
    /\ \A event \in CommandEvents : StatusAfter[event] = "active"
    /\ StatusAfter["lease_write_frozen"] = "write_frozen"
    /\ StatusAfter["lease_expired"] = "expired"
    /\ StatusAfter["lease_closed"] = "closed"
    /\ StatusAfter["lease_revoked"] = "revoked"
BY DEF LeaseEventTypes, CommandEvents, StatusAfter

LEMMA AppendIsTold ==
    ASSUME NEW row, NEW changes \in Nat, NEW used \in Nat,
           NEW events \in Seq(LeaseEventTypes), Told(row, changes, events, used),
           events # <<>>, NEW event \in EventsAfter[events[Len(events)]]
    PROVE  Told(StatusAfter[event], changes + 1, Append(events, event), used + 1)
<1>1. Len(events) \in Nat \ {0}
  OBVIOUS
<1> DEFINE longer == Append(events, event)
<1>2. /\ Len(longer) = Len(events) + 1 /\ longer # <<>>
      /\ longer[Len(events) + 1] = event
      /\ \A i \in 1 .. Len(events) : longer[i] = events[i]
  OBVIOUS
<1>3. ASSUME NEW i \in 1 .. Len(longer) - 1
      PROVE  longer[i + 1] \in EventsAfter[longer[i]]
  <2>1. CASE i = Len(events)
    BY <1>1, <1>2, <2>1
  <2>2. CASE i # Len(events)
    <3>1. i \in 1 .. Len(events) - 1 /\ i + 1 \in 1 .. Len(events)
      BY <1>1, <1>2, <2>2
    <3> QED BY <1>2, <3>1 DEF Told
  <2> QED BY <2>1, <2>2
<1> QED BY <1>1, <1>2, <1>3 DEF Told

(* A row is told by its events, so its status names its last event; a      *)
(* prepared row has one event only.                                        *)
LEMMA LastEvent ==
    ASSUME TypedRows, RowsAreTold, NEW l \in Leases, status[l] # "absent"
    PROVE  /\ log[l] \in Seq(LeaseEventTypes) /\ log[l] # <<>>
           /\ log[l][Len(log[l])] \in LeaseEventTypes
           /\ status[l] = StatusAfter[log[l][Len(log[l])]]
           /\ status[l] = "prepared" => Len(log[l]) = 1 /\ version[l] = 0 /\ usage[l] = 1
<1> DEFINE n == Len(log[l])
<1>1. log[l] \in Seq(LeaseEventTypes) /\ log[l] # <<>>
  BY DEF TypedRows, RowsAreTold, Told
<1>2. n \in Nat /\ n > 0 /\ \A i \in 1 .. n : log[l][i] \in LeaseEventTypes
  BY <1>1
<1>3. Told(status[l], version[l], log[l], usage[l])
  BY DEF RowsAreTold
<1>4. log[l][n] \in LeaseEventTypes /\ status[l] = StatusAfter[log[l][n]]
  BY <1>1, <1>2, <1>3 DEF Told
<1>5. ASSUME status[l] = "prepared" PROVE n = 1
  <2>1. log[l][n] = "lease_issued"
    BY <1>4, <1>5, WhatMayFollow
  <2>2. CASE n # 1
    <3> HIDE DEF n
    <3>1. n - 1 \in 1 .. n - 1 /\ n - 1 \in 1 .. n /\ (n - 1) + 1 = n
      BY <1>2, <2>2
    <3> USE DEF n
    <3>2. log[l][n] \in EventsAfter[log[l][n - 1]]
      BY <1>1, <1>3, <3>1 DEF Told
    <3>3. log[l][n - 1] \in LeaseEventTypes
      BY <1>2, <3>1
    <3> QED BY <2>1, <3>2, <3>3, WhatMayFollow
  <2> QED BY <2>2
<1> QED BY <1>1, <1>3, <1>4, <1>5 DEF Told

LEMMA RowIsExtended ==
    ASSUME TypedRows, TypedRows', RowsAreTold, NEW l \in Leases, log[l] # <<>>,
           NEW event \in EventsAfter[log[l][Len(log[l])]], Move(l, StatusAfter[event], event)
    PROVE  RowsAreTold'
<1>1. ASSUME NEW m \in Leases
      PROVE  Told(status[m], version[m], log[m], usage[m])'
  <2>1. Told(status[m], version[m], log[m], usage[m])
    BY DEF RowsAreTold
  <2>2. CASE m = l
    <3>1. version[l] \in Nat /\ usage[l] \in Nat /\ log[l] \in Seq(LeaseEventTypes)
      BY DEF TypedRows
    <3>2. Told(StatusAfter[event], version[l] + 1, Append(log[l], event), usage[l] + 1)
      BY <2>1, <2>2, <3>1, AppendIsTold
    <3>3. /\ status'[l] = StatusAfter[event] /\ version'[l] = version[l] + 1
          /\ log'[l] = Append(log[l], event) /\ usage'[l] = usage[l] + 1
      BY DEF TypedRows, Move
    <3> QED BY <2>2, <3>2, <3>3
  <2>3. CASE m # l
    <3>1. /\ status'[m] = status[m] /\ version'[m] = version[m]
          /\ log'[m] = log[m] /\ usage'[m] = usage[m]
      BY <2>3 DEF TypedRows, Move
    <3> QED BY <2>1, <3>1
  <2> QED BY <2>2, <2>3
<1> QED BY <1>1 DEF RowsAreTold

(* Every write to a row is a Move along its history, but the insertion.    *)
LEMMA WritesAreMoves ==
    ASSUME TypedRows, RowsAreTold, LeaseWrites
    PROVE  \E l \in Leases :
             \/ Inserted(l)
             \/ \E event \in EventsAfter[log[l][Len(log[l])]] :
                  status[l] # "absent" /\ log[l] # <<>> /\ Move(l, StatusAfter[event], event)
<1> DEFINE last(l) == log[l][Len(log[l])]
<1>1. ASSUME NEW p \in Processes, NEW l \in Leases, ClaimedBy(p, l)
      PROVE  /\ status[l] # "absent" /\ log[l] # <<>>
             /\ "process_claimed" \in EventsAfter[last(l)]
             /\ Move(l, StatusAfter["process_claimed"], "process_claimed")
  <2>1. status[l] = "prepared"
    BY <1>1 DEF ClaimedBy, CanClaim
  <2>2. log[l] # <<>> /\ "process_claimed" \in EventsAfter[last(l)]
    BY <2>1, LastEvent, WhatMayFollow
  <2>3. version[l] = 0 /\ usage[l] = 1
    BY <2>1, LastEvent
  <2> QED BY <1>1, <2>1, <2>2, <2>3, WhatEventsLeadTo DEF ClaimedBy, Move
<1>2. ASSUME NEW p \in Processes, NEW l \in Leases, AttestedBy(p, l)
      PROVE  /\ status[l] # "absent" /\ log[l] # <<>>
             /\ "listener_attested" \in EventsAfter[last(l)]
             /\ Move(l, StatusAfter["listener_attested"], "listener_attested")
  <2>1. status[l] = "claimed" /\ version[l] = 1
    BY <1>2 DEF AttestedBy
  <2>2. log[l] # <<>> /\ "listener_attested" \in EventsAfter[last(l)]
    BY <2>1, LastEvent, WhatMayFollow
  <2>3. usage[l] = 2
    BY <2>1, <2>2 DEF RowsAreTold, Told, TypedRows
  <2> QED BY <1>2, <2>1, <2>2, <2>3, WhatEventsLeadTo DEF AttestedBy, Move
<1>3. ASSUME NEW l \in Leases, NEW move \in Endings, Ended(l, move[2], move[3])
      PROVE  /\ status[l] # "absent" /\ log[l] # <<>>
             /\ move[3] \in EventsAfter[last(l)]
             /\ Move(l, StatusAfter[move[3]], move[3])
  <2>1. <<status[l], move[2], move[3]>> \in Endings /\ Move(l, move[2], move[3])
    BY <1>3 DEF Ended
  <2>2. /\ status[l] # "absent" /\ move[2] = StatusAfter[move[3]]
        /\ \/ status[l] = "active"
                /\ move[3] \in {"lease_expired", "lease_write_frozen", "lease_revoked"}
           \/ status[l] = "write_frozen" /\ move[3] = "lease_closed"
           \/ status[l] \in {"prepared", "claimed"} /\ move[3] = "lease_revoked"
    BY <2>1, WhatEventsLeadTo DEF Endings
  <2>3. log[l] # <<>> /\ move[3] \in EventsAfter[last(l)]
    BY <2>2, LastEvent, WhatMayFollow
  <2> QED BY <2>1, <2>2, <2>3
<1>4. ASSUME NEW p \in Processes, NEW l \in Leases, NEW event \in CommandEvents,
             Committed(p, l, event)
      PROVE  /\ status[l] # "absent" /\ log[l] # <<>>
             /\ event \in EventsAfter[last(l)]
             /\ Move(l, StatusAfter[event], event)
  <2>1. status[l] = "active" /\ Move(l, "active", event)
    BY <1>4 DEF Committed, MayCommit
  <2>2. log[l] # <<>> /\ event \in EventsAfter[last(l)]
    BY <2>1, LastEvent, WhatMayFollow
  <2> QED BY <2>1, <2>2, WhatEventsLeadTo
<1> QED BY <1>1, <1>2, <1>3, <1>4 DEF LeaseWrites

LEMMA InsertedIsTold ==
    ASSUME TypedRows, TypedRows', RowsAreTold, NEW l \in Leases, Inserted(l)
    PROVE  RowsAreTold'
<1>1. ASSUME NEW m \in Leases
      PROVE  Told(status[m], version[m], log[m], usage[m])'
  <2>1. Told(status[m], version[m], log[m], usage[m])
    BY DEF RowsAreTold
  <2>2. CASE m = l
    <3>1. status[l] = "absent" /\ log[l] \in Seq(LeaseEventTypes)
      BY DEF Inserted, TypedRows
    <3>2. version[l] = 0
      <4>1. CASE log[l] = <<>>
        BY <2>1, <2>2, <4>1 DEF Told
      <4>2. CASE log[l] # <<>>
        <5>1. log[l][Len(log[l])] \in LeaseEventTypes
          BY <3>1, <4>2
        <5> QED BY <2>1, <2>2, <3>1, <4>2, <5>1, WhatMayFollow DEF Told
      <4> QED BY <4>1, <4>2
    <3>3. /\ status'[l] = "prepared" /\ version'[l] = 0
          /\ log'[l] = <<"lease_issued">> /\ usage'[l] = 1
      BY <3>2 DEF TypedRows, Inserted
    <3>4. Told("prepared", 0, <<"lease_issued">>, 1)
      BY WhatEventsLeadTo DEF Told
    <3> QED BY <2>2, <3>3, <3>4
  <2>3. CASE m # l
    <3>1. /\ status'[m] = status[m] /\ version'[m] = version[m]
          /\ log'[m] = log[m] /\ usage'[m] = usage[m]
      BY <2>3 DEF TypedRows, Inserted
    <3> QED BY <2>1, <3>1
  <2> QED BY <2>2, <2>3
<1> QED BY <1>1 DEF RowsAreTold

(* The rows and the backup are told together: a restore brings back rows   *)
(* that were told when they were backed up.                                *)
LedgerIsTold == TypeOK /\ RowsAreTold /\ BackupIsTold

LEMMA ToldStep == LedgerIsTold /\ [Next]_vars => LedgerIsTold'
<1> SUFFICES ASSUME LedgerIsTold, [Next]_vars
             PROVE  LedgerIsTold'
  OBVIOUS
<1>1. TypeOK' /\ DatabaseSteps
  BY TypeStep, StepsOfTheDatabase DEF LedgerIsTold, TypeOK
<1>2. TypedRows /\ TypedRows'
  BY <1>1, SnapshotsAreOfTypedRows, DatabaseIsTyped DEF LedgerIsTold, TypeOK
<1>3. CASE UNCHANGED <<database, maintenance>>
  BY <1>1, <1>3 DEF LedgerIsTold, RowsAreTold, BackupIsTold, database, maintenance
<1>4. CASE LeaseWrites /\ UNCHANGED maintenance
  <2>1. RowsAreTold'
    BY <1>2, <1>4, WritesAreMoves, InsertedIsTold, RowIsExtended DEF LedgerIsTold
  <2> QED BY <1>1, <1>4, <2>1 DEF LedgerIsTold, BackupIsTold, maintenance
<1>5. CASE WrittenUnguarded /\ UNCHANGED maintenance
  BY <1>1, <1>5 DEF LedgerIsTold, RowsAreTold, BackupIsTold, WrittenUnguarded, maintenance
<1>6. CASE Backup
  BY <1>1, <1>6 DEF LedgerIsTold, RowsAreTold, BackupIsTold, Backup, Snapshot, database
<1>7. CASE Restore
  BY <1>1, <1>7 DEF LedgerIsTold, RowsAreTold, BackupIsTold, Restore
<1> QED BY <1>1, <1>3, <1>4, <1>5, <1>6, <1>7 DEF DatabaseSteps

LEMMA ToldInit == Init => LedgerIsTold
BY TypeInit DEF Init, LedgerIsTold, RowsAreTold, BackupIsTold, Told

LEMMA LedgerAlwaysTold == Spec => []LedgerIsTold
BY ToldInit, ToldStep, PTL DEF Spec

(* In every state each lease's row says what its append-only events say,   *)
(* so that export_closeout_evidence can be trusted, backups and restores   *)
(* of repository.py included.                                              *)
THEOREM RowsAlwaysFollowTheirEvents == Spec => []RowFollowsItsEvents
BY LedgerAlwaysTold, RowsFollowWhenTold, PTL DEF LedgerIsTold

-----------------------------------------------------------------------------
(* The statuses of the leases.                                             *)

(* The status of at most one row changes, along an edge of the lease's     *)
(* life, or all statuses are those of the backup.                          *)
StatusEdges == {<<"absent", "prepared">>, <<"prepared", "claimed">>, <<"claimed", "active">>,
                <<"active", "active">>} \cup {<<move[1], move[2]>> : move \in Endings}

LEMMA StatusSteps ==
    ASSUME TypedRows, DatabaseSteps
    PROVE  \/ UNCHANGED status
           \/ \E l \in Leases, to \in LiveStatuses \cup TerminalStatuses :
                /\ <<status[l], to>> \in StatusEdges
                /\ status[l] = "prepared" /\ to = "claimed" => NoOtherLiveLease(l)
                /\ status' = [status EXCEPT ![l] = to]
           \/ Restore
<1> USE DEF TypedRows
<1> DEFINE Edge(l, to) ==
      /\ <<status[l], to>> \in StatusEdges
      /\ status[l] = "prepared" /\ to = "claimed" => NoOtherLiveLease(l)
      /\ status' = [status EXCEPT ![l] = to]
<1>1. {"prepared", "claimed", "active"} \subseteq LiveStatuses \cup TerminalStatuses
  BY DEF LiveStatuses
<1>2. ASSUME NEW l \in Leases, Inserted(l) PROVE Edge(l, "prepared")
  BY <1>2 DEF Inserted, StatusEdges
<1>3. ASSUME NEW p \in Processes, NEW l \in Leases, ClaimedBy(p, l) PROVE Edge(l, "claimed")
  BY <1>3 DEF ClaimedBy, CanClaim, StatusEdges
<1>4. ASSUME NEW p \in Processes, NEW l \in Leases, AttestedBy(p, l) PROVE Edge(l, "active")
  BY <1>4 DEF AttestedBy, StatusEdges
<1>5. ASSUME NEW l \in Leases, NEW move \in Endings, Ended(l, move[2], move[3])
      PROVE  Edge(l, move[2]) /\ move[2] \in LiveStatuses \cup TerminalStatuses
  <2>1. <<status[l], move[2], move[3]>> \in Endings
    BY <1>5 DEF Ended
  <2>2. <<status[l], move[2]>> \in StatusEdges
    BY <2>1 DEF StatusEdges, Endings
  <2>3. move[2] # "claimed" /\ move[2] \in LiveStatuses \cup TerminalStatuses
    BY DEF Endings, LiveStatuses, TerminalStatuses
  <2> QED BY <1>5, <2>2, <2>3 DEF Ended, Move
<1>6. ASSUME NEW p \in Processes, NEW l \in Leases, NEW event \in CommandEvents,
             Committed(p, l, event)
      PROVE  Edge(l, "active")
  BY <1>6 DEF Committed, MayCommit, Move, StatusEdges
<1>7. CASE LeaseWrites
  BY <1>1, <1>2, <1>3, <1>4, <1>5, <1>6, <1>7 DEF LeaseWrites
<1>8. CASE UNCHANGED database \/ WrittenUnguarded \/ Backup
  BY <1>8 DEF database, WrittenUnguarded, Backup
<1> QED BY <1>7, <1>8 DEF DatabaseSteps, database

(* Backups are taken with no live lease, so a restore starts none.         *)
AtRest == backup # None => \A l \in Leases : backup.status[l] \notin LiveStatuses

LeasesAreApart == TypeOK /\ AtRest /\ OneLiveLease

LEMMA ApartStep == LeasesAreApart /\ [Next]_vars => LeasesAreApart'
<1> SUFFICES ASSUME LeasesAreApart, [Next]_vars
             PROVE  LeasesAreApart'
  OBVIOUS
<1>1. TypeOK' /\ DatabaseSteps
  BY TypeStep, StepsOfTheDatabase DEF LeasesAreApart, TypeOK
<1>2. TypedRows
  BY SnapshotsAreOfTypedRows DEF LeasesAreApart, TypeOK
<1>3. AtRest'
  <2>1. CASE UNCHANGED backup
    BY <2>1 DEF AtRest, LeasesAreApart
  <2>2. CASE Backup
    BY <2>2 DEF AtRest, Backup, NoLiveLease, Snapshot
  <2> QED BY <1>1, <2>1, <2>2 DEF DatabaseSteps, maintenance, Restore
<1>4. OneLiveLease'
  <2>1. CASE UNCHANGED status
    BY <2>1 DEF OneLiveLease, LeasesAreApart
  <2>2. ASSUME NEW l \in Leases, NEW to \in LiveStatuses \cup TerminalStatuses,
               <<status[l], to>> \in StatusEdges,
               status[l] = "prepared" /\ to = "claimed" => NoOtherLiveLease(l),
               status' = [status EXCEPT ![l] = to]
        PROVE  OneLiveLease'
    <3>1. to \in ExclusiveStatuses =>
            status[l] \in ExclusiveStatuses \/ NoOtherLiveLease(l)
      BY <2>2 DEF StatusEdges, Endings, ExclusiveStatuses
    <3>2. \A m \in Leases : status'[m] = IF m = l THEN to ELSE status[m]
      BY <1>2, <2>2 DEF TypedRows
    <3> QED BY <3>1, <3>2 DEF OneLiveLease, LeasesAreApart, NoOtherLiveLease
  <2>3. CASE Restore
    BY <2>3 DEF Restore, OneLiveLease, LeasesAreApart, AtRest, ExclusiveStatuses, LiveStatuses
  <2> QED BY <1>1, <1>2, <2>1, <2>2, <2>3, StatusSteps
<1> QED BY <1>1, <1>3, <1>4 DEF LeasesAreApart

LEMMA ApartInit == Init => LeasesAreApart
BY TypeInit DEF Init, LeasesAreApart, AtRest, OneLiveLease, ExclusiveStatuses

LEMMA LeasesStayApart == Spec => []LeasesAreApart
BY ApartInit, ApartStep, PTL DEF Spec

(* At most one lease is claimed, active or frozen: what the transaction of *)
(* claim_prepared_lease checks and idx_activation_single_live_lease backs, *)
(* and what restore_from_backup keeps by waiting for no live lease.        *)
THEOREM OneLiveLeaseAlways == Spec => []OneLiveLease
BY LeasesStayApart, PTL DEF LeasesAreApart

-----------------------------------------------------------------------------
(* What is over stays over.                                                *)

LEMMA OverStaysOver ==
    ASSUME TypeOK, [Next]_vars, restores' = restores, NEW m \in Leases
    PROVE  /\ status[m] \in TerminalStatuses =>
                status'[m] = status[m] /\ log'[m] = log[m] /\ facts'[m] = facts[m]
           /\ status[m] = "write_frozen" =>
                status'[m] \in {"write_frozen", "closed"} /\ facts'[m] = facts[m]
<1> DEFINE Kept == /\ status[m] \in TerminalStatuses =>
                        status'[m] = status[m] /\ log'[m] = log[m] /\ facts'[m] = facts[m]
                   /\ status[m] = "write_frozen" =>
                        status'[m] \in {"write_frozen", "closed"} /\ facts'[m] = facts[m]
<1>1. DatabaseSteps /\ restores \in Nat
  BY StepsOfTheDatabase DEF TypeOK
<1>2. TypedRows
  BY SnapshotsAreOfTypedRows DEF TypeOK
<1>3. CASE UNCHANGED database \/ WrittenUnguarded \/ Backup
  BY <1>3 DEF database, WrittenUnguarded, Backup
<1>4. ~Restore
  BY <1>1 DEF Restore
<1>5. ASSUME NEW l \in Leases, Inserted(l) PROVE Kept
  BY <1>2, <1>5 DEF Inserted, TypedRows, TerminalStatuses
<1>6. ASSUME NEW p \in Processes, NEW l \in Leases, ClaimedBy(p, l) PROVE Kept
  BY <1>2, <1>6 DEF ClaimedBy, CanClaim, TypedRows, TerminalStatuses
<1>7. ASSUME NEW p \in Processes, NEW l \in Leases, AttestedBy(p, l) PROVE Kept
  BY <1>2, <1>7 DEF AttestedBy, TypedRows, TerminalStatuses
<1>8. ASSUME NEW l \in Leases, NEW move \in Endings, Ended(l, move[2], move[3]) PROVE Kept
  <2>1. <<status[l], move[2], move[3]>> \in Endings
    BY <1>8 DEF Ended
  <2>2. /\ status[l] \notin TerminalStatuses
        /\ status[l] = "write_frozen" => move[2] = "closed"
    BY <2>1 DEF Endings, TerminalStatuses
  <2> QED BY <1>2, <1>8, <2>2 DEF Ended, Move, TypedRows
<1>9. ASSUME NEW p \in Processes, NEW l \in Leases, NEW event \in CommandEvents,
             Committed(p, l, event)
      PROVE  Kept
  BY <1>2, <1>9 DEF Committed, MayCommit, Move, TypedRows, TerminalStatuses
<1>10. CASE LeaseWrites
  BY <1>5, <1>6, <1>7, <1>8, <1>9, <1>10 DEF LeaseWrites
<1> QED BY <1>1, <1>3, <1>4, <1>10 DEF DatabaseSteps, database

(* Until the database is restored, no step of any server, request or       *)
(* operator changes a lease that is over or adds facts to a frozen one     *)
(* (begin_write and authorize_new look the lease up in the transaction     *)
(* that commits the command).                                              *)
THEOREM NothingHappensAfterFreeze == Spec => NothingAfterFreeze
<1>1. TypeOK /\ [Next]_vars =>
        [restores' = restores => \A l \in Leases :
           /\ status[l] \in TerminalStatuses =>
                status'[l] = status[l] /\ log'[l] = log[l] /\ facts'[l] = facts[l]
           /\ status[l] = "write_frozen" =>
                status'[l] \in {"write_frozen", "closed"} /\ facts'[l] = facts[l]]_vars
  BY OverStaysOver
<1> QED BY <1>1, TypeInit, TypeStep, PTL DEF Spec, NothingAfterFreeze

-----------------------------------------------------------------------------
(* Room for the events that freeze and close a lease.                      *)

LEMMA RoomStep ==
    LedgerIsTold /\ LeasesAreApart /\ CloseoutHasRoom /\ [Next]_vars => CloseoutHasRoom'
<1> SUFFICES ASSUME LedgerIsTold, LeasesAreApart, CloseoutHasRoom, [Next]_vars, NEW m \in Leases
             PROVE  /\ status'[m] \in {"prepared", "claimed", "active"} =>
                         Len(log'[m]) <= MaxLeaseEvents - 2
                    /\ status'[m] = "write_frozen" => Len(log'[m]) <= MaxLeaseEvents - 1
  BY DEF CloseoutHasRoom
<1> DEFINE Room == /\ status'[m] \in {"prepared", "claimed", "active"} =>
                         Len(log'[m]) <= MaxLeaseEvents - 2
                   /\ status'[m] = "write_frozen" => Len(log'[m]) <= MaxLeaseEvents - 1
<1>1. DatabaseSteps /\ TypedRows /\ RowsAreTold
  BY StepsOfTheDatabase, SnapshotsAreOfTypedRows DEF LedgerIsTold, TypeOK
<1>2. /\ status[m] \in {"prepared", "claimed", "active"} => Len(log[m]) <= MaxLeaseEvents - 2
      /\ status[m] = "write_frozen" => Len(log[m]) <= MaxLeaseEvents - 1
      /\ usage[m] = Len(log[m]) /\ Len(log[m]) \in Nat
      /\ version[m] \in Nat
      /\ status[m] # "absent" => version[m] = Len(log[m]) - 1
  <2>1. Told(status[m], version[m], log[m], usage[m]) /\ log[m] \in Seq(LeaseEventTypes)
    BY <1>1 DEF RowsAreTold, TypedRows
  <2> QED BY <1>1, <2>1 DEF CloseoutHasRoom, Told, TypedRows
<1>3. \A event : log[m] \in Seq(LeaseEventTypes) /\ event \in LeaseEventTypes =>
                   Len(Append(log[m], event)) = Len(log[m]) + 1
  OBVIOUS
<1>4. CASE UNCHANGED database \/ WrittenUnguarded \/ Backup
  BY <1>2, <1>4 DEF database, WrittenUnguarded, Backup
<1>5. CASE Restore
  BY <1>5 DEF Restore, LeasesAreApart, AtRest, LiveStatuses
<1>6. ASSUME NEW l \in Leases, Inserted(l) PROVE Room
  <2>1. CASE l = m
    <3>1. log'[m] = <<"lease_issued">> /\ status'[m] = "prepared"
      BY <1>1, <1>6, <2>1 DEF Inserted, TypedRows
    <3>2. Len(log'[m]) = 1
      BY <3>1
    <3> QED BY <3>1, <3>2, LeaseAssumption
  <2>2. CASE l # m
    BY <1>1, <1>2, <1>6, <2>2 DEF Inserted, TypedRows
  <2> QED BY <2>1, <2>2
<1> DEFINE Extended(to, event) == status'[m] = to /\ Len(log'[m]) = Len(log[m]) + 1
<1>7. ASSUME NEW l \in Leases, NEW to, NEW event \in LeaseEventTypes,
             status' = [status EXCEPT ![l] = to],
             log' = [log EXCEPT ![l] = Append(log[l], event)]
      PROVE  IF l = m THEN Extended(to, event)
                      ELSE status'[m] = status[m] /\ log'[m] = log[m]
  BY <1>1, <1>3, <1>7 DEF TypedRows
<1>8. ASSUME NEW p \in Processes, NEW l \in Leases, ClaimedBy(p, l) PROVE Room
  <2>1. status[l] = "prepared" /\ "process_claimed" \in LeaseEventTypes
    BY <1>8 DEF ClaimedBy, CanClaim, LeaseEventTypes
  <2>2. Len(log[l]) = 1
    BY <1>1, <2>1, LastEvent
  <2>3. IF l = m THEN Extended("claimed", "process_claimed")
                 ELSE status'[m] = status[m] /\ log'[m] = log[m]
    BY <1>7, <1>8, <2>1 DEF ClaimedBy
  <2>4. CASE l = m
    <3>1. status'[m] = "claimed" /\ Len(log'[m]) = Len(log[m]) + 1
      BY <2>3, <2>4
    <3>2. Len(log[m]) = 1
      BY <2>2, <2>4
    <3>3. Len(log'[m]) = 2
      BY <3>1, <3>2
    <3>4. 2 <= MaxLeaseEvents - 2
      BY LeaseAssumption
    <3> QED BY <3>1, <3>3, <3>4
  <2>5. CASE l # m
    BY <1>2, <2>3, <2>5
  <2> QED BY <2>4, <2>5
<1>9. ASSUME NEW p \in Processes, NEW l \in Leases, AttestedBy(p, l) PROVE Room
  <2>1. status[l] = "claimed" /\ version[l] = 1 /\ "listener_attested" \in LeaseEventTypes
    BY <1>9 DEF AttestedBy, LeaseEventTypes
  <2>2. IF l = m THEN Extended("active", "listener_attested")
                 ELSE status'[m] = status[m] /\ log'[m] = log[m]
    BY <1>7, <1>9, <2>1 DEF AttestedBy
  <2> QED BY <1>2, <2>1, <2>2, LeaseAssumption
<1>10. ASSUME NEW l \in Leases, NEW move \in Endings, Ended(l, move[2], move[3]) PROVE Room
  <2>1. <<status[l], move[2], move[3]>> \in Endings
    BY <1>10 DEF Ended
  <2>2. /\ move[2] \notin {"prepared", "claimed", "active"} /\ move[3] \in LeaseEventTypes
        /\ move[2] = "write_frozen" => status[l] = "active"
    BY <2>1 DEF Endings, LeaseEventTypes
  <2>3. IF l = m THEN Extended(move[2], move[3])
                 ELSE status'[m] = status[m] /\ log'[m] = log[m]
    BY <1>7, <1>10, <2>2 DEF Ended, Move
  <2> QED BY <1>2, <2>2, <2>3, LeaseAssumption
<1>11. ASSUME NEW p \in Processes, NEW l \in Leases, NEW event \in CommandEvents,
              Committed(p, l, event)
       PROVE  Room
  <2>1. usage[l] < MaxLeaseEvents - 2 /\ event \in LeaseEventTypes
    BY <1>11 DEF Committed, MayCommit, LeaseEventTypes
  <2>2. IF l = m THEN Extended("active", event)
                 ELSE status'[m] = status[m] /\ log'[m] = log[m]
    BY <1>7, <1>11, <2>1 DEF Committed, Move
  <2> QED BY <1>2, <2>1, <2>2, LeaseAssumption
<1>12. CASE LeaseWrites
  BY <1>6, <1>8, <1>9, <1>10, <1>11, <1>12 DEF LeaseWrites
<1> QED BY <1>1, <1>4, <1>5, <1>12 DEF DatabaseSteps, database

LEMMA RoomInit == Init => CloseoutHasRoom
BY DEF Init, CloseoutHasRoom

(* Commands stop short of the reserve of _authorize_new: every live lease  *)
(* can still be frozen and closed, or revoked, within its event quota.     *)
THEOREM CloseoutAlwaysHasRoom == Spec => []CloseoutHasRoom
BY LedgerAlwaysTold, LeasesStayApart, RoomInit, RoomStep, PTL DEF Spec

-----------------------------------------------------------------------------
(* Facts.                                                                  *)

LEMMA CommandsAreFinite ==
    ASSUME NEW events \in Seq(LeaseEventTypes)
    PROVE  /\ IsFiniteSet(CommandsIn(events))
           /\ CommandsIn(events) \subseteq 1 .. Len(events)
           /\ Cardinality(CommandsIn(events)) \in Nat
<1>1. CommandsIn(events) \subseteq 1 .. Len(events) /\ Len(events) \in Nat
  BY DEF CommandsIn
<1>2. IsFiniteSet(1 .. Len(events))
  BY <1>1, FS_Interval
<1>3. IsFiniteSet(CommandsIn(events))
  BY <1>1, <1>2, FS_Subset
<1> QED BY <1>1, <1>3, FS_CardinalityType

LEMMA CommandsAfterAppend ==
    ASSUME NEW events \in Seq(LeaseEventTypes), NEW event \in LeaseEventTypes
    PROVE  Cardinality(CommandsIn(Append(events, event))) =
             Cardinality(CommandsIn(events)) + (IF event \in CommandEvents THEN 1 ELSE 0)
<1> DEFINE longer == Append(events, event)
<1>1. /\ DOMAIN longer = 1 .. Len(events) + 1 /\ DOMAIN events = 1 .. Len(events)
      /\ Len(events) \in Nat /\ longer[Len(events) + 1] = event
      /\ \A i \in 1 .. Len(events) : longer[i] = events[i]
  OBVIOUS
<1>2. Cardinality(CommandsIn(events)) \in Nat /\ IsFiniteSet(CommandsIn(events))
  BY CommandsAreFinite
<1>3. CASE event \in CommandEvents
  <2>1. CommandsIn(longer) = CommandsIn(events) \cup {Len(events) + 1}
    BY <1>1, <1>3 DEF CommandsIn
  <2>2. Len(events) + 1 \notin CommandsIn(events)
    BY <1>1 DEF CommandsIn
  <2> QED BY <1>2, <1>3, <2>1, <2>2, FS_AddElement
<1>4. CASE event \notin CommandEvents
  <2>1. CommandsIn(longer) = CommandsIn(events)
    BY <1>1, <1>4 DEF CommandsIn
  <2> QED BY <1>2, <1>4, <2>1
<1> QED BY <1>3, <1>4

LEMMA NoCommandsAtFirst ==
    Cardinality(CommandsIn(<<>>)) = 0 /\ Cardinality(CommandsIn(<<"lease_issued">>)) = 0
<1>1. CommandsIn(<<>>) = {} /\ CommandsIn(<<"lease_issued">>) = {}
  BY DEF CommandsIn, CommandEvents
<1> QED BY <1>1, FS_EmptySet

Accounted(rows, charged, written, free, events) ==
    /\ \A l \in Leases :
         written[l] = charged[l] /\ charged[l] = Cardinality(CommandsIn(events[l]))
    /\ \A l, m \in Leases : written[l] > 0 /\ written[m] > 0 => l = m
    /\ free > 0 => \A l \in Leases : rows[l] = "absent"

BackupIsAccounted == backup # None =>
    Accounted(backup.status, backup.spent, backup.facts, backup.plain, backup.log)

(* Only the live lease has facts: that no two leases have any follows.     *)
OthersHaveNoFacts == \A l, m \in Leases :
    status[l] \in ExclusiveStatuses /\ l # m => facts[m] = 0

RowsAreAccounted == Accounted(status, spent, facts, plain, log) /\ OthersHaveNoFacts

FactsInvariant == LeasesAreApart /\ RowsAreAccounted /\ BackupIsAccounted

LEMMA InsertedIsAccounted ==
    ASSUME TypedRows, RowsAreAccounted, NEW l \in Leases, Inserted(l)
    PROVE  RowsAreAccounted'
<1>1. \A m \in Leases : status'[m] = (IF m = l THEN "prepared" ELSE status[m])
  BY DEF TypedRows, Inserted
<1>2. \A m \in Leases : log'[m] = (IF m = l THEN <<"lease_issued">> ELSE log[m])
  BY DEF TypedRows, Inserted
<1>3. UNCHANGED <<spent, facts, plain>> /\ plain = 0 /\ \A m \in Leases : facts[m] = 0
  BY DEF Inserted, FreshBaseline
<1> QED BY <1>1, <1>2, <1>3, NoCommandsAtFirst
        DEF RowsAreAccounted, Accounted, OthersHaveNoFacts, ExclusiveStatuses

(* A move that is no command and makes no other lease live.                *)
LEMMA MoveIsAccounted ==
    ASSUME TypedRows, RowsAreAccounted, NEW l \in Leases, NEW to,
           NEW event \in LeaseEventTypes \ CommandEvents,
           status[l] # "absent",
           to \in ExclusiveStatuses => status[l] \in ExclusiveStatuses \/ FreshBaseline,
           status' = [status EXCEPT ![l] = to],
           log' = [log EXCEPT ![l] = Append(log[l], event)],
           UNCHANGED <<spent, facts, plain>>
    PROVE  RowsAreAccounted'
<1>1. \A m \in Leases : status'[m] = (IF m = l THEN to ELSE status[m])
  BY DEF TypedRows
<1>2. \A m \in Leases :
        Cardinality(CommandsIn(log'[m])) = Cardinality(CommandsIn(log[m]))
  <2>1. log[l] \in Seq(LeaseEventTypes) /\ log'[l] = Append(log[l], event)
    BY DEF TypedRows
  <2>2. Cardinality(CommandsIn(log[l])) \in Nat
    BY <2>1, CommandsAreFinite
  <2>3. Cardinality(CommandsIn(log'[l])) = Cardinality(CommandsIn(log[l]))
    BY <2>1, <2>2, CommandsAfterAppend
  <2>4. \A m \in Leases : m # l => log'[m] = log[m]
    BY DEF TypedRows
  <2> QED BY <2>3, <2>4
<1>3. Accounted(status, spent, facts, plain, log)'
  BY <1>1, <1>2 DEF RowsAreAccounted, Accounted
<1>4. OthersHaveNoFacts'
  BY <1>1 DEF RowsAreAccounted, OthersHaveNoFacts, FreshBaseline
<1> QED BY <1>3, <1>4 DEF RowsAreAccounted

LEMMA CommandIsAccounted ==
    ASSUME TypedRows, RowsAreAccounted, OneLiveLease,
           NEW p \in Processes, NEW l \in Leases, NEW event \in CommandEvents,
           Committed(p, l, event)
    PROVE  RowsAreAccounted'
<1>1. status[l] = "active" /\ UNCHANGED plain /\ plain \in Nat
  BY DEF Committed, MayCommit, TypedRows
<1>2. \A m \in Leases : status'[m] = status[m]
  BY <1>1 DEF TypedRows, Committed, Move
<1>3. \A m \in Leases : /\ spent'[m] = (IF m = l THEN spent[l] + 1 ELSE spent[m])
                        /\ facts'[m] = (IF m = l THEN facts[l] + 1 ELSE facts[m])
  BY DEF TypedRows, Committed
<1>4. \A m \in Leases : m # l => log'[m] = log[m]
  BY DEF TypedRows, Committed, Move
<1>5. Cardinality(CommandsIn(log'[l])) = Cardinality(CommandsIn(log[l])) + 1
  <2>1. event \in LeaseEventTypes /\ log[l] \in Seq(LeaseEventTypes)
    BY DEF LeaseEventTypes, TypedRows
  <2>2. log'[l] = Append(log[l], event)
    BY DEF TypedRows, Committed, Move
  <2> QED BY <2>1, <2>2, CommandsAfterAppend
<1>6. \A m \in Leases : m # l => facts[m] = 0 /\ status[m] \notin ExclusiveStatuses
  BY <1>1 DEF RowsAreAccounted, OthersHaveNoFacts, OneLiveLease, ExclusiveStatuses
<1>7. Accounted(status, spent, facts, plain, log)'
  <2>1. ASSUME NEW m \in Leases
        PROVE  /\ facts'[m] = spent'[m] /\ spent'[m] = Cardinality(CommandsIn(log'[m]))
               /\ facts'[m] > 0 => m = l
    BY <1>3, <1>4, <1>5, <1>6 DEF RowsAreAccounted, Accounted, TypedRows
  <2>2. ~(plain > 0)
    BY <1>1 DEF RowsAreAccounted, Accounted
  <2> QED BY <1>1, <2>1, <2>2 DEF Accounted
<1>8. OthersHaveNoFacts'
  BY <1>1, <1>2, <1>3, <1>6 DEF OthersHaveNoFacts, ExclusiveStatuses
<1> QED BY <1>7, <1>8 DEF RowsAreAccounted

LEMMA LeaseWritesAreAccounted ==
    ASSUME TypedRows, RowsAreAccounted, OneLiveLease, LeaseWrites
    PROVE  RowsAreAccounted'
<1>1. ASSUME NEW p \in Processes, NEW l \in Leases, ClaimedBy(p, l) PROVE RowsAreAccounted'
  <2>1. /\ "process_claimed" \in LeaseEventTypes \ CommandEvents
        /\ status[l] # "absent" /\ FreshBaseline
    BY <1>1 DEF LeaseEventTypes, CommandEvents, ClaimedBy, CanClaim
  <2> QED BY <1>1, <2>1, MoveIsAccounted DEF ClaimedBy
<1>2. ASSUME NEW p \in Processes, NEW l \in Leases, AttestedBy(p, l) PROVE RowsAreAccounted'
  <2>1. /\ "listener_attested" \in LeaseEventTypes \ CommandEvents
        /\ status[l] # "absent" /\ status[l] \in ExclusiveStatuses
    BY <1>2 DEF LeaseEventTypes, CommandEvents, AttestedBy, ExclusiveStatuses
  <2> QED BY <1>2, <2>1, MoveIsAccounted DEF AttestedBy
<1>3. ASSUME NEW l \in Leases, NEW move \in Endings, Ended(l, move[2], move[3])
      PROVE  RowsAreAccounted'
  <2>1. <<status[l], move[2], move[3]>> \in Endings
    BY <1>3 DEF Ended
  <2>2. /\ move[3] \in LeaseEventTypes \ CommandEvents /\ status[l] # "absent"
        /\ move[2] \in ExclusiveStatuses => status[l] \in ExclusiveStatuses
    BY <2>1 DEF Endings, LeaseEventTypes, CommandEvents, ExclusiveStatuses
  <2> QED BY <1>3, <2>2, MoveIsAccounted DEF Ended, Move
<1> QED BY <1>1, <1>2, <1>3, InsertedIsAccounted, CommandIsAccounted DEF LeaseWrites

LEMMA FactsStep == FactsInvariant /\ [Next]_vars => FactsInvariant'
<1> SUFFICES ASSUME FactsInvariant, [Next]_vars
             PROVE  FactsInvariant'
  OBVIOUS
<1>1. LeasesAreApart' /\ DatabaseSteps
  BY ApartStep, StepsOfTheDatabase DEF FactsInvariant, LeasesAreApart, TypeOK
<1>2. TypedRows /\ OneLiveLease
  BY SnapshotsAreOfTypedRows DEF FactsInvariant, LeasesAreApart, TypeOK
<1>3. CASE UNCHANGED <<database, maintenance>>
  BY <1>1, <1>3 DEF FactsInvariant, RowsAreAccounted, OthersHaveNoFacts, BackupIsAccounted,
                    Accounted, database, maintenance
<1>4. CASE LeaseWrites /\ UNCHANGED maintenance
  <2>1. RowsAreAccounted'
    BY <1>2, <1>4, LeaseWritesAreAccounted DEF FactsInvariant
  <2> QED BY <1>1, <1>4, <2>1 DEF FactsInvariant, BackupIsAccounted, maintenance
<1>5. CASE WrittenUnguarded /\ UNCHANGED maintenance
  BY <1>1, <1>5 DEF FactsInvariant, RowsAreAccounted, OthersHaveNoFacts, BackupIsAccounted,
                    Accounted, WrittenUnguarded, NoLeaseEver, maintenance
<1>6. CASE Backup
  BY <1>1, <1>6 DEF FactsInvariant, RowsAreAccounted, OthersHaveNoFacts, BackupIsAccounted,
                    Accounted, Backup, Snapshot, database
<1>7. CASE Restore
  <2>1. Accounted(status, spent, facts, plain, log)'
    BY <1>7 DEF FactsInvariant, BackupIsAccounted, Restore
  <2>2. OthersHaveNoFacts'
    BY <1>7 DEF FactsInvariant, LeasesAreApart, AtRest, Restore, OthersHaveNoFacts,
                ExclusiveStatuses, LiveStatuses
  <2> QED BY <1>1, <1>7, <2>1, <2>2
          DEF FactsInvariant, RowsAreAccounted, BackupIsAccounted, Restore
<1> QED BY <1>1, <1>3, <1>4, <1>5, <1>6, <1>7 DEF DatabaseSteps

LEMMA FactsInit == Init => FactsInvariant
BY ApartInit, NoCommandsAtFirst
   DEF Init, FactsInvariant, RowsAreAccounted, Accounted, OthersHaveNoFacts, BackupIsAccounted

(* Facts, the usage of their lease and its events are committed together   *)
(* (commit_new), all facts of a ledger with leases belong to one lease,    *)
(* and unguarded writes stop for good at the first lease                   *)
(* (_assert_fresh_baseline, _write_transaction).                           *)
THEOREM FactsAlwaysAccountedFor == Spec => []FactsAreAccountedFor
<1>1. FactsInvariant => FactsAreAccountedFor
  BY DEF FactsInvariant, RowsAreAccounted, Accounted, FactsAreAccountedFor
<1> QED BY <1>1, FactsInit, FactsStep, PTL DEF Spec

-----------------------------------------------------------------------------
(* The servers and their leases.                                           *)

AtWork(p, l) ==
    /\ status[l] = "claimed" /\ owner[l] = p =>
         work[p] = l /\ server[p] \in {"claimed", "bound", "failing", "crashed"}
    /\ status[l] = "active" /\ owner[l] = p =>
         work[p] = l /\ server[p] \in {"serving", "failing", "crashed"}

OwnersAreAtWork == \A p \in Processes, l \in Leases : AtWork(p, l)

(* What a step does to the lease m that process q may own: it leaves it    *)
(* claimed or active only where it was, or where it made q its owner.      *)
LEMMA AtWorkStep ==
    ASSUME TypeOK, LeasesAreApart, CloseoutHasRoom, OwnersAreAtWork, [Next]_vars,
           NEW q \in Processes, NEW m \in Leases
    PROVE  AtWork(q, m)'
<1> USE DEF database, maintenance, files, processes, issuance
<1>1. TypedRows /\ AtWork(q, m) /\ server \in [Processes -> Phases]
      /\ work \in [Processes -> Leases \cup {None}]
  BY SnapshotsAreOfTypedRows DEF TypeOK, OwnersAreAtWork
<1>2. \A l \in Leases : status[l] \in {"claimed", "active"} => HasRoom(l)
  <2>1. ASSUME NEW l \in Leases, status[l] \in {"claimed", "active"} PROVE HasRoom(l)
    <3>1. Len(log[l]) <= MaxLeaseEvents - 2 /\ Len(log[l]) \in Nat
      BY <1>1, <2>1 DEF CloseoutHasRoom, TypedRows
    <3> QED BY <3>1, LeaseAssumption DEF HasRoom
  <2> QED BY <2>1
<1>3. ASSUME NEW l \in Leases, Issuance(l) PROVE AtWork(q, m)'
  <2>1. CASE InsertLease(l)
    BY <1>1, <2>1 DEF InsertLease, AtWork, TypedRows
  <2> QED
    BY <1>1, <1>3, <2>1 DEF Issuance, ValidatePreflight, IssuerCrash, WriteEnvelope, AtWork
<1>4. ASSUME NEW l \in Leases, NEW to \in {"write_frozen", "closed", "revoked", "expired"},
             NEW event, Move(l, to, event), UNCHANGED <<owner, processes>>
      PROVE  AtWork(q, m)'
  BY <1>1, <1>4 DEF Move, AtWork, TypedRows
<1>5. ASSUME NEW l \in Leases, Freeze(l) \/ Close(l) \/ Revoke(l) \/ TimePasses(l)
      PROVE  AtWork(q, m)'
  <2>1. CASE TimePasses(l)
    BY <1>1, <2>1 DEF TimePasses, AtWork
  <2> QED BY <1>4, <1>5, <2>1 DEF Freeze, Close, Revoke, Operate, NoClaim
<1>6. ASSUME NEW p \in Processes, ServerStep(p) PROVE AtWork(q, m)'
  <2>1. CASE LinkEnvelope(p) \/ UnlinkEnvelope(p) \/ CrashServer(p)
    BY <1>1, <2>1 DEF LinkEnvelope, UnlinkEnvelope, CrashServer, Goto, AtWork
  <2>2. ASSUME NEW l \in Leases, CheckClaimable(p, l) PROVE AtWork(q, m)'
    BY <1>1, <2>2 DEF CheckClaimable, Goto, AtWork
  <2>3. CASE ClaimLease(p)
    <3>1. work[p] \in Leases
      BY <2>3 DEF ClaimLease, TypeOK
    <3> QED BY <1>1, <2>3, <3>1 DEF ClaimLease, CanClaim, Goto, AtWork, TypedRows
  <2>4. CASE BindListener(p)
    BY <1>1, <2>4 DEF BindListener, Goto, AtWork
  <2>5. CASE AttestListener(p)
    <3>1. work[p] \in Leases /\ server[p] = "bound" /\ UNCHANGED <<owner, work>>
      BY <2>5 DEF AttestListener, TypeOK, NoClaim
    <3>2. CASE Goto(p, "failing") /\ UNCHANGED status
      BY <1>1, <3>1, <3>2 DEF Goto, AtWork
    <3>3. CASE /\ Goto(p, "serving") /\ owner[work[p]] = p
               /\ status[work[p]] = "claimed"
               /\ status' = [status EXCEPT ![work[p]] = "active"]
      BY <1>1, <3>1, <3>3 DEF Goto, AtWork, TypedRows
    <3> QED BY <2>5, <3>2, <3>3 DEF AttestListener
  <2>6. CASE RevokeAfterFailure(p)
    <3>1. work[p] \in Leases /\ server[p] = "failing" /\ UNCHANGED <<owner, work>>
          /\ Goto(p, "ended")
      BY <2>6 DEF RevokeAfterFailure, TypeOK, NoClaim
    <3>2. CASE Move(work[p], "revoked", "lease_revoked")
      BY <1>1, <3>1, <3>2 DEF Goto, Move, AtWork, TypedRows
    <3>3. CASE status[work[p]] \notin {"claimed", "active"} /\ UNCHANGED status
      BY <1>1, <3>1, <3>3 DEF Goto, AtWork
    <3> QED BY <1>2, <2>6, <3>1, <3>2, <3>3 DEF RevokeAfterFailure
  <2>7. CASE StopServer(p)
    <3>1. work[p] \in Leases /\ server[p] = "serving" /\ UNCHANGED <<owner, work>>
          /\ Goto(p, "ended")
      BY <2>7 DEF StopServer, TypeOK, NoClaim
    <3>2. CASE Move(work[p], "write_frozen", "lease_write_frozen")
      BY <1>1, <3>1, <3>2 DEF Goto, Move, AtWork, TypedRows
    <3>3. CASE status[work[p]] # "active" /\ UNCHANGED status
      BY <1>1, <3>1, <3>3 DEF Goto, AtWork
    <3> QED BY <1>2, <2>7, <3>1, <3>2, <3>3 DEF StopServer
  <2> QED BY <1>6, <2>1, <2>2, <2>3, <2>4, <2>5, <2>6, <2>7 DEF ServerStep
<1>7. ASSUME NEW p \in Processes, Request(p) PROVE AtWork(q, m)'
  <2>1. ASSUME NEW l \in Leases, ExpireLease(p, l) \/ FreezeOnRequest(p, l)
        PROVE  AtWork(q, m)'
    BY <1>4, <2>1 DEF ExpireLease, FreezeOnRequest, NoClaim
  <2>2. ASSUME NEW l \in Leases, NEW event \in CommandEvents, CommitCommand(p, l, event)
        PROVE  AtWork(q, m)'
    BY <1>1, <2>2 DEF CommitCommand, MayCommit, Move, AtWork, TypedRows, NoClaim
  <2> QED BY <1>7, <2>1, <2>2 DEF Request
<1>8. CASE UnguardedWrite \/ Backup \/ UNCHANGED vars
  BY <1>1, <1>8 DEF UnguardedWrite, Backup, vars, AtWork, NoClaim
<1>9. CASE Restore
  BY <1>9 DEF Restore, LeasesAreApart, AtRest, AtWork, LiveStatuses
<1> QED BY <1>3, <1>5, <1>6, <1>7, <1>8, <1>9 DEF Next

LEMMA OwnersInit == Init => OwnersAreAtWork
BY DEF Init, OwnersAreAtWork, AtWork

LEMMA OwnersAlwaysAtWork == Spec => []OwnersAreAtWork
<1>1. TypeOK /\ LeasesAreApart /\ CloseoutHasRoom /\ OwnersAreAtWork /\ [Next]_vars =>
        OwnersAreAtWork'
  BY AtWorkStep DEF OwnersAreAtWork
<1> QED BY <1>1, TypeCorrect, LeasesStayApart, CloseoutAlwaysHasRoom, OwnersInit, PTL DEF Spec

(* A server that failed to bind or attest, or was stopped, ends only after *)
(* its claimed or active lease is revoked or frozen: the except clauses of *)
(* the server start always find room for the event, so they do not fail.   *)
THEOREM EndedServersNeverHoldALease == Spec => []EndedServersHoldNoLease
<1>1. OwnersAreAtWork => EndedServersHoldNoLease
  BY DEF OwnersAreAtWork, AtWork, EndedServersHoldNoLease
<1> QED BY <1>1, OwnersAlwaysAtWork, PTL

-----------------------------------------------------------------------------
(* Envelopes.  The generation of a preflight tells an envelope that was    *)
(* taken before a restore from one that is written after it: that a path   *)
(* is free proves nothing, because a restore forgets the row of a lease    *)
(* and leaves its files.                                                   *)

(* What holds of the files, the row and the issuance of one lease.         *)
EnvelopeOf(l) ==
    /\ preflight[l] <= restores
    /\ waiting[l] # None => waiting[l].generation <= restores
    /\ claimed[l] # None => claimed[l].generation <= restores
    /\ issuing[l] # "no" => status[l] \notin LiveStatuses
    /\ claimed[l] = None => consumers[l] = {}
    /\ \A p, q \in consumers[l] : p = q
    /\ claimed[l] # None /\ status[l] = "absent" => restores > claimed[l].generation
    /\ claimed[l] # None /\ issuing[l] = "validated" => preflight[l] > claimed[l].generation
    /\ status[l] = "prepared" => waiting[l] = None \/ waiting[l] = expected[l]
    /\ status[l] \in ExclusiveStatuses =>
         /\ waiting[l] = None /\ claimed[l] # None
         /\ claimed[l] = expected[l] /\ consumers[l] = {owner[l]}

(* What holds of a server on its way to claim its lease.                   *)
CheckedBy(p, l) ==
    \/ claimed[l] # None
    \/ /\ waiting[l] # None /\ issuing[l] # "written"
       /\ status[l] = "absent" => restores > waiting[l].generation
       /\ issuing[l] = "validated" => preflight[l] > waiting[l].generation
LinkedBy(p, l) ==
    /\ p \in consumers[l] /\ claimed[l] # None
    /\ waiting[l] = claimed[l] /\ issuing[l] # "written"
MovedBy(p, l) ==
    /\ p \in consumers[l] /\ claimed[l] # None
    /\ waiting[l] # None => waiting[l].generation > claimed[l].generation
TakerAt(p, l) ==
    /\ server[p] = "checked" => CheckedBy(p, l)
    /\ server[p] = "linked" => LinkedBy(p, l)
    /\ server[p] = "moved" => MovedBy(p, l)

EnvelopesAreTakenOnce ==
    /\ \A l \in Leases : EnvelopeOf(l)
    /\ \A p \in Processes, l \in Leases : work[p] = l => TakerAt(p, l)

EnvelopeInvariant == LeasesAreApart /\ EnvelopesAreTakenOnce

LEMMA EnvelopeTypes ==
    ASSUME TypeOK, NEW l \in Leases
    PROVE  /\ waiting[l] # None => waiting[l].generation \in Nat
           /\ claimed[l] # None => claimed[l].generation \in Nat
           /\ preflight[l] \in Nat /\ restores \in Nat
BY DEF TypeOK, Envelopes

(* The steps of the issuing command.                                       *)
LEMMA IssuanceKeepsEnvelopes ==
    ASSUME EnvelopeInvariant, NEW l \in Leases, Issuance(l)
    PROVE  EnvelopesAreTakenOnce'
<1> USE DEF database, maintenance, files, processes, issuance
<1>1. /\ status \in [Leases -> LiveStatuses \cup TerminalStatuses \cup {"absent"}]
      /\ expected \in [Leases -> Envelopes \cup {None}]
      /\ waiting \in [Leases -> Envelopes \cup {None}]
      /\ issuing \in [Leases -> {"no", "validated", "written"}]
      /\ preflight \in [Leases -> Nat] /\ restores \in Nat
  BY SnapshotsAreOfTypedRows DEF EnvelopeInvariant, LeasesAreApart, TypeOK, TypedRows
<1>2. \A m \in Leases : /\ EnvelopeOf(m)
                        /\ waiting[m] # None => waiting[m].generation \in Nat
                        /\ claimed[m] # None => claimed[m].generation \in Nat
  BY EnvelopeTypes DEF EnvelopeInvariant, LeasesAreApart, EnvelopesAreTakenOnce
<1>3. \A p \in Processes, m \in Leases : work[p] = m => TakerAt(p, m)
  BY DEF EnvelopeInvariant, EnvelopesAreTakenOnce
<1>4. CASE ValidatePreflight(l)
  <2>1. ASSUME NEW m \in Leases PROVE EnvelopeOf(m)'
    BY <1>1, <1>2, <1>4 DEF ValidatePreflight, EnvelopeOf, LiveStatuses
  <2>2. ASSUME NEW p \in Processes, NEW m \in Leases, work'[p] = m PROVE TakerAt(p, m)'
    BY <1>1, <1>2, <1>3, <1>4, <2>2
       DEF ValidatePreflight, EnvelopeOf, TakerAt, CheckedBy, LinkedBy, MovedBy
  <2> QED BY <2>1, <2>2 DEF EnvelopesAreTakenOnce
<1>5. ASSUME NEW p \in Processes, WriteEnvelope(l, p) PROVE EnvelopesAreTakenOnce'
  <2>1. [process |-> p, generation |-> preflight[l]].generation = preflight[l]
    OBVIOUS
  <2>2. ASSUME NEW m \in Leases PROVE EnvelopeOf(m)'
    BY <1>1, <1>2, <1>5, <2>1 DEF WriteEnvelope, EnvelopeOf, LiveStatuses, ExclusiveStatuses
  <2>3. ASSUME NEW q \in Processes, NEW m \in Leases, work'[q] = m PROVE TakerAt(q, m)'
    BY <1>1, <1>2, <1>3, <1>5, <2>1, <2>3
       DEF WriteEnvelope, EnvelopeOf, TakerAt, CheckedBy, LinkedBy, MovedBy
  <2> QED BY <2>2, <2>3 DEF EnvelopesAreTakenOnce
<1>6. CASE InsertLease(l)
  <2>1. ASSUME NEW m \in Leases PROVE EnvelopeOf(m)'
    BY <1>1, <1>2, <1>6 DEF InsertLease, EnvelopeOf, LiveStatuses, ExclusiveStatuses
  <2>2. ASSUME NEW p \in Processes, NEW m \in Leases, work'[p] = m PROVE TakerAt(p, m)'
    BY <1>1, <1>2, <1>3, <1>6, <2>2
       DEF InsertLease, EnvelopeOf, TakerAt, CheckedBy, LinkedBy, MovedBy
  <2> QED BY <2>1, <2>2 DEF EnvelopesAreTakenOnce
<1>7. CASE IssuerCrash(l)
  <2>1. ASSUME NEW m \in Leases PROVE EnvelopeOf(m)'
    BY <1>1, <1>2, <1>7 DEF IssuerCrash, EnvelopeOf
  <2>2. ASSUME NEW p \in Processes, NEW m \in Leases, work'[p] = m PROVE TakerAt(p, m)'
    BY <1>1, <1>2, <1>3, <1>7, <2>2
       DEF IssuerCrash, TakerAt, CheckedBy, LinkedBy, MovedBy
  <2> QED BY <2>1, <2>2 DEF EnvelopesAreTakenOnce
<1> QED BY <1>4, <1>5, <1>6, <1>7 DEF Issuance

(* The steps that start no server on its way and touch no file: at most    *)
(* the statuses of live leases move on.                                    *)
LEMMA LaterStepsKeepEnvelopes ==
    ASSUME EnvelopeInvariant,
           UNCHANGED <<restores, files, issuance, owner, expected, consumers, work>>,
           \A q \in Processes :
             server'[q] \in {"checked", "linked", "moved"} => server'[q] = server[q],
           \A m \in Leases :
             \/ status'[m] = status[m]
             \/ /\ status[m] \in LiveStatuses /\ status'[m] \notin {"absent", "prepared"}
                /\ status'[m] \in ExclusiveStatuses => status[m] \in ExclusiveStatuses
    PROVE  EnvelopesAreTakenOnce'
<1> USE DEF files, issuance
<1>1. ASSUME NEW m \in Leases PROVE EnvelopeOf(m)'
  <2>1. EnvelopeOf(m)
    BY DEF EnvelopeInvariant, EnvelopesAreTakenOnce
  <2> QED BY <2>1 DEF EnvelopeOf, LiveStatuses
<1>2. ASSUME NEW q \in Processes, NEW m \in Leases, work'[q] = m PROVE TakerAt(q, m)'
  <2>1. TakerAt(q, m)
    BY <1>2 DEF EnvelopeInvariant, EnvelopesAreTakenOnce
  <2> QED BY <1>2, <2>1 DEF TakerAt, CheckedBy, LinkedBy, MovedBy
<1> QED BY <1>1, <1>2 DEF EnvelopesAreTakenOnce

(* The steps of a server that looks for an envelope, takes and claims it.  *)
LEMMA ClaimingKeepsEnvelopes ==
    ASSUME EnvelopeInvariant, NEW p \in Processes,
           \/ \E l \in Leases : CheckClaimable(p, l)
           \/ LinkEnvelope(p) \/ UnlinkEnvelope(p) \/ ClaimLease(p)
    PROVE  EnvelopesAreTakenOnce'
<1> USE DEF database, maintenance, files, processes, issuance
<1>1. /\ TypedRows
      /\ waiting \in [Leases -> Envelopes \cup {None}]
      /\ claimed \in [Leases -> Envelopes \cup {None}]
      /\ server \in [Processes -> Phases] /\ work \in [Processes -> Leases \cup {None}]
      /\ consumers \in [Leases -> SUBSET Processes]
      /\ server[p] # "idle" => work[p] \in Leases
  BY SnapshotsAreOfTypedRows DEF EnvelopeInvariant, LeasesAreApart, TypeOK
<1>2. \A m \in Leases : /\ EnvelopeOf(m)
                        /\ waiting[m] # None => waiting[m].generation \in Nat
                        /\ claimed[m] # None => claimed[m].generation \in Nat
  BY EnvelopeTypes DEF EnvelopeInvariant, LeasesAreApart, EnvelopesAreTakenOnce
<1>3. \A q \in Processes, m \in Leases : work[q] = m => TakerAt(q, m)
  BY DEF EnvelopeInvariant, EnvelopesAreTakenOnce
<1>4. ASSUME NEW l \in Leases, CheckClaimable(p, l) PROVE EnvelopesAreTakenOnce'
  <2>1. ASSUME NEW m \in Leases PROVE EnvelopeOf(m)'
    BY <1>2, <1>4 DEF CheckClaimable, EnvelopeOf
  <2>2. ASSUME NEW q \in Processes, NEW m \in Leases, work'[q] = m PROVE TakerAt(q, m)'
    <3>1. CASE q = p
      <4>1. /\ m = l
            /\ server'[p] \in {"checked", "ended"}
            /\ server'[p] = "checked" => waiting[l] # None /\ status[l] = "prepared"
        BY <1>1, <1>4, <2>2, <3>1 DEF CheckClaimable, Goto
      <4>2. issuing[l] = "no" \/ status[l] # "prepared"
        BY <1>2 DEF EnvelopeOf, LiveStatuses
      <4>3. UNCHANGED <<waiting, claimed, issuing, preflight, restores, status>>
        BY <1>4 DEF CheckClaimable
      <4>4. server'[p] = "checked" => CheckedBy(p, l)'
        BY <4>1, <4>2, <4>3 DEF CheckedBy
      <4> QED BY <3>1, <4>1, <4>4 DEF TakerAt
    <3>2. CASE q # p
      <4>1. work'[q] = work[q] /\ server'[q] = server[q]
        BY <1>1, <1>4, <3>2 DEF CheckClaimable, Goto
      <4> QED BY <1>3, <1>4, <2>2, <4>1
              DEF CheckClaimable, TakerAt, CheckedBy, LinkedBy, MovedBy
    <3> QED BY <3>1, <3>2
  <2> QED BY <2>1, <2>2 DEF EnvelopesAreTakenOnce
<1> DEFINE l == work[p]
<1>5. CASE LinkEnvelope(p) /\ waiting[l] # None /\ claimed[l] = None
  <2>1. /\ server[p] = "checked" /\ l \in Leases
        /\ claimed' = [claimed EXCEPT ![l] = waiting[l]]
        /\ consumers' = [consumers EXCEPT ![l] = consumers[l] \cup {p}]
        /\ server' = [server EXCEPT ![p] = "linked"]
        /\ UNCHANGED <<database, restores, waiting, issuing, preflight, work>>
    BY <1>1, <1>5 DEF LinkEnvelope, Goto
  <2>2. CheckedBy(p, l)
    BY <1>3, <2>1 DEF TakerAt
  <2>3. consumers[l] = {} /\ consumers'[l] = {p} /\ claimed'[l] = waiting[l]
    BY <1>1, <1>2, <1>5, <2>1 DEF EnvelopeOf
  <2>4. ASSUME NEW m \in Leases, m # l
        PROVE  claimed'[m] = claimed[m] /\ consumers'[m] = consumers[m]
    BY <1>1, <2>1, <2>4
  <2>5. EnvelopeOf(l)'
    BY <1>1, <1>2, <1>5, <2>1, <2>2, <2>3
       DEF CheckedBy, EnvelopeOf, LiveStatuses, ExclusiveStatuses
  <2>6. ASSUME NEW m \in Leases, m # l PROVE EnvelopeOf(m)'
    BY <1>2, <2>1, <2>4, <2>6 DEF EnvelopeOf
  <2>7. ASSUME NEW q \in Processes, NEW m \in Leases, work'[q] = m PROVE TakerAt(q, m)'
    <3>1. CASE q = p
      <4>1. m = l /\ server'[q] = "linked"
        BY <1>1, <2>1, <2>7, <3>1
      <4>2. LinkedBy(q, m)'
        BY <1>5, <2>1, <2>2, <2>3, <3>1, <4>1 DEF CheckedBy, LinkedBy
      <4> QED BY <4>1, <4>2 DEF TakerAt
    <3>2. CASE q # p /\ m = l
      <4>1. server'[q] = server[q] /\ TakerAt(q, m)
        BY <1>1, <1>3, <2>1, <2>7, <3>2
      <4>2. server[q] \notin {"linked", "moved"}
        BY <1>5, <3>2, <4>1 DEF TakerAt, LinkedBy, MovedBy
      <4>3. CheckedBy(q, m)'
        BY <1>5, <2>3, <3>2 DEF CheckedBy
      <4> QED BY <4>1, <4>2, <4>3 DEF TakerAt
    <3>3. CASE m # l
      <4>1. server'[q] = server[q] /\ TakerAt(q, m)
        BY <1>1, <1>3, <2>1, <2>7, <3>3
      <4>2. claimed'[m] = claimed[m] /\ consumers'[m] = consumers[m]
        BY <2>4, <3>3
      <4>3. UNCHANGED <<status, restores, waiting, issuing, preflight, work>>
        BY <2>1
      <4> QED BY <4>1, <4>2, <4>3 DEF TakerAt, CheckedBy, LinkedBy, MovedBy
    <3> QED BY <3>1, <3>2, <3>3
  <2> QED BY <2>1, <2>5, <2>6, <2>7 DEF EnvelopesAreTakenOnce
<1>6. CASE LinkEnvelope(p) /\ ~(waiting[l] # None /\ claimed[l] = None)
  <2>1. /\ UNCHANGED <<restores, files, issuance, owner, expected, consumers, work, status>>
        /\ server' = [server EXCEPT ![p] = "ended"]
    BY <1>6 DEF LinkEnvelope, Goto
  <2> QED BY <1>1, <2>1, LaterStepsKeepEnvelopes
<1>7. CASE UnlinkEnvelope(p)
  <2>1. /\ server[p] = "linked" /\ l \in Leases
        /\ waiting' = [waiting EXCEPT ![l] = None]
        /\ server' = [server EXCEPT ![p] = "moved"]
        /\ UNCHANGED <<database, restores, claimed, issuing, preflight, work, consumers>>
    BY <1>1, <1>7 DEF UnlinkEnvelope, Goto
  <2>2. LinkedBy(p, l)
    BY <1>3, <2>1 DEF TakerAt
  <2>3. \A m \in Leases : waiting'[m] = IF m = l THEN None ELSE waiting[m]
    BY <1>1, <2>1
  <2>4. ASSUME NEW m \in Leases PROVE EnvelopeOf(m)'
    BY <1>2, <2>1, <2>2, <2>3 DEF LinkedBy, EnvelopeOf
  <2>5. ASSUME NEW q \in Processes, NEW m \in Leases, work'[q] = m PROVE TakerAt(q, m)'
    <3>1. TakerAt(q, m) /\ work[q] = m
      BY <1>3, <2>1, <2>5
    <3>2. CASE q = p
      BY <1>1, <2>1, <2>2, <2>3, <3>1, <3>2 DEF TakerAt, LinkedBy, MovedBy
    <3>3. CASE q # p /\ m = l
      <4>1. server'[q] = server[q]
        BY <1>1, <2>1, <3>3
      <4>2. server[q] # "linked"
        BY <1>2, <2>1, <2>2, <3>1, <3>3 DEF TakerAt, LinkedBy, EnvelopeOf
      <4> QED BY <2>1, <2>2, <2>3, <3>1, <3>3, <4>1, <4>2
              DEF TakerAt, CheckedBy, LinkedBy, MovedBy
    <3>4. CASE m # l
      <4>1. server'[q] = server[q]
        BY <1>1, <2>1, <3>1, <3>4
      <4> QED BY <2>1, <2>3, <3>1, <3>4, <4>1 DEF TakerAt, CheckedBy, LinkedBy, MovedBy
    <3> QED BY <3>2, <3>3, <3>4
  <2> QED BY <2>4, <2>5 DEF EnvelopesAreTakenOnce
<1>8. CASE ClaimLease(p) /\ CanClaim(p, l)
  <2>1. /\ server[p] = "moved" /\ l \in Leases
        /\ status' = [status EXCEPT ![l] = "claimed"]
        /\ owner' = [owner EXCEPT ![l] = p]
        /\ server' = [server EXCEPT ![p] = "claimed"]
        /\ status[l] = "prepared" /\ expected[l] = claimed[l]
        /\ UNCHANGED <<expected, restores, waiting, claimed, issuing, preflight, work, consumers>>
    BY <1>1, <1>8 DEF ClaimLease, CanClaim, Goto
  <2>2. MovedBy(p, l) /\ EnvelopeOf(l)
    BY <1>2, <1>3, <2>1 DEF TakerAt
  <2>3. waiting[l] = None
    BY <1>2, <2>1, <2>2 DEF MovedBy, EnvelopeOf
  <2>4. consumers[l] = {p}
    BY <2>2 DEF MovedBy, EnvelopeOf
  <2>5. status'[l] = "claimed" /\ owner'[l] = p
    BY <1>1, <2>1 DEF TypedRows
  <2>6. EnvelopeOf(l)'
    BY <2>1, <2>2, <2>3, <2>4, <2>5 DEF MovedBy, EnvelopeOf, LiveStatuses
  <2>7. ASSUME NEW m \in Leases, m # l PROVE EnvelopeOf(m)'
    <3>1. status'[m] = status[m] /\ owner'[m] = owner[m]
      BY <1>1, <2>1, <2>7 DEF TypedRows
    <3> QED BY <1>2, <2>1, <3>1 DEF EnvelopeOf
  <2>8. ASSUME NEW q \in Processes, NEW m \in Leases, work'[q] = m PROVE TakerAt(q, m)'
    <3>1. TakerAt(q, m) /\ work[q] = m
      BY <1>3, <2>1, <2>8
    <3>2. server'[q] = server[q] \/ server'[q] = "claimed"
      BY <1>1, <2>1
    <3>3. status'[m] = "absent" => status[m] = "absent"
      BY <1>1, <2>1 DEF TypedRows
    <3>4. UNCHANGED <<restores, waiting, claimed, issuing, preflight, work, consumers>>
      BY <2>1
    <3> QED BY <3>1, <3>2, <3>3, <3>4 DEF TakerAt, CheckedBy, LinkedBy, MovedBy
  <2> QED BY <2>1, <2>6, <2>7, <2>8 DEF EnvelopesAreTakenOnce
<1>9. CASE ClaimLease(p) /\ ~CanClaim(p, l)
  <2>1. /\ UNCHANGED <<restores, files, issuance, owner, expected, consumers, work, status>>
        /\ server' = [server EXCEPT ![p] = "failing"]
    BY <1>9 DEF ClaimLease, Goto
  <2> QED BY <1>1, <2>1, LaterStepsKeepEnvelopes
<1> QED BY <1>4, <1>5, <1>6, <1>7, <1>8, <1>9

(* Restores: every envelope there is was written before this one.          *)
LEMMA RestoreKeepsEnvelopes ==
    ASSUME EnvelopeInvariant, Restore
    PROVE  EnvelopesAreTakenOnce'
<1> USE DEF files, processes, issuance
<1>1. /\ UNCHANGED <<waiting, claimed, issuing, preflight, server, work, consumers>>
      /\ restores' = restores + 1 /\ restores \in Nat
      /\ \A m \in Leases : status'[m] \notin LiveStatuses
  BY DEF Restore, EnvelopeInvariant, LeasesAreApart, AtRest, TypeOK
<1>2. ASSUME NEW m \in Leases
      PROVE  /\ EnvelopeOf(m) /\ preflight[m] \in Nat
             /\ waiting[m] # None => waiting[m].generation \in Nat
             /\ claimed[m] # None => claimed[m].generation \in Nat
  BY EnvelopeTypes DEF EnvelopeInvariant, LeasesAreApart, EnvelopesAreTakenOnce
<1>3. ASSUME NEW m \in Leases PROVE EnvelopeOf(m)'
  BY <1>1, <1>2 DEF EnvelopeOf, LiveStatuses, ExclusiveStatuses
<1>4. ASSUME NEW q \in Processes, NEW m \in Leases, work'[q] = m PROVE TakerAt(q, m)'
  <2>1. TakerAt(q, m)
    BY <1>1, <1>4 DEF EnvelopeInvariant, EnvelopesAreTakenOnce
  <2>2. server'[q] = "checked" => CheckedBy(q, m)'
    BY <1>1, <1>2, <2>1 DEF TakerAt, CheckedBy, EnvelopeOf
  <2> QED BY <1>1, <2>1, <2>2 DEF TakerAt, LinkedBy, MovedBy
<1> QED BY <1>3, <1>4 DEF EnvelopesAreTakenOnce

(* The moves that a lease makes once its server has taken its envelope.    *)
LEMMA MoveKeepsEnvelopes ==
    ASSUME EnvelopeInvariant, NEW l \in Leases, NEW to,
           status[l] \in LiveStatuses, to \notin {"absent", "prepared"},
           to \in ExclusiveStatuses => status[l] \in ExclusiveStatuses,
           status' = [status EXCEPT ![l] = to],
           UNCHANGED <<restores, files, issuance, owner, expected, consumers, work>>,
           \A q \in Processes :
             server'[q] \in {"checked", "linked", "moved"} => server'[q] = server[q]
    PROVE  EnvelopesAreTakenOnce'
<1>1. TypedRows
  BY SnapshotsAreOfTypedRows DEF EnvelopeInvariant, LeasesAreApart, TypeOK
<1>2. \A m \in Leases : status'[m] = IF m = l THEN to ELSE status[m]
  BY <1>1 DEF TypedRows
<1> QED BY <1>2, LaterStepsKeepEnvelopes

LEMMA LaterServerStepsKeepEnvelopes ==
    ASSUME EnvelopeInvariant, NEW p \in Processes,
           \/ BindListener(p) \/ AttestListener(p) \/ RevokeAfterFailure(p)
           \/ StopServer(p) \/ CrashServer(p)
    PROVE  EnvelopesAreTakenOnce'
<1> USE DEF database, maintenance, NoFacts, NoClaim
<1>1. server \in [Processes -> Phases] /\ (server[p] # "idle" => work[p] \in Leases)
  BY DEF EnvelopeInvariant, LeasesAreApart, TypeOK
<1> DEFINE Elsewhere == \A q \in Processes :
      server'[q] \in {"checked", "linked", "moved"} => server'[q] = server[q]
<1>2. ASSUME NEW phase \in {"bound", "failing", "serving", "ended", "crashed"}, Goto(p, phase)
      PROVE  Elsewhere
  BY <1>1, <1>2 DEF Goto
<1> HIDE DEF Elsewhere
<1>3. CASE BindListener(p) \/ CrashServer(p)
  <2>1. Elsewhere
    BY <1>2, <1>3 DEF BindListener, CrashServer
  <2>2. UNCHANGED <<status, restores, files, issuance, owner, expected, consumers, work>>
    BY <1>3 DEF BindListener, CrashServer
  <2> QED BY <2>1, <2>2, LaterStepsKeepEnvelopes DEF Elsewhere
<1>4. CASE AttestListener(p)
  <2>1. Elsewhere /\ work[p] \in Leases
    BY <1>1, <1>2, <1>4 DEF AttestListener
  <2>2. UNCHANGED <<restores, files, issuance, owner, expected, consumers, work>>
    BY <1>4 DEF AttestListener
  <2>3. CASE UNCHANGED status
    BY <2>1, <2>2, <2>3, LaterStepsKeepEnvelopes DEF Elsewhere
  <2>4. CASE status[work[p]] = "claimed" /\ status' = [status EXCEPT ![work[p]] = "active"]
    BY <2>1, <2>2, <2>4, MoveKeepsEnvelopes DEF Elsewhere, LiveStatuses, ExclusiveStatuses
  <2> QED BY <1>4, <2>3, <2>4 DEF AttestListener
<1>5. CASE RevokeAfterFailure(p)
  <2>1. Elsewhere /\ work[p] \in Leases
    BY <1>1, <1>2, <1>5 DEF RevokeAfterFailure
  <2>2. UNCHANGED <<restores, files, issuance, owner, expected, consumers, work>>
    BY <1>5 DEF RevokeAfterFailure
  <2>3. CASE UNCHANGED status
    BY <2>1, <2>2, <2>3, LaterStepsKeepEnvelopes DEF Elsewhere
  <2>4. CASE /\ status[work[p]] \in {"prepared", "claimed", "active"}
             /\ status' = [status EXCEPT ![work[p]] = "revoked"]
    <3>1. PICK l \in Leases : l = work[p]
      BY <2>1
    <3>2. status[l] \in LiveStatuses /\ "revoked" \notin ExclusiveStatuses
      BY <2>4, <3>1 DEF LiveStatuses, ExclusiveStatuses
    <3>3. status' = [status EXCEPT ![l] = "revoked"]
      BY <2>4, <3>1
    <3> QED BY <2>1, <2>2, <3>2, <3>3, MoveKeepsEnvelopes DEF Elsewhere
  <2> QED BY <1>5, <2>3, <2>4 DEF RevokeAfterFailure, Move
<1>6. CASE StopServer(p)
  <2>1. Elsewhere /\ work[p] \in Leases
    BY <1>1, <1>2, <1>6 DEF StopServer
  <2>2. UNCHANGED <<restores, files, issuance, owner, expected, consumers, work>>
    BY <1>6 DEF StopServer
  <2>3. CASE UNCHANGED status
    BY <2>1, <2>2, <2>3, LaterStepsKeepEnvelopes DEF Elsewhere
  <2>4. CASE /\ status[work[p]] = "active"
             /\ status' = [status EXCEPT ![work[p]] = "write_frozen"]
    BY <2>1, <2>2, <2>4, MoveKeepsEnvelopes DEF Elsewhere, LiveStatuses, ExclusiveStatuses
  <2> QED BY <1>6, <2>3, <2>4 DEF StopServer, Move
<1> QED BY <1>3, <1>4, <1>5, <1>6

LEMMA EnvelopeStep == EnvelopeInvariant /\ [Next]_vars => EnvelopeInvariant'
<1> SUFFICES ASSUME EnvelopeInvariant, [Next]_vars
             PROVE  EnvelopeInvariant'
  OBVIOUS
<1> USE DEF database, maintenance, processes
<1>1. LeasesAreApart'
  BY ApartStep DEF EnvelopeInvariant
<1>2. ASSUME NEW l \in Leases, Freeze(l) \/ Close(l) \/ Revoke(l)
      PROVE  EnvelopesAreTakenOnce'
  <2>1. UNCHANGED <<restores, files, issuance, owner, expected, consumers, processes>>
    BY <1>2 DEF Freeze, Close, Revoke, Operate, NoClaim
  <2>2. PICK to \in {"write_frozen", "closed", "revoked"} :
          /\ status[l] \in LiveStatuses /\ status' = [status EXCEPT ![l] = to]
          /\ to \in ExclusiveStatuses => status[l] \in ExclusiveStatuses
    BY <1>2 DEF Freeze, Close, Revoke, Operate, Move, LiveStatuses, ExclusiveStatuses
  <2> QED BY <2>1, <2>2, MoveKeepsEnvelopes
<1>3. ASSUME NEW p \in Processes, Request(p)
      PROVE  EnvelopesAreTakenOnce'
  <2>1. ASSUME NEW l \in Leases, ExpireLease(p, l) \/ FreezeOnRequest(p, l)
        PROVE  EnvelopesAreTakenOnce'
    <3>1. UNCHANGED <<restores, files, issuance, owner, expected, consumers, processes>>
      BY <2>1 DEF ExpireLease, FreezeOnRequest, NoClaim
    <3>2. PICK to \in {"write_frozen", "expired"} :
            status[l] = "active" /\ status' = [status EXCEPT ![l] = to]
      BY <2>1 DEF ExpireLease, FreezeOnRequest, Move
    <3>3. status[l] \in LiveStatuses /\ status[l] \in ExclusiveStatuses
      BY <3>2 DEF LiveStatuses, ExclusiveStatuses
    <3> QED BY <3>1, <3>2, <3>3, MoveKeepsEnvelopes
  <2>2. ASSUME NEW l \in Leases, NEW event \in CommandEvents, CommitCommand(p, l, event)
        PROVE  EnvelopesAreTakenOnce'
    <3>1. UNCHANGED <<restores, files, issuance, owner, expected, consumers, processes>>
      BY <2>2 DEF CommitCommand, NoClaim
    <3>2. status[l] = "active" /\ status' = [status EXCEPT ![l] = "active"]
      BY <2>2 DEF CommitCommand, MayCommit, Move
    <3> QED BY <3>1, <3>2, MoveKeepsEnvelopes DEF LiveStatuses, ExclusiveStatuses
  <2> QED BY <1>3, <2>1, <2>2 DEF Request
<1>4. ASSUME \/ \E l \in Leases : TimePasses(l)
             \/ UnguardedWrite \/ Backup \/ UNCHANGED vars
      PROVE  EnvelopesAreTakenOnce'
  <2>1. UNCHANGED <<status, restores, files, issuance, owner, expected, consumers, processes>>
    BY <1>4 DEF TimePasses, UnguardedWrite, Backup, vars, NoClaim
  <2>2. /\ UNCHANGED <<restores, files, issuance, owner, expected, consumers, work>>
        /\ server' = server /\ status' = status
    BY <2>1
  <2> QED BY <2>2, LaterStepsKeepEnvelopes
<1>5. ASSUME NEW l \in Leases, Issuance(l) PROVE EnvelopesAreTakenOnce'
  BY <1>5, IssuanceKeepsEnvelopes
<1>6. ASSUME NEW p \in Processes, ServerStep(p) PROVE EnvelopesAreTakenOnce'
  BY <1>6, ClaimingKeepsEnvelopes, LaterServerStepsKeepEnvelopes DEF ServerStep
<1>7. ASSUME Restore PROVE EnvelopesAreTakenOnce'
  BY <1>7, RestoreKeepsEnvelopes
<1>8. EnvelopesAreTakenOnce'
  BY <1>2, <1>3, <1>4, <1>5, <1>6, <1>7 DEF Next
<1> QED BY <1>1, <1>8 DEF EnvelopeInvariant

LEMMA EnvelopeInit == Init => EnvelopeInvariant
BY ApartInit
   DEF Init, EnvelopeInvariant, EnvelopesAreTakenOnce, EnvelopeOf, TakerAt, ExclusiveStatuses

(* An envelope is consumed by one process for good: two servers that both  *)
(* saw it waiting cannot both link it (claim_prepared_lease), and after a  *)
(* restore neither a path left claimed nor an older envelope left waiting  *)
(* lets a second process claim, activate or freeze the lease.              *)
THEOREM EnvelopesAreConsumedOnce == Spec => []EnvelopeConsumedOnce
<1>1. EnvelopeInvariant => EnvelopeConsumedOnce
  <2> SUFFICES ASSUME EnvelopeInvariant, NEW l \in Leases
               PROVE  /\ Cardinality(consumers[l]) <= 1
                      /\ status[l] \in ExclusiveStatuses =>
                           /\ waiting[l] = None /\ claimed[l] = expected[l]
                           /\ consumers[l] = {owner[l]}
    BY DEF EnvelopeConsumedOnce
  <2>1. EnvelopeOf(l)
    BY DEF EnvelopeInvariant, EnvelopesAreTakenOnce
  <2>2. Cardinality(consumers[l]) <= 1
    <3>1. CASE consumers[l] = {}
      BY <3>1, FS_EmptySet
    <3>2. ASSUME NEW p \in consumers[l] PROVE Cardinality(consumers[l]) <= 1
      <4>1. consumers[l] = {p}
        BY <2>1, <3>2 DEF EnvelopeOf
      <4> QED BY <4>1, FS_Singleton
    <3> QED BY <3>1, <3>2
  <2> QED BY <2>1, <2>2 DEF EnvelopeOf
<1> QED BY <1>1, EnvelopeInit, EnvelopeStep, PTL DEF Spec

=============================================================================
