--------------------------- MODULE ActivationLease ---------------------------
(***************************************************************************)
(* Activation Leases of the Work Item ledger                               *)
(* (runner/work_item_governance/activation.py, the write guard of          *)
(* service.py, the backup and restore of repository.py, and the server     *)
(* start and stop of runner/mcp_server.py).                                *)
(*                                                                         *)
(* An operator validates a preflight, writes a single-use envelope file    *)
(* and inserts a prepared lease.  A waiting server process moves the       *)
(* envelope to its claimed path with link and unlink, claims the lease,    *)
(* binds its port, attests its listener, and then serves commands.  Every  *)
(* command, its facts and the lease event that accounts for it are one     *)
(* transaction.  A command that does not fit freezes the lease instead.    *)
(* The ledger may be backed up and restored when no lease is live; files   *)
(* and processes are not part of a backup.                                 *)
(*                                                                         *)
(* A process serves once: a restarted process has another identity.        *)
(***************************************************************************)
EXTENDS Integers, Sequences, FiniteSets

CONSTANTS
    Leases,           \* activation lease ids, each with its own envelope paths
    Processes,        \* server processes
    None,
    MaxLeaseEvents,   \* DEFAULT_QUOTAS["maximum_lease_events"]
    MaxFacts,         \* the commands of the fixture that leave a fact
    MaxPlain,         \* bound: facts written without a guard
    MaxRestores       \* bound: restores

ASSUME LeaseAssumption ==
    /\ None \notin Processes
    /\ MaxLeaseEvents \in Nat /\ MaxLeaseEvents >= 5
    /\ MaxFacts \in Nat /\ MaxPlain \in Nat /\ MaxRestores \in Nat

VARIABLES
    \* the database: the rows of activation_leases ...
    status, version, usage, spent, owner, expected,
    log,              \* activation_lease_events, as a sequence of event types
    facts,            \* domain facts committed under each lease
    plain,            \* domain facts committed without a guard
    backup,           \* the pre-activation backup, or None
    restores,         \* restores so far (database_generation - 1)
    \* the files
    waiting,          \* the envelope at its waiting path, or None: the process
                      \* that it names and the generation of its preflight
    claimed,          \* the envelope at its claimed path, or None
    \* the operator and the servers
    issuing,          \* where the issuance of each lease stands
    preflight,        \* the database generation that its preflight observed
    clock,            \* the preflight is fresh or stale; the deadline is over
    server,           \* where each process stands
    work,             \* the lease that it was started for
    consumers         \* history: the processes that linked each envelope

database == <<status, version, usage, spent, owner, expected, log, facts, plain>>
maintenance == <<backup, restores>>
files == <<waiting, claimed>>
processes == <<server, work>>
issuance == <<issuing, preflight>>
vars == <<database, maintenance, files, issuance, clock, processes, consumers>>

-----------------------------------------------------------------------------
LiveStatuses == {"prepared", "claimed", "active", "write_frozen"}
(* The partial unique index idx_activation_single_live_lease.              *)
ExclusiveStatuses == {"claimed", "active", "write_frozen"}
TerminalStatuses == {"expired", "closed", "revoked"}

CommandEvents == {"command_committed", "domain_rejected"}
LeaseEventTypes == CommandEvents \cup
    {"lease_issued", "process_claimed", "listener_attested",
     "lease_write_frozen", "lease_expired", "lease_closed", "lease_revoked"}

Phases == {"idle", "checked", "linked", "moved", "claimed", "bound", "serving",
           "failing", "ended", "crashed"}

Envelopes == [process : Processes, generation : Nat]

Snapshots ==
    [status : [Leases -> LiveStatuses \cup TerminalStatuses \cup {"absent"}],
     version : [Leases -> Nat], usage : [Leases -> Nat], spent : [Leases -> Nat],
     owner : [Leases -> Processes \cup {None}],
     expected : [Leases -> Envelopes \cup {None}],
     log : [Leases -> Seq(LeaseEventTypes)],
     facts : [Leases -> Nat], plain : Nat]

Init ==
    /\ status = [l \in Leases |-> "absent"]
    /\ version = [l \in Leases |-> 0]
    /\ usage = [l \in Leases |-> 0]
    /\ spent = [l \in Leases |-> 0]
    /\ owner = [l \in Leases |-> None]
    /\ expected = [l \in Leases |-> None]
    /\ log = [l \in Leases |-> <<>>]
    /\ facts = [l \in Leases |-> 0]
    /\ plain = 0
    /\ backup = None
    /\ restores = 0
    /\ waiting = [l \in Leases |-> None]
    /\ claimed = [l \in Leases |-> None]
    /\ issuing = [l \in Leases |-> "no"]
    /\ preflight = [l \in Leases |-> 0]
    /\ clock = [l \in Leases |-> "fresh"]
    /\ server = [p \in Processes |-> "idle"]
    /\ work = [p \in Processes |-> None]
    /\ consumers = [l \in Leases |-> {}]

-----------------------------------------------------------------------------
(* business_fact_counts: _assert_fresh_baseline wants none.                *)
FreshBaseline == plain = 0 /\ \A l \in Leases : facts[l] = 0

(* The unique index admits one claimed, active or frozen lease.            *)
NoOtherLiveLeaseIgnored(l) == TRUE
NoOtherLiveLease(l) == \A m \in Leases \ {l} : status[m] \notin ExclusiveStatuses

(* _append_lease_event raises once the sequence exceeds the quota.         *)
HasRoom(l) == Len(log[l]) < MaxLeaseEvents

(* The row of l moves to a status and one event records it: the status,    *)
(* state_version and usage_json.lease_events of the row, and the event.    *)
MoveForgettingUsage(l, to, event) ==
    /\ status' = [status EXCEPT ![l] = to]
    /\ version' = [version EXCEPT ![l] = version[l] + 1]
    /\ usage' = usage
    /\ log' = [log EXCEPT ![l] = Append(log[l], event)]
Move(l, to, event) ==
    /\ status' = [status EXCEPT ![l] = to]
    /\ version' = [version EXCEPT ![l] = version[l] + 1]
    /\ usage' = [usage EXCEPT ![l] = usage[l] + 1]
    /\ log' = [log EXCEPT ![l] = Append(log[l], event)]

NoFacts == UNCHANGED <<spent, facts, plain>>
NoClaim == UNCHANGED <<owner, expected>>
Goto(p, phase) == server' = [server EXCEPT ![p] = phase]

-----------------------------------------------------------------------------
(* Issuance (issue_prepared_lease).                                        *)

(* The preflight, its database generation and its baseline are validated   *)
(* against the ledger before any transaction.                              *)
ValidatePreflight(l) ==
    /\ issuing[l] = "no" /\ status[l] = "absent" /\ backup # None
    /\ issuing' = [issuing EXCEPT ![l] = "validated"]
    /\ preflight' = [preflight EXCEPT ![l] = restores]
    /\ clock' = [clock EXCEPT ![l] = "fresh"]
    /\ UNCHANGED <<database, maintenance, files, processes, consumers>>

(* _atomic_write_envelope: O_EXCL, an existing envelope is an error.       *)
WriteEnvelope(l, p) ==
    /\ issuing[l] = "validated"
    /\ IF waiting[l] = None
         THEN /\ waiting' = [waiting EXCEPT ![l] = [process |-> p, generation |-> preflight[l]]]
              /\ issuing' = [issuing EXCEPT ![l] = "written"]
         ELSE /\ issuing' = [issuing EXCEPT ![l] = "no"]
              /\ UNCHANGED waiting
    /\ UNCHANGED <<database, maintenance, claimed, preflight, clock, processes, consumers>>

(* One transaction: fresh baseline, the row, and its first event.  Any     *)
(* failure removes the envelope again.                                     *)
InsertLease(l) ==
    /\ issuing[l] = "written"
    /\ issuing' = [issuing EXCEPT ![l] = "no"]
    /\ IF FreshBaseline /\ status[l] = "absent"
         THEN /\ status' = [status EXCEPT ![l] = "prepared"]
              /\ usage' = [usage EXCEPT ![l] = 1]
              /\ log' = [log EXCEPT ![l] = <<"lease_issued">>]
              /\ expected' = [expected EXCEPT ![l] = waiting[l]]
              /\ UNCHANGED waiting
         ELSE /\ waiting' = [waiting EXCEPT ![l] = None]
              /\ UNCHANGED <<status, usage, log, expected>>
    /\ UNCHANGED <<version, owner, maintenance, claimed, preflight, clock, processes, consumers>>
    /\ NoFacts

(* The issuing command dies: an envelope that it wrote stays behind.       *)
IssuerCrash(l) ==
    /\ issuing[l] # "no"
    /\ issuing' = [issuing EXCEPT ![l] = "no"]
    /\ UNCHANGED <<database, maintenance, files, preflight, clock, processes, consumers>>

-----------------------------------------------------------------------------
(* The server process (claim_prepared_lease, attest_listener, serve).      *)

(* The files and the row are looked at before the envelope is taken.       *)
CheckClaimableOfNone(p, l) ==
    /\ server[p] = "idle"
    /\ Goto(p, IF waiting[l] # None /\ claimed[l] = None /\ status[l] = "prepared"
                 THEN "checked" ELSE "ended")
    /\ UNCHANGED <<work, database, maintenance, files, issuance, clock, consumers>>
CheckClaimable(p, l) ==
    /\ server[p] = "idle"
    /\ work' = [work EXCEPT ![p] = l]
    /\ Goto(p, IF waiting[l] # None /\ claimed[l] = None /\ status[l] = "prepared"
                 THEN "checked" ELSE "ended")
    /\ UNCHANGED <<database, maintenance, files, issuance, clock, consumers>>

(* os.link: the claimed path must not exist.                               *)
LinkEnvelopeOverwriting(p) ==
    LET l == work[p] IN
    /\ server[p] = "checked"
    /\ IF waiting[l] # None
         THEN /\ claimed' = [claimed EXCEPT ![l] = waiting[l]]
              /\ consumers' = [consumers EXCEPT ![l] = consumers[l] \cup {p}]
              /\ Goto(p, "linked")
         ELSE Goto(p, "ended") /\ UNCHANGED <<claimed, consumers>>
    /\ UNCHANGED <<database, maintenance, waiting, issuance, clock, work>>
LinkEnvelope(p) ==
    LET l == work[p] IN
    /\ server[p] = "checked"
    /\ IF waiting[l] # None /\ claimed[l] = None
         THEN /\ claimed' = [claimed EXCEPT ![l] = waiting[l]]
              /\ consumers' = [consumers EXCEPT ![l] = consumers[l] \cup {p}]
              /\ Goto(p, "linked")
         ELSE Goto(p, "ended") /\ UNCHANGED <<claimed, consumers>>
    /\ UNCHANGED <<database, maintenance, waiting, issuance, clock, work>>

UnlinkEnvelope(p) ==
    /\ server[p] = "linked"
    /\ waiting' = [waiting EXCEPT ![work[p]] = None]
    /\ Goto(p, "moved")
    /\ UNCHANGED <<database, maintenance, claimed, issuance, clock, work, consumers>>

(* The process that reads the claimed envelope must be the one it names,   *)
(* the row still prepared for this envelope, its preflight fresh, the      *)
(* baseline empty, and no other lease live.                                *)
CanClaim(p, l) ==
    /\ claimed[l].process = p /\ status[l] = "prepared" /\ expected[l] = claimed[l]
    /\ clock[l] = "fresh" /\ FreshBaseline /\ NoOtherLiveLease(l)

ClaimLease(p) ==
    LET l == work[p] IN
    /\ server[p] = "moved"
    /\ IF CanClaim(p, l)
         THEN /\ status' = [status EXCEPT ![l] = "claimed"]
              /\ version' = [version EXCEPT ![l] = 1]
              /\ usage' = [usage EXCEPT ![l] = 2]
              /\ log' = [log EXCEPT ![l] = Append(log[l], "process_claimed")]
              /\ owner' = [owner EXCEPT ![l] = p]
              /\ Goto(p, "claimed")
         ELSE Goto(p, "failing") /\ UNCHANGED <<status, version, usage, log, owner>>
    /\ UNCHANGED <<expected, maintenance, files, issuance, clock, work, consumers>>
    /\ NoFacts

BindListener(p) ==
    /\ server[p] = "claimed"
    /\ \E phase \in {"bound", "failing"} : Goto(p, phase)
    /\ UNCHANGED <<database, maintenance, files, issuance, clock, work, consumers>>

(* The observed listeners match, and the claimed row is this process's.    *)
AttestListener(p) ==
    LET l == work[p] IN
    /\ server[p] = "bound"
    /\ \/ /\ status[l] = "claimed" /\ version[l] = 1 /\ owner[l] = p
          /\ status' = [status EXCEPT ![l] = "active"]
          /\ version' = [version EXCEPT ![l] = 2]
          /\ usage' = [usage EXCEPT ![l] = 3]
          /\ log' = [log EXCEPT ![l] = Append(log[l], "listener_attested")]
          /\ Goto(p, "serving")
       \/ Goto(p, "failing") /\ UNCHANGED <<status, version, usage, log>>
    /\ UNCHANGED <<maintenance, files, issuance, clock, work, consumers>>
    /\ NoFacts /\ NoClaim

(* The except clauses of claim, bind and attest: revoke in a transaction   *)
(* of its own; the errors of a lease that cannot be revoked are dropped.   *)
FailWithoutRevoking(p) ==
    /\ server[p] = "failing"
    /\ Goto(p, "ended")
    /\ UNCHANGED <<database, maintenance, files, issuance, clock, work, consumers>>
RevokeAfterFailure(p) ==
    LET l == work[p] IN
    /\ server[p] = "failing"
    /\ Goto(p, "ended")
    /\ IF status[l] \in {"prepared", "claimed", "active"} /\ HasRoom(l)
         THEN Move(l, "revoked", "lease_revoked")
         ELSE UNCHANGED <<status, version, usage, log>>
    /\ UNCHANGED <<maintenance, files, issuance, clock, work, consumers>>
    /\ NoFacts /\ NoClaim

(* The server stops: the listener is closed and its lease frozen.          *)
StopServer(p) ==
    LET l == work[p] IN
    /\ server[p] = "serving"
    /\ Goto(p, "ended")
    /\ IF status[l] = "active" /\ HasRoom(l)
         THEN Move(l, "write_frozen", "lease_write_frozen")
         ELSE UNCHANGED <<status, version, usage, log>>
    /\ UNCHANGED <<maintenance, files, issuance, clock, work, consumers>>
    /\ NoFacts /\ NoClaim

CrashServer(p) ==
    /\ server[p] \notin {"idle", "ended", "crashed"}
    /\ Goto(p, "crashed")
    /\ UNCHANGED <<database, maintenance, files, issuance, clock, work, consumers>>

-----------------------------------------------------------------------------
(* Commands (AuthoritativeCanaryGuard).  The guard of a serving process    *)
(* looks up the active lease of the ledger, whichever lease that is.       *)

(* begin_write and deny_command past the deadline.                         *)
ExpireLease(p, l) ==
    /\ server[p] = "serving" /\ status[l] = "active" /\ clock[l] = "over"
    /\ HasRoom(l)
    /\ Move(l, "expired", "lease_expired")
    /\ UNCHANGED <<maintenance, files, issuance, clock, processes, consumers>>
    /\ NoFacts /\ NoClaim

(* _freeze_and_raise: a request of a process that does not own the lease,  *)
(* a denied command, a command that does not match the fixture, a quota,   *)
(* or an outcome that differs from the reviewed one.                       *)
FreezeOnRequest(p, l) ==
    /\ server[p] = "serving" /\ status[l] = "active" /\ clock[l] # "over"
    /\ usage[l] < MaxLeaseEvents
    /\ Move(l, "write_frozen", "lease_write_frozen")
    /\ UNCHANGED <<maintenance, files, issuance, clock, processes, consumers>>
    /\ NoFacts /\ NoClaim

(* begin_write, authorize_new, the command and commit_new: the facts, the  *)
(* usage of the lease and its event are committed together.                *)
MayCommitIntoReserve(p, l) ==
    /\ server[p] = "serving" /\ status[l] = "active" /\ owner[l] = p
    /\ clock[l] # "over" /\ spent[l] < MaxFacts
    /\ usage[l] < MaxLeaseEvents
MayCommitForOwnLease(p, l) ==
    /\ server[p] = "serving" /\ work[p] = l /\ owner[l] = p
    /\ clock[l] # "over" /\ spent[l] < MaxFacts
    /\ usage[l] < MaxLeaseEvents - 2
MayCommit(p, l) ==
    /\ server[p] = "serving" /\ status[l] = "active" /\ owner[l] = p
    /\ clock[l] # "over" /\ spent[l] < MaxFacts
    /\ usage[l] < MaxLeaseEvents - 2

CommitCommand(p, l, event) ==
    /\ MayCommit(p, l)
    /\ Move(l, "active", event)
    /\ spent' = [spent EXCEPT ![l] = spent[l] + 1]
    /\ facts' = [facts EXCEPT ![l] = facts[l] + 1]
    /\ UNCHANGED <<plain, maintenance, files, issuance, clock, processes, consumers>>
    /\ NoClaim

(* An unguarded application write: the transaction itself looks for any    *)
(* activation lease.                                                       *)
NoLeaseEver == \A l \in Leases : status[l] = "absent"
NoLiveLease == \A l \in Leases : status[l] \notin LiveStatuses
NoLeaseClaimed == \A l \in Leases : status[l] \notin ExclusiveStatuses
MayWriteUnguardedUntilClaimed == NoLeaseClaimed
MayWriteUnguarded == NoLeaseEver

UnguardedWrite ==
    /\ MayWriteUnguarded /\ plain < MaxPlain
    /\ plain' = plain + 1
    /\ UNCHANGED <<status, version, usage, spent, log, facts>>
    /\ UNCHANGED <<maintenance, files, issuance, clock, processes, consumers>>
    /\ NoClaim

-----------------------------------------------------------------------------
(* The operator's own commands: freeze, close and revoke.  Each is         *)
(* idempotent and refuses every other status.                              *)
Operate(l, from, to, event) ==
    /\ status[l] \in from /\ HasRoom(l)
    /\ Move(l, to, event)
    /\ UNCHANGED <<maintenance, files, issuance, clock, processes, consumers>>
    /\ NoFacts /\ NoClaim

Freeze(l) == Operate(l, {"active"}, "write_frozen", "lease_write_frozen")
Close(l) == Operate(l, {"write_frozen"}, "closed", "lease_closed")
Revoke(l) == Operate(l, {"prepared", "claimed", "active"}, "revoked", "lease_revoked")

(* Time: the preflight is too old to be claimed, then the lease is over.   *)
(* Only a lease that is being issued or is live looks at it.               *)
TimePasses(l) ==
    /\ clock[l] # "over"
    /\ issuing[l] # "no" \/ status[l] \in LiveStatuses
    /\ clock' = [clock EXCEPT ![l] = IF clock[l] = "fresh" THEN "stale" ELSE "over"]
    /\ UNCHANGED <<database, maintenance, files, issuance, processes, consumers>>

(* backup_to and restore_from_backup, both under the maintenance lock.     *)
Snapshot ==
    [status |-> status, version |-> version, usage |-> usage, spent |-> spent,
     owner |-> owner, expected |-> expected, log |-> log, facts |-> facts,
     plain |-> plain]

Backup ==
    /\ NoLiveLease
    /\ backup' = Snapshot
    /\ UNCHANGED <<database, restores, files, issuance, clock, processes, consumers>>

Restore ==
    /\ backup # None /\ NoLiveLease /\ restores < MaxRestores
    /\ status' = backup.status /\ version' = backup.version
    /\ usage' = backup.usage /\ spent' = backup.spent
    /\ owner' = backup.owner /\ expected' = backup.expected
    /\ log' = backup.log /\ facts' = backup.facts /\ plain' = backup.plain
    /\ restores' = restores + 1
    /\ UNCHANGED <<backup, files, issuance, clock, processes, consumers>>

-----------------------------------------------------------------------------
Issuance(l) ==
    \/ ValidatePreflight(l) \/ InsertLease(l) \/ IssuerCrash(l)
    \/ \E p \in Processes : WriteEnvelope(l, p)

ServerStep(p) ==
    \/ LinkEnvelope(p) \/ UnlinkEnvelope(p) \/ ClaimLease(p)
    \/ BindListener(p) \/ AttestListener(p) \/ RevokeAfterFailure(p)
    \/ StopServer(p) \/ CrashServer(p)
    \/ \E l \in Leases : CheckClaimable(p, l)

Request(p) == \E l \in Leases :
    \/ ExpireLease(p, l) \/ FreezeOnRequest(p, l)
    \/ \E event \in CommandEvents : CommitCommand(p, l, event)

Next ==
    \/ \E l \in Leases : Issuance(l) \/ Freeze(l) \/ Close(l) \/ Revoke(l) \/ TimePasses(l)
    \/ \E p \in Processes : ServerStep(p) \/ Request(p)
    \/ UnguardedWrite \/ Backup \/ Restore

Spec == Init /\ [][Next]_vars

-----------------------------------------------------------------------------
(* Properties.                                                             *)

TypeOK ==
    /\ Snapshot \in Snapshots
    /\ backup \in Snapshots \cup {None}
    /\ restores \in Nat
    /\ waiting \in [Leases -> Envelopes \cup {None}]
    /\ claimed \in [Leases -> Envelopes \cup {None}]
    /\ issuing \in [Leases -> {"no", "validated", "written"}]
    /\ preflight \in [Leases -> Nat]
    /\ clock \in [Leases -> {"fresh", "stale", "over"}]
    /\ server \in [Processes -> Phases]
    /\ work \in [Processes -> Leases \cup {None}]
    /\ consumers \in [Leases -> SUBSET Processes]
    /\ \A p \in Processes : server[p] # "idle" => work[p] \in Leases

StatusAfter == [event \in LeaseEventTypes |->
    CASE event = "lease_issued" -> "prepared"
      [] event = "process_claimed" -> "claimed"
      [] event = "lease_write_frozen" -> "write_frozen"
      [] event = "lease_expired" -> "expired"
      [] event = "lease_closed" -> "closed"
      [] event = "lease_revoked" -> "revoked"
      [] OTHER -> "active"]

EventsAfter == [event \in LeaseEventTypes |->
    CASE event = "lease_issued" -> {"process_claimed", "lease_revoked"}
      [] event = "process_claimed" -> {"listener_attested", "lease_revoked"}
      [] event = "lease_write_frozen" -> {"lease_closed"}
      [] event \in {"lease_expired", "lease_closed", "lease_revoked"} -> {}
      [] OTHER -> CommandEvents \cup {"lease_write_frozen", "lease_expired", "lease_revoked"}]

CommandsIn(events) == {i \in DOMAIN events : events[i] \in CommandEvents}

(* The append-only events of a lease tell its whole story: they form a     *)
(* legal history, and the row's status, state_version and event usage are  *)
(* the ones that this history leads to, so that the closeout evidence      *)
(* (export_closeout_evidence) can be trusted.                              *)
RowFollowsItsEvents == \A l \in Leases :
    /\ usage[l] = Len(log[l])
    /\ IF log[l] = <<>>
         THEN status[l] = "absent" /\ version[l] = 0
         ELSE /\ log[l][1] = "lease_issued"
              /\ \A i \in 1 .. Len(log[l]) - 1 : log[l][i + 1] \in EventsAfter[log[l][i]]
              /\ status[l] = StatusAfter[log[l][Len(log[l])]]
              /\ version[l] = Len(log[l]) - 1

(* Every fact under a lease is accounted for by its usage and by one of    *)
(* its events; the facts of a ledger with leases all belong to one lease,  *)
(* and unguarded writes never mix with them (_reconcile,                   *)
(* _assert_fresh_baseline, _write_transaction).                            *)
FactsAreAccountedFor ==
    /\ \A l \in Leases :
         facts[l] = spent[l] /\ spent[l] = Cardinality(CommandsIn(log[l]))
    /\ \A l, m \in Leases : facts[l] > 0 /\ facts[m] > 0 => l = m
    /\ plain > 0 => \A l \in Leases : status[l] = "absent"

(* At most one lease is claimed, active or frozen, however servers and     *)
(* operators interleave.                                                   *)
OneLiveLease == \A l, m \in Leases :
    status[l] \in ExclusiveStatuses /\ status[m] \in ExclusiveStatuses => l = m

(* An envelope is taken by one process only, ever, across races, crashes   *)
(* and restores; and a lease that is claimed or later lives on an envelope *)
(* that its own process has taken and that nobody can take again.          *)
EnvelopeConsumedOnce == \A l \in Leases :
    /\ Cardinality(consumers[l]) <= 1
    /\ status[l] \in ExclusiveStatuses =>
         waiting[l] = None /\ claimed[l] = expected[l] /\ consumers[l] = {owner[l]}

(* Commands never use up the events that freezing and closing the lease    *)
(* need (the reserve of _authorize_new): no step finds the log full.       *)
CloseoutHasRoom == \A l \in Leases :
    /\ status[l] \in {"prepared", "claimed", "active"} => Len(log[l]) <= MaxLeaseEvents - 2
    /\ status[l] = "write_frozen" => Len(log[l]) <= MaxLeaseEvents - 1

(* A server that failed or stopped in an orderly way leaves no lease that  *)
(* it claimed or activated.                                                *)
EndedServersHoldNoLease == \A p \in Processes, l \in Leases :
    server[p] = "ended" /\ owner[l] = p => status[l] \notin {"claimed", "active"}

(* Within one database generation a lease that is over never changes, and  *)
(* a frozen lease gets no more facts, whatever its server still attempts.  *)
NothingAfterFreeze ==
    [][restores' = restores => \A l \in Leases :
         /\ status[l] \in TerminalStatuses =>
              status'[l] = status[l] /\ log'[l] = log[l] /\ facts'[l] = facts[l]
         /\ status[l] = "write_frozen" =>
              status'[l] \in {"write_frozen", "closed"} /\ facts'[l] = facts[l]]_vars
=============================================================================
