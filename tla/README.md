# Specifications of ColaMeta

ColaMeta lets a ChatGPT/GPTs conversation plan, start and review coding work
that local executors carry out.  This directory holds TLA+ models of the parts
of it in which the order of steps matters, the TLC runs that check them, and
theorems about them checked by TLAPS.  Paths below are relative to the
repository root.

## 1. The system

| Component | State it keeps | Operations |
|---|---|---|
| **Work Item ledger** (`runner/work_item_governance/service.py`, `contracts.py`, `principal.py`, `preview.py`, `repository.py`) | a SQLite database: Work Items, Task Versions, Attempts, Artifact References, Decisions, Gate and Audit Events, Acceptance Manifests, outbox; signed previews held by clients | create, revise, start/complete/import an Attempt, register an Artifact, decide, raise/clear a blocker, preview/apply a transition |
| **Executor runs** (`runner/mcp_executor_workflow.py`, `executor_run_claims.py`, `project_operation_lease.py`, `adapters/executor_process_supervisor.py`) | a claim file and an artifact file per preview, the project lease (an `flock`), background workers and their heartbeat threads, executor processes | run_once, run_bounded, heartbeat, reconcile orphaned claims |
| **Delivery receipts and outbox** (`service.py` 2196–2551) | delivery receipts, outbox and inbox events | create, retry, acknowledge, record a result, recover |
| **Activation** (`activation.py`, the write guard of `service.py`, `mcp_server.py` 2398–2511) | activation leases and their events, in the ledger's own database; single-use envelope files; the server that serves under a lease | issue, claim, attest, command, freeze, expire, close, revoke |
| **Backup, restore, migration** (`repository.py`) | database files, a maintenance lock, the database generation | backup, restore, migrate |
| **Runner state machine** (`state_machine.py`, `plan_reload_workflow.py`, `acceptance_workflow.py`, `continue_version_workflow.py`, `commit_state_workflow.py`, the state previews of `mcp_executor_workflow.py`) | one state document per project: version statuses, attempts, the current version; previews | run, accept, fix, continue, reload, register a validation, a recheck or a scope resolution |
| **Runner state persistence** (`state_store.py`, `state_mutation_gateway.py`, `state_mutation.py`) | the state file | load, checked save |
| **Project patches** (`mcp_project_patch.py`, `file_transaction.py`, `file_signature.py`) | the project's files; a preview file per patch; the plan and the preimages of a transaction, in memory | preview, apply: check, plan, commit, roll back |
| **Executor authority** (`fresh_executor_authority.py`, `executor_confirmation_store.py`, `confirmation_store.py`) | one-shot admissions and confirmations | issue, consume, expire |
| **Executor sessions** (`executor_session.py`, `adapters/`) | the protocol state of one provider process | start, send, stop |
| **Managed service** (`service_lifecycle_store.py`, `private_operator_health_ipc.py`, `mcp_private_operator.py`) | a lifecycle record under a lock | start, stop, probe |
| **MCP server** (`mcp_server.py`, `mcp_tool_catalog.py`, `mcp_oauth.py`), **Git/GitHub tools**, **validation runs**, **commander contract**, **planning**, **registry and observability**, **command line** | tokens; external git state; a record per validation run; plan documents; a registry file | routing, formatting, process and file I/O |

How they interact.  A client reaches everything through the MCP server.  An
executor run reads its preview's artifact, asks the ledger once whether the
Attempt may be dispatched, takes the project lease and starts an executor; its
worker writes the runner state when the executor is done.  The web console takes
the same lease for its operations; the MCP tools that reload a plan, continue to
the next version, record a commit or apply a state preview take none, and rely on
the stale-write check of the state file.  A patch of the
project's files takes no lease either and relies on the base signatures of its
preview.  The ledger is used by commands in any number of processes; the database transaction is the only thing they share.
Under an activation lease each of these transactions also advances the lease.

What makes each hard, and what must hold:

* *Ledger.*  Each command is one `BEGIN IMMEDIATE` transaction, but a transition
  is two commands: a preview that reads, and an apply, any time later, by which
  the row, its contract, its blockers, its evidence and the caller's authority
  may have changed.  No update may be lost; what an acceptance rests on may
  never be changed afterwards; every transition performed must be one that its
  principal may perform.
* *Executor runs.*  Requests in several threads and processes, a worker that
  outlives its request, a heartbeat thread with a join timeout, an operator who
  reconciles without the lease, read-modify-write of claim files, crashes.  Two
  executors never work on one project; a preview runs once; the lease comes
  back; a dead run stops looking alive.
* *Deliveries.*  Late, repeated and contradictory reports of one delivery.  Each
  counts once; an acknowledgement is of something delivered, and final.
* *Activation.*  A file, a row, a listening socket and an operator that move
  independently; crashes between the file and the row; a quota whose last units
  are needed to end the lease; a restore that brings rows back but no files.
  One live lease; an envelope used once; every fact accounted for; a lease that
  can always be closed; nothing after the freeze.
* *Runner state.*  Writers inside and outside the project lease; a stale-write
  check, a truncation and a write that are three steps; previews applied when
  the runner has moved on; plans edited between operations.  `updated_at` must
  identify the document; the version flow must leave no version behind.
* *Project patches.*  Files that are read three times, by the check, the plan and
  the preimage, while others write them; a transaction over several files that
  fails half-way; hunks whose line numbers are those of the old text.  A commit
  that is reported has made the whole patch and overwritten nothing newer than
  its preview; a rollback that is reported has undone it.

`PROJECT.json` lists each hazard at its source line with the properties that
cover it.

## 2. Modules

| Module | What it is |
|---|---|
| `WorkItemLifecycle` | abstract specification: what a reader of the ledger may rely on |
| `WorkItemLedger` | the ledger's commands; implements `WorkItemLifecycle` |
| `WorkItemLedgerProofs` | theorems about `WorkItemLedger` |
| `ExecutorClaims` | executor runs: claim, lease, worker, heartbeat, reconciliation, crash |
| `ExecutorClaimsProofs` | theorems about `ExecutorClaims` |
| `ActivationLease` | activation leases: envelope, claim, attestation, guarded commands, crash, backup and restore |
| `ActivationLeaseProofs` | theorems about `ActivationLease` |
| `DeliveryPromise` | abstract specification: what a delivery receipt promises its clients |
| `Deliveries` | receipts, outbox and inbox; implements `DeliveryPromise` |
| `DeliveriesProofs` | theorems about `Deliveries` |
| `ProjectPatch` | patches of project files: texts and hunks, previews, applies, the file transaction |
| `RecursionLemmas` | induction over natural numbers and recursive functions, stated for sets so that the prover can use it |
| `ProjectPatchProofs` | theorems about `ProjectPatch` |
| `RunnerStateMachine` | what the version flow does to a state document: operators without state |
| `RunnerState` | the state file and the operations that load, check and rewrite it; extends `RunnerStateMachine` |
| `RunnerStateProofs` | theorems about `RunnerState` |
| `MC…` | constants and symmetries for the model checker |

No specification has a RECURSIVE operator, so all of them can be proved about.

### WorkItemLedger

| Model | Code |
|---|---|
| `work_items`, `attempts`, `artifact_refs`, `decision_records`, `gate_events`, `acceptance_manifests` | the tables of those names: functions from identifier to row; a row whose `work_item` is `Absent` (or whose state is `"absent"`) has not been inserted |
| `task_versions` | not a variable: versions are appended one by one in the transaction that advances `current_task_version`, so the table holds exactly `1 .. current_task_version` (`TaskExists`) |
| `blockers[w][b]` | the Task Version named by the latest blocker event of `b`, 0 when that event clears it (`_active_blocker_rows`) |
| `previews` | the signed commands that clients hold; an expired or applied one is gone |
| `audit_events`, `outbox_events` | which events were recorded |
| one action per command | one transaction; a command that raises is a disabled action, a replay is a stuttering step |
| `ExpirePreview` | the preview's time to live runs out |
| `Eligible` and its eight conjuncts | the checks of `_evaluate_transition`, one operator each |
| `ApplyTransition`, `RejectTransition` | the two outcomes of `_apply_work_item_transition_transaction` |

Statuses that no command tells apart are merged (`claimed`/`running` into
`active`; `completed`/`failed`/`cancelled` into `ended`).  A preview that has
been applied is removed: its Gate Event, keyed by the preview, makes any further
apply a replay.  Identifiers are drawn from finite sets in a fixed order
(`new_stable_id`), because a generated identifier says nothing but that it is
new.

Left out: the shadow gate mode, payload digests and columns that no command
reads, and migration.  The activation guard, deliveries and backups are modelled
in modules of their own.

### ExecutorClaims

| Model | Code |
|---|---|
| `claims[p]` | the claim file of preview `p`; `unreadable` between `os.open(O_CREAT\|O_EXCL)` and the write of the record; `fresh` is "last heartbeat within the timeout" |
| `artifacts` | preview artifacts that exist and have not expired |
| `lease` | who holds the `flock` of `ProjectOperationLease`; `Other` is any operation outside this module (web console, commit, ...) |
| `pc[c]` | where request `c`, then its worker, stands; each label is a place where another thread or process may come in between |
| `loaded[c]` | the status that a read-modify-write of the claim has read |
| `heartbeat[c]` | its heartbeat thread: `waiting` for the stop event, `writing` (has read RUNNING, has not replaced the file yet) or `off` |
| `stray` | executors that outlived their server |
| `candidates`, `reconciling` | a reconcile request between its preview, its check of one claim and the write |

`ValidatePreview` … `StartWorker` are the steps of the request, `StartHeartbeat`
… `ReleaseLease` those of the worker with its `finally` blocks; `run_bounded`
enters at `running` and has no heartbeat thread.  `faults` is chosen once from
`FaultModes`: with `"stall"`, `join(timeout)` may leave a thread behind that is
stuck in a write; with `"write"`, every write and unlink may fail.  `Crash(s)`
kills all threads of a server, releases its `flock` and may leave its executors
running.

The work of an executor is one step that returns ok, returns not ok, or raises.
What the run writes to the runner state is in `RunnerState`.

### ActivationLease

| Model | Code |
|---|---|
| `status`, `version`, `usage`, `spent`, `owner`, `expected` | the row of `activation_leases`: status, state_version, `usage_json.lease_events`, the other quotas as one counter, the claimed process, the envelope digest |
| `log[l]` | the rows of `activation_lease_events`; `Move` is an UPDATE with `_append_lease_event` |
| `facts`, `plain` | domain facts written under a lease, and by a service without the guard |
| `waiting`, `claimed` | the envelope at its two paths; `LinkEnvelope` and `UnlinkEnvelope` are the two halves of `_claim_file_no_replace` |
| `issuing` | `issue_prepared_lease` between its checks, the envelope and its transaction |
| `server[p]` | a server process from looking at its lease to serving, failing, ending or crashing |
| `clock[l]` | `fresh`: the preflight may still be claimed; `over`: past the deadline |
| `backup`, `Restore` | the whole database; envelopes and processes are not part of it |
| `MayCommit` | `begin_write` and `authorize_new` succeed; `FreezeOnRequest`, `ExpireLease` are their other outcomes |

A command that passes is one transaction with its facts and its lease event
(`CommitCommand`).  A reconciliation failure inside it rolls everything back and
freezes, which is `FreezeOnRequest` again.  The fixture is abstracted to a number
of commands, `MaxFacts`.  An unguarded service of a project that is marked for
the canary is refused earlier and only writes less.

### Deliveries

| Model | Code |
|---|---|
| `receipts`, `outbox` | status, `attempt_count` and the delay to `next_attempt_at` of `delivery_receipts` and `outbox_events`; an outbox event is named by its `dedupe_key` |
| `inbox[source][key]` | `inbox_events`: the payload digest received from a source under a key |
| a known key | the same payload replays, another conflicts; neither changes anything, so both are stuttering |
| `AckSources` | what clients name as the source of an acknowledgement: any text, in the runs also `delivery_retry`, the name the ledger itself uses |
| `RetryDelay` | `min(3600, 2 ** min(attempts, 12))` with the two numbers as constants |

### RunnerStateMachine and RunnerState

| Model | Code |
|---|---|
| a document | `status`, `current` and `index` (both name the current version), `attempt`, the order of `versions` and the status of each |
| `file` | `.colameta/state.json`: whole, `Empty` (truncated by `open(…, "w")`) or `Garbled` |
| `updated_at` | a stamp: every operation draws a new one but the save after the provider, which repeats the one it loaded |
| `Begin`, `_check_stale`, `OpenStateFile`, `save_state` | load and change a copy; compare `updated_at`; truncate; write |
| `writers[w]` | the operation a thread or process is in; an executor run goes through up to three saves |
| `lease` | `ProjectOperationLease`: runs and the web console hold it, MCP tools do not (`reload_plan(w, FALSE)`) |
| `previews`, `Unchanged` | preview artifacts, and what an apply compares again before it saves |
| `reports` | versions with an executor run report, which rechecks and scope resolutions need; bootstrapping a plan keeps old ones (`OldReports`) |
| `EditPlan` | `plan.json` changes outside these operations |
| `strayed` | history: a `scope_mismatch_apply` was for another version than the current one |

Operators that find their runtime by index and those that find it by name are
kept apart, because the two may disagree.  Statuses that these operations never
write are left out.  What a report, a validation run, Git or a provider says is
nondeterministic.

### ProjectPatch

| Model | Code |
|---|---|
| `disk[p]` | a file: its lines as `read_text` gives them, whether their endings are CRLF (which no write keeps), its mode |
| a patch | the sections of a unified diff, or the one replacement, new file or deletion of the other modes; a line is a value, a hunk its old start, old count and the lines that it leaves |
| `Splice`, `Cut` | one hunk on a list of lines, with Python's slices: index -1 is one before the end |
| `previews[v]` | the stored preview with `base_signatures` (the text stands for its digest) and `create_files`; an apply does not use it up |
| `requests[r].at` | where an apply stands: `check` one file after the other, `plan` one section after the other, then `read` a preimage and `write` for each operation, or `rollback` |
| `preimages` | first preimage of each path (`setdefault`) |
| `checked`, `others` | history: what the check found, and which paths others wrote since |
| `FailOperation`, `FailRollback` | an exception of any read or write before its `os.replace` or `unlink`; `Crash` leaves everything as it is |

A preview is one step although it reads a file up to twice: only its last read is
kept.  Paths, sizes and limits, the time to live of a preview (it only refuses an
apply) and directories are left out.  A step that replaces a file and one that
restores its mode afterwards are one.

## 3. Runs

| Run | Question | Bounds | States |
|---|---|---|---|
| `ledger_evidence` | does what an acceptance rests on stay true for ever, are finished Work Items frozen, does the ledger implement the lifecycle? | one Work Item, an Attempt, an Artifact, two Decisions (one may supersede the other), two Task Versions, one preview in flight that may name a Task Version that is still to come, six in all: the longest path submits, returns, revises, resubmits and accepts | 531,000 |
| `ledger_races` | can two previews of one state both be applied, a retried key be answered twice, a blocker be passed, a transition be performed by a principal that may not? | two previews in flight, one key, a revision, a blocker, a rejected Gate, clients that guess one state version ahead; two principals with disjoint permissions, where `in_delivery` is reached by starting and by returning, which need different ones | 2,060,000 |
| `claims_faulty` | do executors exclude each other, does a preview run once, does its claim tell the truth? | three requests, two of them for one preview in two processes and one `run_bounded`; one crash; with both kinds of fault and with none | 3,700,000 |
| `claims_progress` | is the lease always given back, does a run that is over stop looking alive? | a `run_once` and a `run_bounded`, one crash; stalled heartbeats or failing writes | 373,000 |
| `claims_reconcile` | does the reconciliation end only orphans? (no, see 6) | one `run_once` | |
| `claims_stray` | does the lease keep executors apart from other operations, crash included? (no, see 6) | three requests, one crash | |
| `activation` | is there one live lease, one use of an envelope, a lease event for every fact, room to close? | two leases, two servers, seven events (two more than issuing, claiming, attesting, freezing and closing need), three commands, one unguarded fact, one restore | 2,500,000 |
| `deliveries` | does each report count once, and do receipts keep `DeliveryPromise`? | two receipts, two keys, acknowledgements in two sources, one of which the ledger also uses; delays capped at 3 after two failures | 70,000 |
| `patches` | has a commit made the whole patch, has a rollback undone it? | two applies of up to two previews; three files, one with CRLF and executable, one absent; six patches, two of them over two files and one with two sections for one file; one write by somebody else, two failing operations, crashes | 1,050,000 |
| `patch_drift` | does a patch have the effect that its preview shows? (no, see 6) | one apply of a patch with two hunks, the first of which adds a line | |
| `runner` | does `updated_at` identify the document, do leased writers compose, does the version flow leave no version behind? | two writers, two versions, a plan that grows from one version to a second one switched off and then on, a report of an earlier plan, three values of `updated_at`, one preview waiting, two attempts | 1,780,000 |
| `runner_skips` | does continuing leave only versions that have passed? (no, see 6) | one writer, a plan of two versions, four values of `updated_at` | |

Why the bounds are enough to be interesting: every property relates at most two
previews, Decisions, requests, leases, receipts or writers, and each configuration
has that many of them plus whatever the shortest violation of a broken variant
needs (`PROJECT.json` gives, for each property, a plausible defect of the code
that the same configuration exposes).

Bounds of the model, not of the code: `MaxTaskVersion`, `MaxInFlight`, `MaxCited`,
`MaxRejected`, `AheadTask`, `AheadState`, `MaxCrashes`, `MaxPlain`, `MaxRestores`,
`MaxStamps`, `MaxPreviews`, `AttemptCap`, `MaxEdits`, `MaxFailures`.  `MaxLeaseEvents` (40 in the code),
`MaxFacts`, `DelayCap` (3600), `ExponentCap` (12) and `MaxFixAttempts` are the
code's own limits with small values.  The identifier sets are finite as well, so
every model comes to a stop when it has run out of identifiers, keys, processes
or stamps; this is why deadlock is not checked.

Symmetry is used where identifiers are interchangeable and only safety is checked
(leases and processes, receipts and keys, writers, applies).  In the ledger identifiers are
drawn with CHOOSE, which is not symmetric, and `claims_progress` checks liveness.

`RunningClaimsHoldLease` and `EndedRunsAreReported` speak of behaviours with
`faults = {}`: with a stalled heartbeat or a failed write they do not hold, and
`OverRunsStopLookingAlive` says what is left.  `CommittedIsPatched` and
`RolledBackIsRestored` speak of files that nobody else has written since the
apply checked them: what is written later can be overwritten or undone, and the
code promises nothing else.

Fairness (`FairSpec` of `ExecutorClaims`): each request, worker and heartbeat
thread that can take a step eventually does, because the operating system
schedules threads; the executor returns, because
`adapters/executor_process_supervisor.py` kills it at a deadline; a heartbeat
that is not refreshed becomes old, because time passes.  Nobody is assumed to
reconcile, to retry, to start a request or to let an artifact expire.  In the
other modules nothing has to happen: clients, operators and servers act when they
like, and the code schedules no retry of its own, so no liveness is claimed.

## 4. Proofs

| Theorem | Says | Invariant |
|---|---|---|
| `WorkItemLedgerProofs!TypeCorrect` | `[]TypeOK` | itself |
| `…!TerminalItemsAreFrozen` | `TerminalFrozen`, an action property | `TypeOK`: each action is guarded by the state of the row it would change |
| `…!CompareAndSwapIsSound` | `[]OneApplyPerStateVersion` | an applied Gate's `expected_state_version` is below the row's current `state_version`; the row's version never falls, so a second apply with the same expectation fails the comparison |
| `…!AcceptedVersionsAreQuiet` | `[]NoLiveAttemptOnAcceptedVersion` | itself with `TypeOK`: acceptance finds no active runtime Attempt and none starts afterwards |
| `…!TransitionsAreAuthorized` | `[]AppliedGatesAuthorized` | `PreviewsPermitted`: the authority that a preview carries is one its principal was granted, and a preview that a Gate has used is gone, so nobody can change what the Gate rested on |
| `…!KeysAreAnsweredOnce` | `[]OneGatePerKey` | itself with `TypeOK`: a Gate is inserted under a key only if no Gate has it |
| `…!ChangesAreVersioned` | `RowChangesAreVersioned`, an action property | `TypeOK`: every command that touches the row counts it up |
| `…!BlockersAlwaysHold` | `BlockersHold`, an action property | `TypeOK`: an apply evaluates the blockers of the row it changes, in the same transaction |
| `…!SubmissionsArePinned` | `[]SubmissionPinned` | itself with `TypeOK` and the invariant of the compare-and-swap: a submitted row changes by a transition only, and revising it is refused |
| `…!AcceptancesAreSound` | `[]AcceptanceSound` | itself with `TypeOK` and the invariant of the compare-and-swap: Decisions and Artifact References are never rewritten, and an accepted Work Item gets no Decision that could supersede a cited one |
| `…!LedgerImplementsLifecycle` | `ImplementsLifecycle`: `Spec` implements `WorkItemLifecycle!Spec` | `TypeOK`; each command is a step of the lifecycle or leaves it alone |
| `ExecutorClaimsProofs!TypeCorrect` | `[]TypeOK` | itself |
| `…!RunsExcludeEachOther` | `[]ProviderExclusive` | `HoldersHoldLease`: a request between acquiring the lease and releasing it is its holder.  `ProviderExclusive` alone is not inductive: it says nothing of a request that is about to run |
| `…!PreviewsRunOnce` | `[]RunsOncePerPreview` | with `HoldersHoldLease`, `OwnersOwnClaim`: a request past the creation of the claim file, or in `ran`, is the one whose claim file it is.  It rests on `O_EXCL` and on claim files never being deleted after their record was written |
| `…!EndedRunsAlwaysReported`, `…!RunningClaimsAlwaysHoldLease` | `[]EndedRunsAreReported`, `[]RunningClaimsHoldLease` | `FaultlessInv`: without stalls and failed writes, what a heartbeat or a finalization has loaded still says what the claim file says, no heartbeat outlives the join, and a claim is RUNNING exactly while its request is between marking and finalizing it or has died; reconciliation is one of the writers it covers |
| `ActivationLeaseProofs!TypeCorrect` | `[]TypeOK` | itself |
| `…!RowsAlwaysFollowTheirEvents` | `[]RowFollowsItsEvents` | `LedgerIsTold`: the same of the backup, which a restore makes the ledger |
| `…!OneLiveLeaseAlways` | `[]OneLiveLease` | `LeasesAreApart`: with `AtRest`, no lease of a backup is live, because a backup waits for none to be |
| `…!NothingHappensAfterFreeze` | `NothingAfterFreeze`, an action property | `TypeOK`: each command looks its lease up in the transaction that commits it |
| `…!CloseoutAlwaysHasRoom` | `[]CloseoutHasRoom` | itself with `LeasesAreApart` |
| `…!FactsAlwaysAccountedFor` | `[]FactsAreAccountedFor` | `FactsInvariant`: the same of the backup, and a lease that is live leaves all others without facts |
| `…!EndedServersNeverHoldALease` | `[]EndedServersHoldNoLease` | `OwnersAreAtWork`: a claimed or active lease belongs to a process that has not ended; it needs `CloseoutHasRoom`, without which the revocation after a failure could itself fail |
| `…!EnvelopesAreConsumedOnce` | `[]EnvelopeConsumedOnce` | `EnvelopeInvariant`: where the envelope of a lease can be for each status of it and each step of its taker, also after a restore |
| `DeliveriesProofs!TypeCorrect` | `[]TypeOK` | itself; the delay stays capped because powers of two never fall |
| `…!NothingIsForgotten` | `[]DueIffScheduled` | itself with `TypeOK` |
| `…!AcknowledgementsAreOfDeliveries` | `[]AcknowledgedWasDelivered` | itself with `TypeOK`: the inbox only grows |
| `…!AttemptsCountReports` | `[]AttemptsMatchInbox` | `Counted`: the reports about each delivery and outbox event are a finite set as large as its attempts, and nothing is reported of what does not exist yet |
| `…!ReceiptsKeepPromise` | `KeepsPromise`: `Spec` implements `DeliveryPromise!Spec` | `TypeOK`; each action is a step of the promise or leaves every receipt's part of it alone |
| `ProjectPatchProofs!TypeCorrect` | `[]TypeOK` | `Consistent`: what an apply holds at each stage (`Staged`): which files it has checked, what its plan and its preimages are about and how far it has got |
| `…!RolledBackFilesAreRestored` | `[]RolledBackIsRestored` | with `Consistent`, `FilesAreKept`: of a file that nobody else has written since the apply checked it, the first preimage is what the check found, and what is on disk is that or what the operations applied so far put there |
| `…!CommittedFilesArePatched` | `[]CommittedIsPatched` | the same two; and `InPlaceHunksMakeTheText`, about the recursive function `AfterHunks`: hunks in place, applied one after the other with the code's slices, give the text that the patch asks for |
| `RunnerStateProofs!UpdatedAtAlwaysNamesTheDocument` | `[]UpdatedAtNamesTheDocument` | `StampInv`: of all the `updated_at` in the file and in the operations in progress, loaded or to be saved, equal ones belong to equal documents.  The save after the provider repeats a stamp, so freshness of stamps is not enough: it repeats the document too |
| `…!LeasedSavesAlwaysCompose` | `LeasedSavesCompose`, an action property | `StampInv`: while the last write was by a holder of the lease, a leased operation that has not saved yet loaded what that write left |
| `…!TypeCorrect` | `[]TypeOK`, for `PlansGrow` | `DocumentsFollow`: the versions of every document are the first of the plan, and its name and its index of the current version agree; one lemma for each operator of the version flow |
| `…!CompletedAlwaysHasNothingPending` | `CompletedHasNothingPending`, an action property, for `PlansGrow` | `DocumentsFollow` |
| `…!SkippingNeedsAStrayResolution` | `OnlyStrayRefreshSkipsVersions`, an action property, for `PlansGrow` | with `DocumentsFollow`, `DocumentsStraight`: until a scope resolution strays, in every document only the current version is failed or blocked and a runner that is passed or out of scope says so of it; every preview that registers a pass saw a failed or blocked version, so the version is the current one of whichever document it is applied to, although the apply does not look |

They hold for every value of the constants that satisfies the named assumptions
(`PolicyAssumption`, `ClaimAssumption`, `LeaseAssumption`, `DeliveryAssumption`,
`NoneAssumption`, `PowerAssumption`, `PatchAssumption`, `RunnerAssumption`,
`StateAssumption`): any number of Work Items, previews, principals, requests,
servers, leases, receipts, keys, files, patches, versions and writers, any grant of
permissions, any texts and hunks, any number of crashes, faults and restores.  The
assumptions say only that the policy tables, patches and initial files have their
types, that the null values are none of the identifiers and payloads, that bounds
are naturals, and (`PowerAssumption`) that powers of two are positive numbers, which
the prover does not know; TLC evaluates each of them.

Three theorems of `RunnerStateProofs` suppose more, in their statement: `PlansGrow`,
that plans are valid, list no version twice and are edited by appending versions
and switching them on and off.  Without it they are false of the code: when
somebody inserts a version before the current one, `continue_next_version` aligns
the runtimes with the new plan and goes on from the old index; and when the
current version, passed, leaves the plan, reloading gives its place, and
VERSION_PASSED, to the version that follows it (`plan_reload_workflow.py:145`).
The plan tools, which can insert, realign the state in the same call
(`planning_bridge.py:779`); a hand-made edit of `plan.json` does not.
`MCRunnerState` has `PlansGrow` evaluated for the plans of the runs.

What the proofs changed in the models.  `HunksInPlace` used to allow hunks that
overlap, or that start at line 0; for those `CommittedIsPatched` is false, which no
patch of the run showed.  `ProjectPatch` got the types of its texts, files and
patches (`Texts`, `Files`, `Sections`, the constant `Lines`), so that the theorems
can speak of every patch.  `OnlyStrayRefreshSkipsVersions` used to say that the
version left behind holds, or is beside one that holds, a scope resolution; the
attempt to prove it led to a run of seven saves, beyond the bounds of `runner`,
that refutes this (the second path under `runner_skips` in section 6).  It now says
what is so in every run.

Induction.  The theorems on induction that come with the prover take an operator
as a parameter, which the provers cannot instantiate.  `RecursionLemmas` states
them for sets, from well-foundedness: `LeastNumber`, `Induction`, and `StepsExist`
for recursive functions.  That is enough for hunks applied one after the other and
for the first pending version of a plan.

Every safety property of the passing runs is proved.  Only model-checked are the
liveness properties `LeaseReturned` and `OverRunsStopLookingAlive`, which the prover
does not handle (it has no rules for ENABLED).

## 5. Plan

Done: the ledger and its lifecycle, executor runs, activation leases, deliveries
and their promise, the runner state and its file, project patches, and the theorems of
section 4.  In this order:

1. `Dispatch`: composes `WorkItemLedger` and `ExecutorClaims` through
   `get_execution_attempt_dispatch_authority`, which is read once before the
   launch: what can have happened to the Work Item when the executor starts.
2. Executor authority: one-shot admissions beside the claims.

## 6. Where the code and its documents disagree

* `claims_reconcile`.  `runner/mcp_tool_catalog.py:3769` says that the action
  ends claims that are *still* orphaned.  The check and the write are two reads
  of the file (`mcp_executor_workflow.py:1920` and `1924`); a worker that
  refreshes its heartbeat or finishes in between is overwritten with FAILED.
* `claims_stray`.  `runner/project_operation_lease.py:41` says that exclusive
  leases protect project mutations.  The lease dies with the server, the
  executor does not (`adapters/executor_process_supervisor.py:48`): after a
  crash it works on beside the next holder.
* `runner_skips`.  `runner/state_machine.py:319` refuses to continue with "the
  current version has not passed, the next version cannot be entered".  The test
  is on the runner status alone, and `scope_mismatch_apply` with
  `refresh_in_scope_state` (`mcp_executor_workflow.py:3095`) sets that status to
  VERSION_PASSED for whatever version its report names, not only for the current
  one: a version that has not been started is left behind.  A second path starts
  the same way and bites later.  Resolving another version with `abort_version`
  blocks the runner beside a version that has passed; a recheck of that version
  can then be previewed, and `recheck_report_apply`
  (`mcp_executor_workflow.py:3177`) compares the two statuses it saw and Git's HEAD,
  not the current version: once the runner has gone on and is out of scope again,
  the old preview marks it VERSION_PASSED for the new version.  That every way
  starts with a stray resolution is `OnlyStrayRefreshSkipsVersions`, checked in the
  `runner` run and proved.
* `patch_drift`.  `runner/mcp_tool_catalog.py:2165`: preview shows the change,
  apply applies the preview; the preview of a unified diff shows the patch as its
  predicted diff.  `_apply_hunks_to_content` (`mcp_project_patch.py:733`) cuts each
  hunk at its line in the *old* text out of what the earlier hunks have left, so
  that after a hunk that adds or removes lines the next one replaces the wrong
  ones.  That patches whose hunks keep their number of lines are applied as asked
  is what `CommittedIsPatched` checks in the `patches` run.

Seen while modelling, without a run of its own:

* `docs/work-item-governance/CONTRACT.md:102`: "After the Ledger exists,
  transition rejections are recorded as `transition_rejected` Gate/Audit events
  without a state change".  A transition that names a Task Version which does not
  exist is refused by the foreign key of `gate_events` (`service.py:1762`,
  `NewGate`) and leaves no record.
* Patches: a hunk without old lines goes one line too high (`Splice`); context
  lines are not compared, so a patch made for another text is applied where its
  line numbers point; of two sections for one file the last one wins
  (`PlanSection` reads the file before anything is written); CRLF endings become
  LF, in a rollback too; created files keep the private mode of `mkstemp`
  (`Written`); two applies of one preview may both pass the check and patch twice.

## 7. Not modelled

The components of section 1 without a module are listed in `PROJECT.json` with
the reason.  The executor authority is planned.  The MCP
server's routing, the catalog, response shaping, planning documents, registry,
observability and the command line, which are most of the repository's lines,
keep no state that several actors change in steps.  Provider protocols, git and
GitHub are external systems.

Within the components that have a module: migrations and failures inside a
restore; the pilot's authorization documents, tokens and request contexts of the
activation guard; `reset_current_attempt`, `state_lineage_reconciliation_apply`,
`final_version_closeout_apply` and the commit policy and review checkpoints of
the runner (they only refuse to continue); the plan tools' own rewrite of the state
after a change of the plan (`planning_bridge.py:779`), which replaces the file
atomically but without the lease and without a stale-write check; prompts, logs and metadata in the
state document; plans that drop the current version, which `Renamed` describes
but the plans of the runs do not contain.
