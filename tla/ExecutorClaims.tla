--------------------------- MODULE ExecutorClaims ---------------------------
(***************************************************************************)
(* Executor runs of one project: runner/mcp_executor_workflow.py with      *)
(* executor_run_claims.py and project_operation_lease.py.                  *)
(*                                                                         *)
(* A request to run a previewed execution (run_once or run_bounded) reads  *)
(* the claim file and the preview artifact of its preview, acquires the    *)
(* exclusive project lease (flock), checks the project again, creates the  *)
(* claim file with O_EXCL and runs the executor.  run_once hands the lease *)
(* to a background worker whose heartbeat thread refreshes the claim;      *)
(* run_bounded runs in the request itself, without a heartbeat.  An        *)
(* operator may reconcile claims whose heartbeat is stale, without the     *)
(* lease.                                                                  *)
(*                                                                         *)
(* Claim files are replaced atomically but updated by read-modify-write    *)
(* with no lock, so a refresh is two steps.  finalize_claim overwrites     *)
(* every field the model keeps, whatever it read: it is one step.          *)
(* The run_id of a claim is the request that created it; claim files are   *)
(* never deleted once written, so it never changes.                        *)
(***************************************************************************)
EXTENDS Integers, FiniteSets

CONSTANTS
    Previews,         \* preview identifiers
    Calls,            \* requests to run a preview
    Servers,          \* server processes
    PreviewOf,        \* [Calls -> Previews]
    ServerOf,         \* [Calls -> Servers]
    Bounded,          \* the previews issued by run_bounded_preview
    Other,            \* any other exclusive operation (web console, ...)
    None,
    FaultModes,       \* the sets of faults to consider: "stall", a heartbeat
                      \* write may outlast the join timeout; "write", a write
                      \* or an unlink may fail
    MaxCrashes        \* bound: crashes of server processes

ASSUME ClaimAssumption ==
    /\ PreviewOf \in [Calls -> Previews]
    /\ ServerOf \in [Calls -> Servers]
    /\ Bounded \subseteq Previews
    /\ None \notin Calls \cup Previews /\ Other \notin Calls /\ Other # None
    /\ FaultModes \subseteq SUBSET {"stall", "write"}
    /\ MaxCrashes \in Nat

VARIABLES
    claims,           \* the claim files
    artifacts,        \* the preview artifacts that exist and have not expired
    lease,            \* the holder of the project operation lease
    pc,               \* where each request, then its worker, stands
    loaded,           \* the claim status that it has read and will write back
    heartbeat,        \* the heartbeat thread of each worker
    outcome,          \* how the executor service returned
    ran,              \* the requests whose executor was started
    stray,            \* those whose executor process outlived its server
    candidates,       \* the candidates of the reconcile preview
    reconciling,      \* the candidate reconcile_apply has found orphaned
    crashes,
    faults            \* the faults this behaviour is exposed to; never changes

vars == <<claims, artifacts, lease, pc, loaded, heartbeat, outcome, ran, stray,
          candidates, reconciling, crashes, faults>>

-----------------------------------------------------------------------------
ClaimStatuses == {"absent", "unreadable", "RUNNING", "COMPLETED", "FAILED"}

(* fresh: the last heartbeat is within the heartbeat timeout.              *)
ClaimFiles ==
    [status : ClaimStatuses, run : Calls \cup {None}, fresh : BOOLEAN]

Phases ==
    {"idle", "validated", "leased", "cleared", "created", "claimed", "marking",
     "marked", "started", "warming", "warm", "running", "joining", "joined",
     "refreshing", "refreshed", "deleted", "finalized", "done", "dead"}

Init ==
    /\ claims = [p \in Previews |-> [status |-> "absent", run |-> None, fresh |-> FALSE]]
    /\ artifacts = Previews
    /\ lease = None
    /\ pc = [c \in Calls |-> "idle"]
    /\ loaded = [c \in Calls |-> "absent"]
    /\ heartbeat = [c \in Calls |-> "off"]
    /\ outcome = [c \in Calls |-> "none"]
    /\ ran = {}
    /\ stray = {}
    /\ candidates = {}
    /\ reconciling = None
    /\ crashes = 0
    /\ faults \in FaultModes

HeartbeatStalls == "stall" \in faults
WritesFail == "write" \in faults

Once(c) == PreviewOf[c] \notin Bounded
Claim(c) == claims[PreviewOf[c]]
Readable(file) == file.status \notin {"absent", "unreadable"}
Over(c) == pc[c] \in {"done", "dead"}

(* evaluate_orphaned_claim                                                 *)
Orphaned(p) == claims[p].status = "RUNNING" /\ ~claims[p].fresh
LooksAlive(p) == claims[p].status = "RUNNING" /\ claims[p].fresh

WriteClaim(p, status, run) ==
    claims' = [claims EXCEPT ![p] = [status |-> status, run |-> run, fresh |-> TRUE]]

Goto(c, phase) == pc' = [pc EXCEPT ![c] = phase]

(* ProjectOperationLease.release by the request that holds it.             *)
Release(c) == lease' = IF lease = c THEN None ELSE lease

-----------------------------------------------------------------------------
(* The request.                                                            *)

(* The claim and the artifact are read before the lease is held.           *)
ValidatePreview(c) ==
    /\ pc[c] = "idle"
    /\ Goto(c, IF ~Readable(Claim(c)) /\ PreviewOf[c] \in artifacts
                 THEN "validated" ELSE "done")
    /\ UNCHANGED <<claims, artifacts, lease, loaded, heartbeat, outcome, ran,
                   candidates, reconciling, crashes, stray, faults>>

AcquireLeaseEvenIfBusy(c) ==
    /\ pc[c] = "validated"
    /\ lease' = c
    /\ Goto(c, "leased")
    /\ UNCHANGED <<claims, artifacts, loaded, heartbeat, outcome, ran,
                   candidates, reconciling, crashes, stray, faults>>
AcquireLease(c) ==
    /\ pc[c] = "validated"
    /\ IF lease = None
         THEN lease' = c /\ Goto(c, "leased")
         ELSE Goto(c, "done") /\ UNCHANGED lease
    /\ UNCHANGED <<claims, artifacts, loaded, heartbeat, outcome, ran,
                   candidates, reconciling, crashes, stray, faults>>

(* Preflight, artifact comparison, continuation and authority gates, under *)
(* the lease: each may refuse, and the refusal releases the lease.         *)
RecheckUnderLease(c) ==
    /\ pc[c] = "leased"
    /\ \/ Goto(c, "cleared") /\ UNCHANGED lease
       \/ Goto(c, "done") /\ Release(c)
    /\ UNCHANGED <<claims, artifacts, loaded, heartbeat, outcome, ran,
                   candidates, reconciling, crashes, stray, faults>>

(* acquire_claim: os.open(O_CREAT | O_EXCL) leaves an empty file.          *)
CreateClaimFileAnyway(c) ==
    /\ pc[c] = "cleared"
    /\ claims' = [claims EXCEPT ![PreviewOf[c]] =
           [status |-> "unreadable", run |-> None, fresh |-> FALSE]]
    /\ Goto(c, "created")
    /\ UNCHANGED <<artifacts, lease, loaded, heartbeat, outcome, ran,
                   candidates, reconciling, crashes, stray, faults>>
CreateClaimFile(c) ==
    /\ pc[c] = "cleared"
    /\ IF Claim(c).status = "absent"
         THEN /\ claims' = [claims EXCEPT ![PreviewOf[c]] =
                    [status |-> "unreadable", run |-> None, fresh |-> FALSE]]
              /\ Goto(c, "created")
              /\ UNCHANGED lease
         ELSE Goto(c, "done") /\ Release(c) /\ UNCHANGED claims
    /\ UNCHANGED <<artifacts, loaded, heartbeat, outcome, ran,
                   candidates, reconciling, crashes, stray, faults>>

(* ... and then writes the record, or tries to unlink the file when that   *)
(* fails.                                                                  *)
WriteClaimRecord(c) ==
    /\ pc[c] = "created"
    /\ \/ /\ WriteClaim(PreviewOf[c], "RUNNING", c)
          /\ Goto(c, IF Once(c) THEN "claimed" ELSE "running")
          /\ ran' = IF Once(c) THEN ran ELSE ran \cup {c}
          /\ UNCHANGED lease
       \/ /\ WritesFail
          /\ \E left \in {"absent", "unreadable"} :
                claims' = [claims EXCEPT ![PreviewOf[c]] =
                    [status |-> left, run |-> None, fresh |-> FALSE]]
          /\ Goto(c, "done")
          /\ Release(c)
          /\ UNCHANGED ran
    /\ UNCHANGED <<artifacts, loaded, heartbeat, outcome, candidates, reconciling, crashes, stray, faults>>

(* mark_worker_started reads the claim ...                                 *)
MarkWorkerRead(c) ==
    /\ pc[c] = "claimed"
    /\ loaded' = [loaded EXCEPT ![c] = Claim(c).status]
    /\ Goto(c, "marking")
    /\ UNCHANGED <<claims, artifacts, lease, heartbeat, outcome, ran,
                   candidates, reconciling, crashes, stray, faults>>

(* An exception while the worker is being started: the artifact is         *)
(* deleted, the claim finalized as FAILED and the lease released, in the   *)
(* order in which a worker ends.                                           *)
FailToStart(c) ==
    /\ outcome' = [outcome EXCEPT ![c] = "crashed"]
    /\ Goto(c, "refreshed")

(* ... and writes it back with a new heartbeat.                            *)
MarkWorkerWrite(c) ==
    /\ pc[c] = "marking"
    /\ \/ WriteClaim(PreviewOf[c], loaded[c], c) /\ Goto(c, "marked") /\ UNCHANGED outcome
       \/ WritesFail /\ FailToStart(c) /\ UNCHANGED claims
    /\ UNCHANGED <<artifacts, lease, loaded, heartbeat, ran, candidates, reconciling, crashes, stray, faults>>

StartWorker(c) ==
    /\ pc[c] = "marked"
    /\ \/ Goto(c, "started") /\ UNCHANGED outcome
       \/ FailToStart(c)
    /\ UNCHANGED <<claims, artifacts, lease, loaded, heartbeat, ran,
                   candidates, reconciling, crashes, stray, faults>>

-----------------------------------------------------------------------------
(* The background worker of run_once; run_bounded joins it at "running".   *)

StartHeartbeat(c) ==
    /\ pc[c] = "started"
    /\ \/ /\ heartbeat' = [heartbeat EXCEPT ![c] = "waiting"]
          /\ Goto(c, "warming")
          /\ UNCHANGED outcome
       \/ /\ outcome' = [outcome EXCEPT ![c] = "crashed"]
          /\ Goto(c, "joining")
          /\ UNCHANGED heartbeat
    /\ UNCHANGED <<claims, artifacts, lease, loaded, ran, candidates, reconciling, crashes, stray, faults>>

(* refresh_heartbeat by the worker itself: read, then write if RUNNING.    *)
WorkerRefreshRead(c) ==
    /\ pc[c] \in {"warming", "joined"}
    /\ loaded' = [loaded EXCEPT ![c] = Claim(c).status]
    /\ Goto(c, IF pc[c] = "warming" THEN "warm" ELSE "refreshing")
    /\ UNCHANGED <<claims, artifacts, lease, heartbeat, outcome, ran,
                   candidates, reconciling, crashes, stray, faults>>

WorkerRefreshWrite(c) ==
    /\ pc[c] \in {"warm", "refreshing"}
    /\ \/ loaded[c] = "RUNNING" /\ WriteClaim(PreviewOf[c], "RUNNING", c)
       \/ (loaded[c] # "RUNNING" \/ WritesFail) /\ UNCHANGED claims
    /\ Goto(c, IF pc[c] = "warm" THEN "running" ELSE "refreshed")
    /\ ran' = IF pc[c] = "warm" THEN ran \cup {c} ELSE ran
    /\ UNCHANGED <<artifacts, lease, loaded, heartbeat, outcome,
                   candidates, reconciling, crashes, stray, faults>>

(* ExecutorRunOnceService.run_once returns, ok or not, or raises; the      *)
(* iterations of run_bounded are one such run.  The finally block sets     *)
(* the stop event first.                                                   *)
ProviderReturns(c) ==
    /\ pc[c] = "running"
    /\ \E how \in {"ok", "failed", "crashed"} : outcome' = [outcome EXCEPT ![c] = how]
    /\ Goto(c, IF Once(c) THEN "joining" ELSE "refreshed")
    /\ UNCHANGED <<claims, artifacts, lease, loaded, heartbeat, ran,
                   candidates, reconciling, crashes, stray, faults>>

(* join(timeout): a heartbeat thread stuck in a write is left behind.      *)
JoinWithoutWaiting(c) ==
    /\ pc[c] = "joining"
    /\ Goto(c, "joined")
    /\ UNCHANGED <<claims, artifacts, lease, loaded, heartbeat, outcome, ran,
                   candidates, reconciling, crashes, stray, faults>>
JoinHeartbeat(c) ==
    /\ pc[c] = "joining"
    /\ heartbeat[c] = "off" \/ HeartbeatStalls
    /\ Goto(c, "joined")
    /\ UNCHANGED <<claims, artifacts, lease, loaded, heartbeat, outcome, ran,
                   candidates, reconciling, crashes, stray, faults>>

DeleteArtifactAndRelease(c) ==
    /\ pc[c] = "refreshed"
    /\ artifacts' = artifacts \ {PreviewOf[c]}
    /\ Release(c)
    /\ Goto(c, "deleted")
    /\ UNCHANGED <<claims, loaded, heartbeat, outcome, ran,
                   candidates, reconciling, crashes, stray, faults>>
DeleteArtifact(c) ==
    /\ pc[c] = "refreshed"
    /\ \/ artifacts' = artifacts \ {PreviewOf[c]}
       \/ WritesFail /\ UNCHANGED artifacts
    /\ Goto(c, "deleted")
    /\ UNCHANGED <<claims, lease, loaded, heartbeat, outcome, ran,
                   candidates, reconciling, crashes, stray, faults>>

(* run_bounded finalizes COMPLETED however its iterations were classified. *)
final_status_as_reported(c) == IF outcome[c] = "ok" THEN "SUCCEEDED" ELSE "FAILED"
final_status(c) ==
    IF outcome[c] = "ok" \/ (~Once(c) /\ outcome[c] = "failed")
      THEN "COMPLETED" ELSE "FAILED"

FinalizeClaim(c) ==
    /\ pc[c] = "deleted"
    /\ \/ WriteClaim(PreviewOf[c], final_status(c), c)
       \/ WritesFail /\ UNCHANGED claims
    /\ Goto(c, "finalized")
    /\ UNCHANGED <<artifacts, lease, loaded, heartbeat, outcome, ran,
                   candidates, reconciling, crashes, stray, faults>>

ReleaseLeaseIfOk(c) ==
    /\ pc[c] = "finalized"
    /\ IF outcome[c] = "ok" THEN Release(c) ELSE UNCHANGED lease
    /\ Goto(c, "done")
    /\ UNCHANGED <<claims, artifacts, loaded, heartbeat, outcome, ran,
                   candidates, reconciling, crashes, stray, faults>>
ReleaseLease(c) ==
    /\ pc[c] = "finalized"
    /\ Release(c)
    /\ Goto(c, "done")
    /\ UNCHANGED <<claims, artifacts, loaded, heartbeat, outcome, ran,
                   candidates, reconciling, crashes, stray, faults>>

-----------------------------------------------------------------------------
(* The heartbeat thread: while not stop_event.wait(interval): refresh.     *)

StopNeverSet(c) == pc[c] = "dead"
StopSet(c) ==
    pc[c] \in {"joining", "joined", "refreshing", "refreshed", "deleted",
               "finalized", "done"}

HeartbeatRead(c) ==
    /\ heartbeat[c] = "waiting"
    /\ ~StopSet(c)
    /\ Claim(c).status = "RUNNING"
    /\ heartbeat' = [heartbeat EXCEPT ![c] = "writing"]
    /\ UNCHANGED <<claims, artifacts, lease, pc, loaded, outcome, ran,
                   candidates, reconciling, crashes, stray, faults>>

HeartbeatWrite(c) ==
    /\ heartbeat[c] = "writing"
    /\ WriteClaim(PreviewOf[c], "RUNNING", c) \/ (WritesFail /\ UNCHANGED claims)
    /\ heartbeat' = [heartbeat EXCEPT ![c] = "waiting"]
    /\ UNCHANGED <<artifacts, lease, pc, loaded, outcome, ran,
                   candidates, reconciling, crashes, stray, faults>>

HeartbeatExit(c) ==
    /\ heartbeat[c] = "waiting"
    /\ StopSet(c)
    /\ heartbeat' = [heartbeat EXCEPT ![c] = "off"]
    /\ UNCHANGED <<claims, artifacts, lease, pc, loaded, outcome, ran,
                   candidates, reconciling, crashes, stray, faults>>

-----------------------------------------------------------------------------
(* Reconciliation of orphaned claims.                                      *)

ReconcilePreview ==
    /\ candidates = {} /\ reconciling = None
    /\ candidates' = {p \in Previews : Orphaned(p)}
    /\ candidates' # {}
    /\ UNCHANGED <<claims, artifacts, lease, pc, loaded, heartbeat, outcome, ran,
                   reconciling, crashes, stray, faults>>

(* Each candidate is read again and skipped unless it is still orphaned.   *)
ReconcileCheck(p) ==
    /\ reconciling = None
    /\ p \in candidates
    /\ candidates' = candidates \ {p}
    /\ reconciling' = IF Orphaned(p) THEN p ELSE None
    /\ UNCHANGED <<claims, artifacts, lease, pc, loaded, heartbeat, outcome, ran, crashes, stray, faults>>

(* finalize_claim reads the claim a second time and looks at its run_id    *)
(* only.                                                                   *)
ReconcileFinalize ==
    /\ reconciling # None
    /\ WriteClaim(reconciling, "FAILED", claims[reconciling].run)
    /\ reconciling' = None
    /\ UNCHANGED <<artifacts, lease, pc, loaded, heartbeat, outcome, ran,
                   candidates, crashes, stray, faults>>

(* The request fails, its process dies or its preview expires.             *)
ReconcileAbort ==
    /\ candidates # {} \/ reconciling # None
    /\ candidates' = {}
    /\ reconciling' = None
    /\ UNCHANGED <<claims, artifacts, lease, pc, loaded, heartbeat, outcome, ran, crashes, stray, faults>>

-----------------------------------------------------------------------------
(* Time, other operations and crashes.                                     *)

HeartbeatAges(p) ==
    /\ LooksAlive(p)
    /\ claims' = [claims EXCEPT ![p] =
           [status |-> "RUNNING", run |-> claims[p].run, fresh |-> FALSE]]
    /\ UNCHANGED <<artifacts, lease, pc, loaded, heartbeat, outcome, ran,
                   candidates, reconciling, crashes, stray, faults>>

ArtifactExpires(p) ==
    /\ p \in artifacts
    /\ artifacts' = artifacts \ {p}
    /\ UNCHANGED <<claims, lease, pc, loaded, heartbeat, outcome, ran,
                   candidates, reconciling, crashes, stray, faults>>

OtherOperation ==
    /\ \/ lease = None /\ lease' = Other
       \/ lease = Other /\ lease' = None
    /\ UNCHANGED <<claims, artifacts, pc, loaded, heartbeat, outcome, ran,
                   candidates, reconciling, crashes, stray, faults>>

(* All threads of the process die and the kernel drops its lock.  Nothing  *)
(* ties the executor process, a plain child, to the life of its server.    *)
Crash(s) ==
    LET died(c) == ServerOf[c] = s /\ pc[c] # "idle"
        executors == {c \in Calls : died(c) /\ pc[c] = "running"} IN
    /\ crashes < MaxCrashes
    /\ crashes' = crashes + 1
    /\ pc' = [c \in Calls |-> IF died(c) /\ pc[c] # "done" THEN "dead" ELSE pc[c]]
    /\ heartbeat' = [c \in Calls |-> IF died(c) THEN "off" ELSE heartbeat[c]]
    /\ lease' = IF \E c \in Calls : died(c) /\ lease = c THEN None ELSE lease
    /\ \E survivors \in SUBSET executors : stray' = stray \cup survivors
    /\ UNCHANGED <<claims, artifacts, loaded, outcome, ran, candidates, reconciling,
                   faults>>

StrayExecutorExits(c) ==
    /\ c \in stray
    /\ stray' = stray \ {c}
    /\ UNCHANGED <<claims, artifacts, lease, pc, loaded, heartbeat, outcome, ran,
                   candidates, reconciling, crashes, faults>>

-----------------------------------------------------------------------------
RequestStep(c) ==
    \/ AcquireLease(c) \/ RecheckUnderLease(c) \/ CreateClaimFile(c)
    \/ WriteClaimRecord(c) \/ MarkWorkerRead(c) \/ MarkWorkerWrite(c)
    \/ StartWorker(c)

WorkerStep(c) ==
    \/ StartHeartbeat(c) \/ WorkerRefreshRead(c) \/ WorkerRefreshWrite(c)
    \/ ProviderReturns(c) \/ JoinHeartbeat(c) \/ DeleteArtifact(c)
    \/ FinalizeClaim(c) \/ ReleaseLease(c)

HeartbeatStep(c) == HeartbeatRead(c) \/ HeartbeatWrite(c) \/ HeartbeatExit(c)

ReconcileStep ==
    \/ ReconcilePreview \/ ReconcileFinalize \/ ReconcileAbort
    \/ \E p \in Previews : ReconcileCheck(p)

Next ==
    \/ \E c \in Calls :
          \/ ValidatePreview(c) \/ RequestStep(c) \/ WorkerStep(c) \/ HeartbeatStep(c)
          \/ StrayExecutorExits(c)
    \/ ReconcileStep
    \/ \E p \in Previews : HeartbeatAges(p) \/ ArtifactExpires(p)
    \/ OtherOperation
    \/ \E s \in Servers : Crash(s)

Spec == Init /\ [][Next]_vars

(* Threads are scheduled, the executor returns (its supervisor kills it at *)
(* a deadline) and time passes.  Nobody is obliged to reconcile.           *)
Fairness ==
    /\ \A c \in Calls : /\ WF_vars(RequestStep(c))
                        /\ WF_vars(WorkerStep(c))
                        /\ WF_vars(HeartbeatStep(c))
    /\ \A p \in Previews : WF_vars(HeartbeatAges(p))

FairSpec == Spec /\ Fairness

-----------------------------------------------------------------------------
(* Properties.                                                             *)

(* Type invariant.                                                         *)
TypeOK ==
    /\ claims \in [Previews -> ClaimFiles]
    /\ artifacts \subseteq Previews
    /\ lease \in Calls \cup {Other, None}
    /\ pc \in [Calls -> Phases]
    /\ loaded \in [Calls -> ClaimStatuses]
    /\ heartbeat \in [Calls -> {"off", "waiting", "writing"}]
    /\ outcome \in [Calls -> {"none", "ok", "failed", "crashed"}]
    /\ ran \subseteq Calls
    /\ stray \subseteq Calls
    /\ candidates \subseteq Previews
    /\ reconciling \in Previews \cup {None}
    /\ crashes \in 0 .. MaxCrashes
    /\ faults \in FaultModes

(* Two runs never drive an executor at the same time, and none does beside *)
(* another exclusive operation: the lease that the request hands to its    *)
(* worker is held until the claim has been finalized, also when the claim  *)
(* was reconciled or another server crashed meanwhile.                     *)
ProviderExclusive ==
    \A c \in Calls : pc[c] = "running" =>
        /\ lease = c
        /\ \A d \in Calls : pc[d] = "running" => d = c

(* A preview is executed at most once, by whichever request created its    *)
(* claim file: a request that found no claim before it had the lease, and  *)
(* got the lease after another request had run the preview, is refused.    *)
RunsOncePerPreview ==
    \A c, d \in ran : PreviewOf[c] = PreviewOf[d] => c = d

(* Without a stalled heartbeat, a failed write or a crash, a claim reads   *)
(* RUNNING only while its request holds the lease: whoever gets the lease  *)
(* next finds no claim that still looks like a run in progress.            *)
RunningClaimsHoldLease ==
    faults = {} =>
        \A p \in Previews :
            claims[p].status = "RUNNING" /\ pc[claims[p].run] # "dead"
                => lease = claims[p].run

(* A run that has ended is reported as it ended, or as FAILED when an      *)
(* operator reconciled it; without a stalled heartbeat or a failed write   *)
(* no late heartbeat puts it back to RUNNING, crashes or not.              *)
EndedRunsAreReported ==
    faults = {} =>
        \A c \in ran : pc[c] = "done" => Claim(c).status \in {final_status(c), "FAILED"}

(* The lease of every request and worker is given back, whatever fails.    *)
LeaseReturned == \A c \in Calls : lease = c ~> lease # c

(* A run that is over, killed or finished, does not look alive for ever,   *)
(* even when its last heartbeat overwrote the finalized claim: the claim   *)
(* is finalized or becomes, and stays, an orphan that can be reconciled.   *)
OverRunsStopLookingAlive ==
    \A c \in Calls : [](Over(c) => <>[](Claim(c).run = c => ~LooksAlive(PreviewOf[c])))

(* project_operation_lease.py says that exclusive leases protect project   *)
(* mutations: nobody holds the lease while an executor is at work for      *)
(* somebody else, in particular one whose server has crashed.              *)
LeaseProtectsMutations == \A c \in stray : lease = None

(* mcp_tool_catalog.py says that reconcile_orphaned_claims_apply ends the  *)
(* RUNNING claims that are still orphaned.                                 *)
ReconcileEndsOnlyOrphans ==
    [][\A p \in Previews :
          reconciling = p /\ claims'[p] # claims[p] /\ reconciling' = None
              => Orphaned(p)]_vars
=============================================================================
