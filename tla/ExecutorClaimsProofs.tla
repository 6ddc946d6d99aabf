------------------------ MODULE ExecutorClaimsProofs ------------------------
(***************************************************************************)
(* Proofs about ExecutorClaims, for any number of requests, previews and   *)
(* server processes, with stalled heartbeats, failing writes, crashes and  *)
(* reconciliation: runs exclude each other, and a preview runs once; and,  *)
(* when nothing stalls and writes succeed, what claim files say of runs.   *)
(***************************************************************************)
EXTENDS ExecutorClaims, TLAPS

(* The actions that change neither the claim files nor pc.                 *)
QuietStep ==
    \/ ReconcilePreview \/ ReconcileAbort \/ OtherOperation
    \/ \E p \in Previews : ReconcileCheck(p) \/ ArtifactExpires(p)
    \/ \E c \in Calls : StrayExecutorExits(c)

LEMMA InitTyped == Init => TypeOK
BY ClaimAssumption DEF Init, TypeOK, ClaimFiles, ClaimStatuses, Phases

LEMMA RowTyped ==
    ASSUME TypeOK, NEW p \in Previews, NEW row \in ClaimFiles,
           claims' = [claims EXCEPT ![p] = row]
    PROVE  claims' \in [Previews -> ClaimFiles]
BY DEF TypeOK

LEMMA WriteTyped ==
    ASSUME TypeOK, NEW p \in Previews, NEW status \in ClaimStatuses,
           NEW run \in Calls \cup {None}, WriteClaim(p, status, run)
    PROVE  claims' \in [Previews -> ClaimFiles]
<1>1. [status |-> status, run |-> run, fresh |-> TRUE] \in ClaimFiles
  BY DEF ClaimFiles
<1> QED BY <1>1 DEF WriteClaim, TypeOK

LEMMA GotoTyped ==
    ASSUME TypeOK, NEW c \in Calls, NEW phase \in Phases, Goto(c, phase)
    PROVE  pc' \in [Calls -> Phases]
BY DEF Goto, TypeOK

LEMMA RequestTyped ==
    ASSUME TypeOK, NEW c \in Calls, ValidatePreview(c) \/ RequestStep(c)
    PROVE  TypeOK'
<1> USE ClaimAssumption
<1>p. PreviewOf[c] \in Previews
  OBVIOUS
<1>1. CASE ValidatePreview(c)
  BY <1>1, GotoTyped DEF ValidatePreview, TypeOK, Phases
<1>2. CASE AcquireLease(c)
  BY <1>2, GotoTyped DEF AcquireLease, TypeOK, Phases
<1>3. CASE RecheckUnderLease(c)
  BY <1>3, GotoTyped DEF RecheckUnderLease, Release, TypeOK, Phases
<1>4. CASE CreateClaimFile(c)
  <2>1. [status |-> "unreadable", run |-> None, fresh |-> FALSE] \in ClaimFiles
    BY DEF ClaimFiles, ClaimStatuses
  <2>2. claims' \in [Previews -> ClaimFiles]
    <3>1. CASE UNCHANGED claims
      BY <3>1 DEF TypeOK
    <3>2. CASE claims' = [claims EXCEPT ![PreviewOf[c]] =
                 [status |-> "unreadable", run |-> None, fresh |-> FALSE]]
      BY <3>2, <1>p, <2>1, RowTyped
    <3> QED BY <1>4, <3>1, <3>2 DEF CreateClaimFile
  <2>3. lease' \in Calls \cup {Other, None} /\ pc' \in [Calls -> Phases]
    BY <1>4, GotoTyped DEF CreateClaimFile, Release, TypeOK, Phases
  <2>4. UNCHANGED <<artifacts, loaded, heartbeat, outcome, ran, candidates,
                    reconciling, crashes, stray, faults>>
    BY <1>4 DEF CreateClaimFile
  <2> QED BY <2>2, <2>3, <2>4 DEF TypeOK
<1>5. CASE WriteClaimRecord(c)
  <2>1. \A left \in {"absent", "unreadable"} :
           [status |-> left, run |-> None, fresh |-> FALSE] \in ClaimFiles
    BY DEF ClaimFiles, ClaimStatuses
  <2>2. "RUNNING" \in ClaimStatuses
    BY DEF ClaimStatuses
  <2>3. claims' \in [Previews -> ClaimFiles]
    <3>1. CASE WriteClaim(PreviewOf[c], "RUNNING", c)
      BY <3>1, <1>p, <2>2, WriteTyped
    <3>2. ASSUME NEW left \in {"absent", "unreadable"},
                 claims' = [claims EXCEPT ![PreviewOf[c]] =
                     [status |-> left, run |-> None, fresh |-> FALSE]]
          PROVE  claims' \in [Previews -> ClaimFiles]
      <4>1. [status |-> left, run |-> None, fresh |-> FALSE] \in ClaimFiles
        BY <2>1
      <4> QED BY <3>2, <4>1, <1>p DEF TypeOK
    <3>3. \/ WriteClaim(PreviewOf[c], "RUNNING", c)
          \/ \E left \in {"absent", "unreadable"} :
                claims' = [claims EXCEPT ![PreviewOf[c]] =
                    [status |-> left, run |-> None, fresh |-> FALSE]]
      BY <1>5 DEF WriteClaimRecord
    <3> QED BY <3>1, <3>2, <3>3
  <2>4. /\ lease' \in Calls \cup {Other, None}
        /\ pc' \in [Calls -> Phases]
        /\ ran' \subseteq Calls
    BY <1>5, GotoTyped DEF WriteClaimRecord, Release, TypeOK, Phases
  <2>5. UNCHANGED <<artifacts, loaded, heartbeat, outcome, candidates,
                    reconciling, crashes, stray, faults>>
    BY <1>5 DEF WriteClaimRecord
  <2> QED BY <2>3, <2>4, <2>5 DEF TypeOK
<1>6. CASE MarkWorkerRead(c)
  <2>1. Claim(c).status \in ClaimStatuses
    BY <1>p DEF TypeOK, ClaimFiles, Claim
  <2> QED BY <1>6, <2>1, GotoTyped DEF MarkWorkerRead, TypeOK, Phases
<1>7. CASE MarkWorkerWrite(c)
  <2>1. claims' \in [Previews -> ClaimFiles]
    BY <1>7, <1>p, WriteTyped DEF MarkWorkerWrite, TypeOK
  <2> QED BY <1>7, <2>1, GotoTyped DEF MarkWorkerWrite, FailToStart, TypeOK, Phases
<1>8. CASE StartWorker(c)
  BY <1>8, GotoTyped DEF StartWorker, FailToStart, TypeOK, Phases
<1> QED BY <1>1, <1>2, <1>3, <1>4, <1>5, <1>6, <1>7, <1>8 DEF RequestStep

LEMMA WorkerTyped ==
    ASSUME TypeOK, NEW c \in Calls, WorkerStep(c) \/ HeartbeatStep(c)
    PROVE  TypeOK'
<1> USE ClaimAssumption
<1>p. PreviewOf[c] \in Previews
  OBVIOUS
<1>s. {"RUNNING", "COMPLETED", "FAILED"} \subseteq ClaimStatuses
  BY DEF ClaimStatuses
<1>1. CASE StartHeartbeat(c)
  BY <1>1, GotoTyped DEF StartHeartbeat, TypeOK, Phases
<1>2. CASE WorkerRefreshRead(c)
  <2>1. Claim(c).status \in ClaimStatuses
    BY <1>p DEF TypeOK, ClaimFiles, Claim
  <2> QED BY <1>2, <2>1, GotoTyped DEF WorkerRefreshRead, TypeOK, Phases
<1>3. CASE WorkerRefreshWrite(c)
  <2>1. claims' \in [Previews -> ClaimFiles]
    BY <1>3, <1>p, <1>s, WriteTyped DEF WorkerRefreshWrite, TypeOK
  <2> QED BY <1>3, <2>1, GotoTyped DEF WorkerRefreshWrite, TypeOK, Phases
<1>4. CASE ProviderReturns(c)
  BY <1>4, GotoTyped DEF ProviderReturns, TypeOK, Phases
<1>5. CASE JoinHeartbeat(c)
  BY <1>5, GotoTyped DEF JoinHeartbeat, TypeOK, Phases
<1>6. CASE DeleteArtifact(c)
  BY <1>6, GotoTyped DEF DeleteArtifact, TypeOK, Phases
<1>7. CASE FinalizeClaim(c)
  <2>1. final_status(c) \in ClaimStatuses
    BY <1>s DEF final_status
  <2>2. claims' \in [Previews -> ClaimFiles]
    BY <1>7, <1>p, <2>1, WriteTyped DEF FinalizeClaim, TypeOK
  <2> QED BY <1>7, <2>2, GotoTyped DEF FinalizeClaim, TypeOK, Phases
<1>8. CASE ReleaseLease(c)
  BY <1>8, GotoTyped DEF ReleaseLease, Release, TypeOK, Phases
<1>9. CASE HeartbeatRead(c) \/ HeartbeatExit(c)
  BY <1>9 DEF HeartbeatRead, HeartbeatExit, TypeOK
<1>10. CASE HeartbeatWrite(c)
  <2>1. claims' \in [Previews -> ClaimFiles]
    BY <1>10, <1>p, <1>s, WriteTyped DEF HeartbeatWrite, TypeOK
  <2> QED BY <1>10, <2>1 DEF HeartbeatWrite, TypeOK
<1> QED BY <1>1, <1>2, <1>3, <1>4, <1>5, <1>6, <1>7, <1>8, <1>9, <1>10
        DEF WorkerStep, HeartbeatStep

LEMMA OthersTyped ==
    ASSUME TypeOK,
           \/ QuietStep \/ ReconcileFinalize
           \/ \E p \in Previews : HeartbeatAges(p)
           \/ \E s \in Servers : Crash(s)
    PROVE  TypeOK'
<1> USE ClaimAssumption
<1>1. CASE QuietStep
  BY <1>1 DEF QuietStep, ReconcilePreview, ReconcileAbort, OtherOperation,
     ReconcileCheck, ArtifactExpires, StrayExecutorExits, TypeOK
<1>2. CASE ReconcileFinalize
  <2>1. reconciling \in Previews
    BY <1>2 DEF ReconcileFinalize, TypeOK
  <2>2. claims[reconciling].run \in Calls \cup {None} /\ "FAILED" \in ClaimStatuses
    BY <2>1 DEF TypeOK, ClaimFiles, ClaimStatuses
  <2>3. claims' \in [Previews -> ClaimFiles]
    BY <1>2, <2>1, <2>2, WriteTyped DEF ReconcileFinalize
  <2> QED BY <1>2, <2>3 DEF ReconcileFinalize, TypeOK
<1>3. ASSUME NEW p \in Previews, HeartbeatAges(p)
      PROVE  TypeOK'
  <2>1. [status |-> "RUNNING", run |-> claims[p].run, fresh |-> FALSE] \in ClaimFiles
    BY DEF TypeOK, ClaimFiles, ClaimStatuses
  <2>2. claims' \in [Previews -> ClaimFiles]
    BY <1>3, <2>1 DEF HeartbeatAges, TypeOK
  <2> QED BY <1>3, <2>2 DEF HeartbeatAges, TypeOK
<1>4. ASSUME NEW s \in Servers, Crash(s)
      PROVE  TypeOK'
  <2>1. crashes' \in 0 .. MaxCrashes
    BY <1>4 DEF Crash, TypeOK
  <2>2. pc' \in [Calls -> Phases]
    BY <1>4 DEF Crash, TypeOK, Phases
  <2>3. heartbeat' \in [Calls -> {"off", "waiting", "writing"}]
    BY <1>4 DEF Crash, TypeOK
  <2>4. lease' \in Calls \cup {Other, None} /\ stray' \subseteq Calls
    BY <1>4 DEF Crash, TypeOK
  <2> QED BY <1>4, <2>1, <2>2, <2>3, <2>4 DEF Crash, TypeOK
<1> QED BY <1>1, <1>2, <1>3, <1>4

LEMMA NextByActor ==
    ASSUME Next
    PROVE  \/ \E c \in Calls : ValidatePreview(c) \/ RequestStep(c)
           \/ \E c \in Calls : WorkerStep(c) \/ HeartbeatStep(c)
           \/ QuietStep \/ ReconcileFinalize
           \/ \E p \in Previews : HeartbeatAges(p)
           \/ \E s \in Servers : Crash(s)
BY DEF Next, ReconcileStep, QuietStep

LEMMA StepTyped == TypeOK /\ [Next]_vars => TypeOK'
<1> SUFFICES ASSUME TypeOK, [Next]_vars PROVE TypeOK'
  OBVIOUS
<1>1. CASE UNCHANGED vars
  BY <1>1 DEF vars, TypeOK
<1>2. CASE Next
  BY <1>2, NextByActor, RequestTyped, WorkerTyped, OthersTyped
<1> QED BY <1>1, <1>2

(* Every variable keeps the type it is declared with.                      *)
THEOREM TypeCorrect == Spec => []TypeOK
BY InitTyped, StepTyped, PTL DEF Spec

-----------------------------------------------------------------------------
(* A request holds the lease from its acquisition until it is finished;    *)
(* it owns its claim file from the write of the record, and its executor   *)
(* and its heartbeat run for that claim.                                   *)
HoldingPhases == Phases \ {"idle", "validated", "done", "dead"}
OwningPhases == HoldingPhases \ {"leased", "cleared", "created"}
Owns(c) == c \in ran \/ pc[c] \in OwningPhases \/ heartbeat[c] # "off"

HoldersHoldLease == \A c \in Calls : pc[c] \in HoldingPhases => lease = c

OwnersOwnClaim ==
    /\ \A c \in Calls : Owns(c) => Claim(c).run = c
    /\ \A p \in Previews : ~Readable(claims[p]) => claims[p].run = None
    /\ \A c \in Calls : pc[c] = "created" => Claim(c).run = None
    /\ \A c \in Calls : pc[c] = "marking" => loaded[c] \notin {"absent", "unreadable"}

RunInv == TypeOK /\ HoldersHoldLease /\ OwnersOwnClaim

LEMMA InitRunInv == Init => RunInv
<1> SUFFICES ASSUME Init PROVE RunInv
  OBVIOUS
<1>1. TypeOK
  BY InitTyped
<1>2. HoldersHoldLease
  BY DEF Init, HoldersHoldLease, HoldingPhases, Phases
<1>3. OwnersOwnClaim
  BY ClaimAssumption DEF Init, OwnersOwnClaim, Owns, OwningPhases, HoldingPhases,
     Phases, Readable, Claim
<1> QED BY <1>1, <1>2, <1>3 DEF RunInv

-----------------------------------------------------------------------------
(* The lease.                                                              *)

(* A step of c that keeps the lease: c may move among the holding phases   *)
(* or stop; the others stay where they are.                                *)
LEMMA LeaseKept ==
    ASSUME TypeOK, HoldersHoldLease, NEW c \in Calls, NEW phase \in Phases,
           Goto(c, phase), pc[c] \in HoldingPhases \/ phase \notin HoldingPhases,
           lease' = lease
    PROVE  HoldersHoldLease'
BY DEF TypeOK, HoldersHoldLease, Goto

(* A step of c that gives the lease up, or never had it, and stops.        *)
LEMMA LeaseGivenUp ==
    ASSUME TypeOK, HoldersHoldLease, NEW c \in Calls, Goto(c, "done"), Release(c)
    PROVE  HoldersHoldLease'
BY DEF TypeOK, HoldersHoldLease, Goto, Release, HoldingPhases

LEMMA RequestHolds ==
    ASSUME TypeOK, HoldersHoldLease, NEW c \in Calls, ValidatePreview(c) \/ RequestStep(c)
    PROVE  HoldersHoldLease'
<1> USE ClaimAssumption
<1>1. CASE ValidatePreview(c)
  BY <1>1 DEF ValidatePreview, Goto, TypeOK, HoldersHoldLease, HoldingPhases, Phases
<1>2. CASE AcquireLease(c)
  <2>1. CASE lease = None
    <3>1. \A d \in Calls : pc[d] \notin HoldingPhases
      BY <2>1 DEF HoldersHoldLease
    <3> QED BY <1>2, <2>1, <3>1 DEF AcquireLease, Goto, TypeOK, HoldersHoldLease
  <2>2. CASE lease # None
    BY <1>2, <2>2 DEF AcquireLease, Goto, TypeOK, HoldersHoldLease, HoldingPhases
  <2> QED BY <2>1, <2>2
<1>3. CASE RecheckUnderLease(c)
  BY <1>3, LeaseKept, LeaseGivenUp DEF RecheckUnderLease, HoldingPhases, Phases
<1>4. CASE CreateClaimFile(c)
  BY <1>4, LeaseKept, LeaseGivenUp DEF CreateClaimFile, HoldingPhases, Phases
<1>5. CASE WriteClaimRecord(c)
  BY <1>5, LeaseKept, LeaseGivenUp DEF WriteClaimRecord, HoldingPhases, Phases
<1>6. CASE MarkWorkerRead(c)
  BY <1>6, LeaseKept DEF MarkWorkerRead, HoldingPhases, Phases
<1>7. CASE MarkWorkerWrite(c)
  BY <1>7, LeaseKept DEF MarkWorkerWrite, FailToStart, HoldingPhases, Phases
<1>8. CASE StartWorker(c)
  BY <1>8, LeaseKept DEF StartWorker, FailToStart, HoldingPhases, Phases
<1> QED BY <1>1, <1>2, <1>3, <1>4, <1>5, <1>6, <1>7, <1>8 DEF RequestStep

LEMMA WorkerHolds ==
    ASSUME TypeOK, HoldersHoldLease, NEW c \in Calls, WorkerStep(c) \/ HeartbeatStep(c)
    PROVE  HoldersHoldLease'
<1>1. CASE StartHeartbeat(c)
  BY <1>1, LeaseKept DEF StartHeartbeat, HoldingPhases, Phases
<1>2. CASE WorkerRefreshRead(c)
  BY <1>2, LeaseKept DEF WorkerRefreshRead, HoldingPhases, Phases
<1>3. CASE WorkerRefreshWrite(c)
  BY <1>3, LeaseKept DEF WorkerRefreshWrite, HoldingPhases, Phases
<1>4. CASE ProviderReturns(c)
  BY <1>4, LeaseKept DEF ProviderReturns, HoldingPhases, Phases
<1>5. CASE JoinHeartbeat(c)
  BY <1>5, LeaseKept DEF JoinHeartbeat, HoldingPhases, Phases
<1>6. CASE DeleteArtifact(c)
  BY <1>6, LeaseKept DEF DeleteArtifact, HoldingPhases, Phases
<1>7. CASE FinalizeClaim(c)
  BY <1>7, LeaseKept DEF FinalizeClaim, HoldingPhases, Phases
<1>8. CASE ReleaseLease(c)
  BY <1>8, LeaseGivenUp DEF ReleaseLease
<1>9. CASE HeartbeatStep(c)
  BY <1>9 DEF HeartbeatStep, HeartbeatRead, HeartbeatWrite, HeartbeatExit, HoldersHoldLease
<1> QED BY <1>1, <1>2, <1>3, <1>4, <1>5, <1>6, <1>7, <1>8, <1>9 DEF WorkerStep

LEMMA OthersHold ==
    ASSUME TypeOK, HoldersHoldLease,
           \/ QuietStep \/ ReconcileFinalize
           \/ \E p \in Previews : HeartbeatAges(p)
           \/ \E s \in Servers : Crash(s)
    PROVE  HoldersHoldLease'
<1> USE ClaimAssumption
<1>1. CASE OtherOperation
  BY <1>1 DEF OtherOperation, HoldersHoldLease
<1>2. CASE \E s \in Servers : Crash(s)
  <2> PICK s \in Servers : Crash(s)
    BY <1>2
  <2> SUFFICES ASSUME NEW c \in Calls, pc'[c] \in HoldingPhases
               PROVE  lease' = c
    BY DEF HoldersHoldLease
  <2>1. pc'[c] = pc[c] /\ ~(ServerOf[c] = s /\ pc[c] # "idle")
    BY DEF Crash, HoldingPhases, Phases, TypeOK
  <2>2. lease = c
    BY <2>1 DEF HoldersHoldLease
  <2> QED BY <2>1, <2>2 DEF Crash
<1>3. CASE QuietStep /\ ~OtherOperation
  BY <1>3 DEF QuietStep, ReconcilePreview, ReconcileAbort, ReconcileCheck,
     ArtifactExpires, StrayExecutorExits, HoldersHoldLease
<1>4. CASE ReconcileFinalize \/ \E p \in Previews : HeartbeatAges(p)
  BY <1>4 DEF ReconcileFinalize, HeartbeatAges, HoldersHoldLease
<1> QED BY <1>1, <1>2, <1>3, <1>4

LEMMA StepHolds == TypeOK /\ HoldersHoldLease /\ [Next]_vars => HoldersHoldLease'
<1> SUFFICES ASSUME TypeOK, HoldersHoldLease, [Next]_vars PROVE HoldersHoldLease'
  OBVIOUS
<1>1. CASE UNCHANGED vars
  BY <1>1 DEF vars, HoldersHoldLease
<1>2. CASE Next
  BY <1>2, NextByActor, RequestHolds, WorkerHolds, OthersHold
<1> QED BY <1>1, <1>2

-----------------------------------------------------------------------------
(* Two runs never drive an executor at the same time.                      *)
THEOREM RunsExcludeEachOther == Spec => []ProviderExclusive
<1>1. Init => TypeOK /\ HoldersHoldLease
  BY InitRunInv DEF RunInv
<1>2. TypeOK /\ HoldersHoldLease /\ [Next]_vars => (TypeOK /\ HoldersHoldLease)'
  BY StepTyped, StepHolds
<1>3. TypeOK /\ HoldersHoldLease => ProviderExclusive
  BY DEF HoldersHoldLease, ProviderExclusive, HoldingPhases, Phases
<1> QED BY <1>1, <1>2, <1>3, PTL DEF Spec

-----------------------------------------------------------------------------
(* The claim files.                                                        *)

(* A step that gives no claim file to another request and starts no        *)
(* ownership.                                                              *)
ClaimsStay ==
    /\ \A p \in Previews : /\ claims'[p].run = claims[p].run
                           /\ Readable(claims[p]) => Readable(claims'[p])
    /\ \A c \in Calls :
          /\ c \in ran' \/ pc'[c] \in OwningPhases \/ heartbeat'[c] # "off" => Owns(c)
          /\ pc'[c] = "created" => pc[c] = "created"
          /\ pc'[c] = "marking" => pc[c] = "marking" /\ loaded'[c] = loaded[c]

LEMMA StayOwned ==
    ASSUME OwnersOwnClaim, ClaimsStay
    PROVE  OwnersOwnClaim'
<1>p. \A c \in Calls : PreviewOf[c] \in Previews
  BY ClaimAssumption
<1>1. \A c \in Calls : Owns(c)' => Claim(c)'.run = c
  BY <1>p DEF OwnersOwnClaim, ClaimsStay, Owns, Claim
<1>2. \A p \in Previews : ~Readable(claims'[p]) => claims'[p].run = None
  BY DEF OwnersOwnClaim, ClaimsStay
<1>3. \A c \in Calls : pc'[c] = "created" => Claim(c)'.run = None
  BY <1>p DEF OwnersOwnClaim, ClaimsStay, Claim
<1>4. \A c \in Calls : pc'[c] = "marking" => loaded'[c] \notin {"absent", "unreadable"}
  BY DEF OwnersOwnClaim, ClaimsStay
<1> QED BY <1>1, <1>2, <1>3, <1>4 DEF OwnersOwnClaim

(* Writing a readable status over a claim file without changing its run.   *)
LEMMA WriteStays ==
    ASSUME TypeOK, NEW p \in Previews, NEW status, NEW run,
           status \notin {"absent", "unreadable"}, run = claims[p].run,
           WriteClaim(p, status, run)
    PROVE  \A q \in Previews : /\ claims'[q].run = claims[q].run
                               /\ Readable(claims[q]) => Readable(claims'[q])
<1>1. claims'[p] = [status |-> status, run |-> run, fresh |-> TRUE]
  BY DEF WriteClaim, TypeOK
<1>2. \A q \in Previews : q # p => claims'[q] = claims[q]
  BY DEF WriteClaim, TypeOK
<1> QED BY <1>1, <1>2 DEF Readable

(* A step of c between the phases in which it owns its claim, or out of    *)
(* them, with or without a write.                                          *)
LEMMA MoveOwned ==
    ASSUME TypeOK, OwnersOwnClaim, NEW c \in Calls, NEW phase \in Phases, Goto(c, phase),
           phase # "created",
           phase # "marking",
           phase \in OwningPhases => Owns(c),
           \A d \in Calls : d # c => loaded'[d] = loaded[d],
           ran' \subseteq ran \cup {d \in {c} : Owns(c)},
           \A d \in Calls : heartbeat'[d] # "off" => heartbeat[d] # "off" \/ (d = c /\ Owns(c)),
           \A q \in Previews : /\ claims'[q].run = claims[q].run
                               /\ Readable(claims[q]) => Readable(claims'[q])
    PROVE  OwnersOwnClaim'
<1>1. \A d \in Calls : pc'[d] = IF d = c THEN phase ELSE pc[d]
  BY DEF Goto, TypeOK
<1>2. ClaimsStay
  BY <1>1 DEF ClaimsStay, Owns
<1> QED BY <1>2, StayOwned

LEMMA CreateOwned ==
    ASSUME TypeOK, HoldersHoldLease, OwnersOwnClaim, NEW c \in Calls, CreateClaimFile(c)
    PROVE  OwnersOwnClaim'
<1>p. \A d \in Calls : PreviewOf[d] \in Previews
  BY ClaimAssumption
<1>1. CASE Claim(c).status # "absent"
  <2>1. UNCHANGED <<claims, ran, heartbeat, loaded>> /\ Goto(c, "done")
    BY <1>1 DEF CreateClaimFile
  <2> QED BY <2>1, MoveOwned DEF Phases, OwningPhases, HoldingPhases
<1>2. CASE Claim(c).status = "absent"
  <2>1. /\ Goto(c, "created")
        /\ claims' = [claims EXCEPT ![PreviewOf[c]] =
              [status |-> "unreadable", run |-> None, fresh |-> FALSE]]
        /\ UNCHANGED <<ran, heartbeat, loaded>>
    BY <1>2 DEF CreateClaimFile
  <2>2. Claim(c).run = None
    BY <1>2, <1>p DEF OwnersOwnClaim, Readable, Claim
  <2>3. \A q \in Previews :
           claims'[q] = IF q = PreviewOf[c]
                          THEN [status |-> "unreadable", run |-> None, fresh |-> FALSE]
                          ELSE claims[q]
    BY <2>1, <1>p DEF TypeOK
  <2>4. \A d \in Calls : pc'[d] = IF d = c THEN "created" ELSE pc[d]
    BY <2>1 DEF Goto, TypeOK
  <2>5. \A q \in Previews : claims'[q].run = claims[q].run
    BY <2>2, <2>3 DEF Claim
  <2>6. \A d \in Calls : Owns(d)' => Claim(d)'.run = d
    <3>1. \A d \in Calls : Owns(d)' => Owns(d)
      BY <2>1, <2>4 DEF Owns, OwningPhases, HoldingPhases
    <3> QED BY <3>1, <2>5, <1>p DEF OwnersOwnClaim, Claim
  <2>7. \A q \in Previews : ~Readable(claims'[q]) => claims'[q].run = None
    BY <2>3 DEF OwnersOwnClaim
  <2>8. \A d \in Calls : pc'[d] = "created" => Claim(d)'.run = None
    BY <2>2, <2>4, <2>5, <1>p DEF OwnersOwnClaim, Claim
  <2>9. \A d \in Calls : pc'[d] = "marking" => loaded'[d] \notin {"absent", "unreadable"}
    BY <2>1, <2>4 DEF OwnersOwnClaim
  <2> QED BY <2>6, <2>7, <2>8, <2>9 DEF OwnersOwnClaim
<1> QED BY <1>1, <1>2

(* The record is written under the lease: no other request is between the  *)
(* creation of a claim file and its record, and no request owns the file.  *)
LEMMA RowOwned ==
    ASSUME TypeOK, HoldersHoldLease, OwnersOwnClaim, NEW c \in Calls, WriteClaimRecord(c),
           NEW row, NEW phase, Goto(c, phase),
           claims' = [claims EXCEPT ![PreviewOf[c]] = row],
           \/ row.run = c /\ row.status = "RUNNING" /\ phase \in {"claimed", "running"}
              /\ ran' \subseteq ran \cup {c}
           \/ row.run = None /\ phase = "done" /\ ran' = ran
    PROVE  OwnersOwnClaim'
<1>p. \A d \in Calls : PreviewOf[d] \in Previews /\ d # None
  BY ClaimAssumption
<1>1. UNCHANGED <<heartbeat, loaded>> /\ pc[c] = "created"
  BY DEF WriteClaimRecord
<1>2. \A q \in Previews : claims'[q] = IF q = PreviewOf[c] THEN row ELSE claims[q]
  BY <1>p DEF TypeOK
<1>3. \A d \in Calls : pc'[d] = IF d = c THEN phase ELSE pc[d]
  BY DEF Goto, TypeOK
<1>4. \A d \in Calls : Owns(d) => PreviewOf[d] # PreviewOf[c]
  BY <1>1, <1>p DEF OwnersOwnClaim, Claim
<1>5. \A d \in Calls : pc'[d] = "created" => FALSE
  BY <1>1, <1>3 DEF HoldersHoldLease, HoldingPhases, Phases
<1>6. \A d \in Calls : Owns(d)' => Claim(d)'.run = d
  <2> SUFFICES ASSUME NEW d \in Calls, Owns(d)' PROVE Claim(d)'.run = d
    OBVIOUS
  <2>1. CASE Owns(d)
    BY <2>1, <1>2, <1>4, <1>p DEF OwnersOwnClaim, Claim
  <2>2. CASE ~Owns(d)
    <3>1. d = c /\ row.run = c
      BY <2>2, <1>1, <1>3 DEF Owns, OwningPhases, HoldingPhases
    <3> QED BY <3>1, <1>2, <1>p DEF Claim
  <2> QED BY <2>1, <2>2
<1>7. \A q \in Previews : ~Readable(claims'[q]) => claims'[q].run = None
  BY <1>2 DEF OwnersOwnClaim, Readable
<1>8. \A d \in Calls : pc'[d] = "marking" => loaded'[d] \notin {"absent", "unreadable"}
  BY <1>1, <1>3 DEF OwnersOwnClaim
<1> QED BY <1>5, <1>6, <1>7, <1>8 DEF OwnersOwnClaim

LEMMA RecordOwned ==
    ASSUME TypeOK, HoldersHoldLease, OwnersOwnClaim, NEW c \in Calls, WriteClaimRecord(c)
    PROVE  OwnersOwnClaim'
<1> DEFINE written == [status |-> "RUNNING", run |-> c, fresh |-> TRUE]
<1>1. CASE WriteClaim(PreviewOf[c], "RUNNING", c)
           /\ Goto(c, IF Once(c) THEN "claimed" ELSE "running")
           /\ ran' = IF Once(c) THEN ran ELSE ran \cup {c}
  <2>1. written.run = c /\ written.status = "RUNNING"
    OBVIOUS
  <2>2. claims' = [claims EXCEPT ![PreviewOf[c]] = written]
    BY <1>1 DEF WriteClaim
  <2> HIDE DEF written
  <2>3. CASE Once(c)
    <3>1. Goto(c, "claimed") /\ ran' \subseteq ran \cup {c}
      BY <1>1, <2>3
    <3> QED BY <2>1, <2>2, <3>1, RowOwned
  <2>4. CASE ~Once(c)
    <3>1. Goto(c, "running") /\ ran' \subseteq ran \cup {c}
      BY <1>1, <2>4
    <3> QED BY <2>1, <2>2, <3>1, RowOwned
  <2> QED BY <2>3, <2>4
<1>2. ASSUME NEW left \in {"absent", "unreadable"},
             claims' = [claims EXCEPT ![PreviewOf[c]] =
                 [status |-> left, run |-> None, fresh |-> FALSE]],
             Goto(c, "done"), ran' = ran
      PROVE  OwnersOwnClaim'
  <2> DEFINE removed == [status |-> left, run |-> None, fresh |-> FALSE]
  <2>1. removed.run = None
    OBVIOUS
  <2>2. claims' = [claims EXCEPT ![PreviewOf[c]] = removed]
    BY <1>2
  <2> HIDE DEF removed
  <2> QED BY <1>2, <2>1, <2>2, RowOwned
<1> QED BY <1>1, <1>2 DEF WriteClaimRecord

LEMMA RequestOwned ==
    ASSUME TypeOK, HoldersHoldLease, OwnersOwnClaim, NEW c \in Calls,
           ValidatePreview(c) \/ RequestStep(c)
    PROVE  OwnersOwnClaim'
<1> USE DEF OwningPhases, HoldingPhases, Phases
<1>p. PreviewOf[c] \in Previews /\ c # None
  BY ClaimAssumption
<1>1. CASE ValidatePreview(c)
  BY <1>1, MoveOwned DEF ValidatePreview
<1>2. CASE AcquireLease(c)
  BY <1>2, MoveOwned DEF AcquireLease
<1>3. CASE RecheckUnderLease(c)
  BY <1>3, MoveOwned DEF RecheckUnderLease
<1>4. CASE CreateClaimFile(c)
  BY <1>4, CreateOwned
<1>5. CASE WriteClaimRecord(c)
  BY <1>5, RecordOwned
<1>6. CASE MarkWorkerRead(c)
  <2>1. Claim(c).run = c
    BY <1>6 DEF MarkWorkerRead, OwnersOwnClaim, Owns
  <2>2. Readable(Claim(c))
    BY <2>1, <1>p DEF OwnersOwnClaim, Claim
  <2>3. loaded'[c] \notin {"absent", "unreadable"}
    BY <1>6, <2>2 DEF MarkWorkerRead, Readable, TypeOK
  <2>4. \A d \in Calls : d # c => loaded'[d] = loaded[d] /\ pc'[d] = pc[d]
    BY <1>6 DEF MarkWorkerRead, Goto, TypeOK
  <2>5. pc'[c] = "marking" /\ Owns(c)
    BY <1>6 DEF MarkWorkerRead, Goto, TypeOK, Owns
  <2>6. UNCHANGED <<claims, ran, heartbeat>>
    BY <1>6 DEF MarkWorkerRead
  <2>7. \A d \in Calls : Owns(d)' => Owns(d)
    BY <2>4, <2>5, <2>6 DEF Owns
  <2> QED BY <2>3, <2>4, <2>5, <2>6, <2>7 DEF OwnersOwnClaim, Claim
<1>7. CASE MarkWorkerWrite(c)
  <2>1. Claim(c).run = c /\ loaded[c] \notin {"absent", "unreadable"} /\ Owns(c)
    BY <1>7 DEF MarkWorkerWrite, OwnersOwnClaim, Owns
  <2>2. \A q \in Previews : /\ claims'[q].run = claims[q].run
                            /\ Readable(claims[q]) => Readable(claims'[q])
    BY <1>7, <1>p, <2>1, WriteStays DEF MarkWorkerWrite, Claim
  <2> QED BY <1>7, <2>1, <2>2, MoveOwned DEF MarkWorkerWrite, FailToStart
<1>8. CASE StartWorker(c)
  <2>1. Owns(c)
    BY <1>8 DEF StartWorker, Owns
  <2> QED BY <1>8, <2>1, MoveOwned DEF StartWorker, FailToStart
<1> QED BY <1>1, <1>2, <1>3, <1>4, <1>5, <1>6, <1>7, <1>8 DEF RequestStep

LEMMA WorkerOwned ==
    ASSUME TypeOK, OwnersOwnClaim, NEW c \in Calls, WorkerStep(c) \/ HeartbeatStep(c)
    PROVE  OwnersOwnClaim'
<1> USE DEF OwningPhases, HoldingPhases, Phases
<1>p. PreviewOf[c] \in Previews
  BY ClaimAssumption
<1>o. Owns(c)
  BY DEF WorkerStep, StartHeartbeat, WorkerRefreshRead, WorkerRefreshWrite,
     ProviderReturns, JoinHeartbeat, DeleteArtifact, FinalizeClaim, ReleaseLease,
     HeartbeatStep, HeartbeatRead, HeartbeatWrite, HeartbeatExit, Owns
<1>r. Claim(c).run = c
  BY <1>o DEF OwnersOwnClaim
<1>1. CASE StartHeartbeat(c)
  <2>1. \A d \in Calls : d # c => heartbeat'[d] = heartbeat[d]
    BY <1>1 DEF StartHeartbeat, TypeOK
  <2> QED BY <1>1, <1>o, <2>1, MoveOwned DEF StartHeartbeat
<1>2. CASE WorkerRefreshRead(c)
  <2>1. \A d \in Calls : d # c => loaded'[d] = loaded[d]
    BY <1>2 DEF WorkerRefreshRead, TypeOK
  <2> QED BY <1>2, <1>o, <2>1, MoveOwned DEF WorkerRefreshRead
<1>3. CASE WorkerRefreshWrite(c)
  <2>1. \A q \in Previews : /\ claims'[q].run = claims[q].run
                            /\ Readable(claims[q]) => Readable(claims'[q])
    BY <1>3, <1>p, <1>r, WriteStays DEF WorkerRefreshWrite, Claim
  <2> QED BY <1>3, <1>o, <2>1, MoveOwned DEF WorkerRefreshWrite
<1>4. CASE ProviderReturns(c)
  BY <1>4, <1>o, MoveOwned DEF ProviderReturns
<1>5. CASE JoinHeartbeat(c)
  BY <1>5, <1>o, MoveOwned DEF JoinHeartbeat
<1>6. CASE DeleteArtifact(c)
  BY <1>6, <1>o, MoveOwned DEF DeleteArtifact
<1>7. CASE FinalizeClaim(c)
  <2>1. final_status(c) \notin {"absent", "unreadable"}
    BY DEF final_status
  <2>2. \A q \in Previews : /\ claims'[q].run = claims[q].run
                            /\ Readable(claims[q]) => Readable(claims'[q])
    BY <1>7, <1>p, <1>r, <2>1, WriteStays DEF FinalizeClaim, Claim
  <2> QED BY <1>7, <1>o, <2>2, MoveOwned DEF FinalizeClaim
<1>8. CASE ReleaseLease(c)
  BY <1>8, <1>o, MoveOwned DEF ReleaseLease
<1>9. CASE HeartbeatStep(c)
  <2>1. UNCHANGED <<pc, loaded, ran>>
    BY <1>9 DEF HeartbeatStep, HeartbeatRead, HeartbeatWrite, HeartbeatExit
  <2>2. \A d \in Calls : heartbeat'[d] # "off" => heartbeat[d] # "off"
    BY <1>9 DEF HeartbeatStep, HeartbeatRead, HeartbeatWrite, HeartbeatExit, TypeOK
  <2>3. \A q \in Previews : /\ claims'[q].run = claims[q].run
                            /\ Readable(claims[q]) => Readable(claims'[q])
    BY <1>9, <1>p, <1>r, WriteStays
       DEF HeartbeatStep, HeartbeatRead, HeartbeatWrite, HeartbeatExit, Claim
  <2>4. ClaimsStay
    BY <2>1, <2>2, <2>3 DEF ClaimsStay, Owns
  <2> QED BY <2>4, StayOwned
<1> QED BY <1>1, <1>2, <1>3, <1>4, <1>5, <1>6, <1>7, <1>8, <1>9 DEF WorkerStep

LEMMA OthersOwned ==
    ASSUME TypeOK, OwnersOwnClaim,
           \/ QuietStep \/ ReconcileFinalize
           \/ \E p \in Previews : HeartbeatAges(p)
           \/ \E s \in Servers : Crash(s)
    PROVE  OwnersOwnClaim'
<1>1. ClaimsStay
  <2>1. CASE QuietStep
    <3>1. UNCHANGED <<claims, pc, loaded, heartbeat, ran>>
      BY <2>1 DEF QuietStep, ReconcilePreview, ReconcileAbort, OtherOperation,
         ReconcileCheck, ArtifactExpires, StrayExecutorExits
    <3> QED BY <3>1 DEF ClaimsStay, Owns
  <2>2. CASE ReconcileFinalize
    <3>1. reconciling \in Previews
      BY <2>2 DEF ReconcileFinalize, TypeOK
    <3>2. \A q \in Previews : /\ claims'[q].run = claims[q].run
                              /\ Readable(claims[q]) => Readable(claims'[q])
      <4>1. WriteClaim(reconciling, "FAILED", claims[reconciling].run)
        BY <2>2 DEF ReconcileFinalize
      <4>2. "FAILED" \notin {"absent", "unreadable"}
        OBVIOUS
      <4> DEFINE owner == claims[reconciling].run
      <4>3. WriteClaim(reconciling, "FAILED", owner)
        BY <4>1
      <4>4. owner = claims[reconciling].run
        OBVIOUS
      <4> HIDE DEF owner
      <4> QED BY <3>1, <4>2, <4>3, <4>4, WriteStays
    <3>3. UNCHANGED <<pc, loaded, heartbeat, ran>>
      BY <2>2 DEF ReconcileFinalize
    <3> QED BY <3>2, <3>3 DEF ClaimsStay, Owns
  <2>3. ASSUME NEW p \in Previews, HeartbeatAges(p)
        PROVE  ClaimsStay
    <3>1. \A q \in Previews :
             claims'[q] = IF q = p
               THEN [status |-> "RUNNING", run |-> claims[p].run, fresh |-> FALSE]
               ELSE claims[q]
      BY <2>3 DEF HeartbeatAges, TypeOK
    <3>2. \A q \in Previews : /\ claims'[q].run = claims[q].run
                              /\ Readable(claims[q]) => Readable(claims'[q])
      BY <3>1 DEF Readable
    <3> QED BY <2>3, <3>2 DEF HeartbeatAges, ClaimsStay, Owns
  <2>4. ASSUME NEW s \in Servers, Crash(s)
        PROVE  ClaimsStay
    <3>1. \A c \in Calls : pc'[c] \in {pc[c], "dead"}
      BY <2>4 DEF Crash, TypeOK
    <3>2. \A c \in Calls : heartbeat'[c] \in {heartbeat[c], "off"}
      BY <2>4 DEF Crash, TypeOK
    <3> QED BY <3>2, <2>4, <3>1 DEF Crash, ClaimsStay, Owns, OwningPhases, HoldingPhases
  <2> QED BY <2>1, <2>2, <2>3, <2>4
<1> QED BY <1>1, StayOwned

LEMMA StepRunInv == RunInv /\ [Next]_vars => RunInv'
<1> SUFFICES ASSUME RunInv, [Next]_vars PROVE RunInv'
  OBVIOUS
<1>1. TypeOK' /\ HoldersHoldLease'
  BY StepTyped, StepHolds DEF RunInv
<1>2. OwnersOwnClaim'
  <2>1. CASE UNCHANGED vars
    <3>1. ClaimsStay
      BY <2>1 DEF vars, ClaimsStay, Owns
    <3> QED BY <3>1, StayOwned DEF RunInv
  <2>2. CASE Next
    BY <2>2, NextByActor, RequestOwned, WorkerOwned, OthersOwned DEF RunInv
  <2> QED BY <2>1, <2>2
<1> QED BY <1>1, <1>2 DEF RunInv

(* A preview is executed at most once: the executor runs only for the      *)
(* request whose run_id its claim file carries, and no step changes that.  *)
THEOREM PreviewsRunOnce == Spec => []RunsOncePerPreview
<1>1. RunInv => RunsOncePerPreview
  BY DEF RunInv, TypeOK, OwnersOwnClaim, Owns, Claim, RunsOncePerPreview
<1> QED BY <1>1, InitRunInv, StepRunInv, PTL DEF Spec
-----------------------------------------------------------------------------
(* When nothing stalls and every write succeeds: what a claim file says of *)
(* its run while the run is going on, and after it.                        *)

HeartbeatPhases == {"warming", "warm", "running", "joining"}
StartPhases == {"claimed", "marking", "marked", "started", "warming", "warm"}
RunPhases ==
    StartPhases \cup {"running", "joining", "joined", "refreshing", "refreshed", "deleted"}
RanPhases == (RunPhases \ StartPhases) \cup {"finalized", "done", "dead"}
Ended(c) == pc[c] = "finalized" \/ (pc[c] = "done" /\ c \in ran)

(* The heartbeat is joined before the run ends, so that nothing writes the *)
(* claim after it was finalized.                                           *)
CallIsSound(c) ==
    /\ heartbeat[c] # "off" => Once(c) /\ pc[c] \in HeartbeatPhases
    /\ pc[c] \in StartPhases => Once(c)
    /\ c \in ran => pc[c] \in RanPhases
    /\ Ended(c) => Claim(c).status \in {final_status(c), "FAILED"}

(* A claim that reads RUNNING is the one of a run that goes on, or that    *)
(* was killed.                                                             *)
FileIsSound(p) ==
    claims[p].status = "RUNNING" =>
        \E c \in Calls : /\ claims[p].run = c /\ PreviewOf[c] = p
                         /\ pc[c] \in RunPhases \cup {"dead"}

RunsAreSound == (\A c \in Calls : CallIsSound(c)) /\ (\A p \in Previews : FileIsSound(p))

OnlyMoves(c) ==
    /\ \A d \in Calls \ {c} : /\ pc'[d] = pc[d] /\ heartbeat'[d] = heartbeat[d]
                              /\ outcome'[d] = outcome[d] /\ (d \in ran' <=> d \in ran)
    /\ \A q \in Previews \ {PreviewOf[c]} : claims'[q] = claims[q]

LEMMA EndedOwns ==
    ASSUME RunInv, NEW c \in Calls, Ended(c)
    PROVE  Claim(c).run = c
BY DEF RunInv, OwnersOwnClaim, Owns, Ended, OwningPhases, HoldingPhases, Phases

LEMMA OneCallMoves ==
    ASSUME RunInv, RunsAreSound, NEW c \in Calls, OnlyMoves(c),
           claims' = claims \/ Claim(c).run \in {c, None},
           CallIsSound(c)',
           \/ Claim(c)'.status # "RUNNING"
           \/ Claim(c)'.run = c /\ pc'[c] \in RunPhases
           \/ claims' = claims /\ (pc[c] \in RunPhases \cup {"dead"} => pc'[c] \in RunPhases \cup {"dead"})
    PROVE  RunsAreSound'
<1>p. \A d \in Calls : PreviewOf[d] \in Previews /\ d # None
  BY ClaimAssumption
<1>1. ASSUME NEW d \in Calls PROVE CallIsSound(d)'
  <2>1. CASE d = c
    BY <2>1
  <2>2. CASE d # c
    <3>1. /\ pc'[d] = pc[d] /\ heartbeat'[d] = heartbeat[d]
          /\ outcome'[d] = outcome[d] /\ (d \in ran' <=> d \in ran)
      BY <2>2 DEF OnlyMoves
    <3>2. CallIsSound(d)
      BY DEF RunsAreSound
    <3>3. Ended(d)' => Ended(d)
      BY <3>1 DEF Ended
    <3>4. final_status(d)' = final_status(d)
      BY <3>1 DEF final_status, Once
    <3>5. Ended(d) => Claim(d)' = Claim(d)
      <4>1. CASE PreviewOf[d] # PreviewOf[c]
        BY <1>p, <4>1 DEF OnlyMoves, Claim
      <4>2. CASE PreviewOf[d] = PreviewOf[c] /\ Ended(d)
        <5>1. Claim(c).run = d
          BY <4>2, EndedOwns DEF Claim
        <5> QED BY <1>p, <2>2, <5>1 DEF Claim
      <4> QED BY <4>1, <4>2
    <3> QED BY <3>1, <3>2, <3>3, <3>4, <3>5 DEF CallIsSound, Once
  <2> QED BY <2>1, <2>2
<1>2. ASSUME NEW p \in Previews PROVE FileIsSound(p)'
  <2>1. FileIsSound(p)
    BY DEF RunsAreSound
  <2>2. CASE claims'[p] = claims[p] /\ (\A d \in Calls : d = c /\ PreviewOf[d] = p =>
                (pc[d] \in RunPhases \cup {"dead"} => pc'[d] \in RunPhases \cup {"dead"}))
    <3> SUFFICES ASSUME claims'[p].status = "RUNNING"
                 PROVE  \E d \in Calls : /\ claims'[p].run = d /\ PreviewOf[d] = p
                                         /\ pc'[d] \in RunPhases \cup {"dead"}
      BY DEF FileIsSound
    <3>1. PICK d \in Calls : /\ claims[p].run = d /\ PreviewOf[d] = p
                             /\ pc[d] \in RunPhases \cup {"dead"}
      BY <2>1, <2>2 DEF FileIsSound
    <3>2. pc'[d] \in RunPhases \cup {"dead"}
      BY <2>2, <3>1 DEF OnlyMoves
    <3> QED BY <2>2, <3>1, <3>2
  <2>3. CASE p # PreviewOf[c]
    BY <2>2, <2>3 DEF OnlyMoves
  <2>4. CASE p = PreviewOf[c]
    <3>1. CASE Claim(c)'.status # "RUNNING"
      BY <2>4, <3>1 DEF FileIsSound, Claim
    <3>2. CASE Claim(c)'.run = c /\ pc'[c] \in RunPhases
      BY <2>4, <3>2 DEF FileIsSound, Claim
    <3>3. CASE claims' = claims /\ (pc[c] \in RunPhases \cup {"dead"} => pc'[c] \in RunPhases \cup {"dead"})
      BY <2>2, <3>3
    <3> QED BY <3>1, <3>2, <3>3
  <2> QED BY <2>3, <2>4
<1> QED BY <1>1, <1>2 DEF RunsAreSound

LEMMA RequestSound ==
    ASSUME RunInv, RunsAreSound, faults = {}, NEW c \in Calls,
           ValidatePreview(c) \/ RequestStep(c)
    PROVE  RunsAreSound'
<1> USE DEF RanPhases, RunPhases, StartPhases, HeartbeatPhases
<1>p. PreviewOf[c] \in Previews /\ c # None
  BY ClaimAssumption
<1>s. TypeOK /\ CallIsSound(c) /\ ~WritesFail
  BY DEF RunInv, RunsAreSound, WritesFail
<1>1. CASE ValidatePreview(c) \/ AcquireLease(c) \/ RecheckUnderLease(c)
  <2>1. /\ UNCHANGED <<claims, heartbeat, outcome, ran>>
        /\ pc[c] \in {"idle", "validated", "leased"}
        /\ pc'[c] \in {"validated", "leased", "cleared", "done"}
        /\ \A d \in Calls \ {c} : pc'[d] = pc[d]
    BY <1>1, <1>s DEF ValidatePreview, AcquireLease, RecheckUnderLease, Goto, TypeOK
  <2>2. OnlyMoves(c)
    BY <2>1 DEF OnlyMoves
  <2>3. CallIsSound(c)'
    BY <1>s, <2>1 DEF CallIsSound, Ended
  <2> QED BY <2>1, <2>2, <2>3, OneCallMoves
<1>4. CASE CreateClaimFile(c)
  <2>1. /\ UNCHANGED <<heartbeat, outcome, ran>> /\ pc[c] = "cleared"
        /\ pc'[c] \in {"created", "done"} /\ \A d \in Calls \ {c} : pc'[d] = pc[d]
    BY <1>4, <1>s DEF CreateClaimFile, Goto, TypeOK
  <2>2. \/ claims' = claims
        \/ /\ Claim(c).status = "absent"
           /\ claims' = [claims EXCEPT ![PreviewOf[c]] =
                 [status |-> "unreadable", run |-> None, fresh |-> FALSE]]
    BY <1>4 DEF CreateClaimFile
  <2>3. OnlyMoves(c)
    BY <2>1, <2>2, <1>p, <1>s DEF OnlyMoves, TypeOK
  <2>4. CallIsSound(c)'
    BY <1>s, <2>1 DEF CallIsSound, Ended
  <2>5. claims' = claims \/ (Claim(c).run = None /\ Claim(c)'.status # "RUNNING")
    BY <2>2, <1>p, <1>s DEF RunInv, OwnersOwnClaim, Readable, Claim, TypeOK
  <2> QED BY <2>1, <2>3, <2>4, <2>5, OneCallMoves
<1>5. CASE WriteClaimRecord(c)
  <2>1. /\ UNCHANGED <<heartbeat, outcome>> /\ pc[c] = "created"
        /\ WriteClaim(PreviewOf[c], "RUNNING", c)
        /\ ran' = IF Once(c) THEN ran ELSE ran \cup {c}
        /\ pc'[c] = IF Once(c) THEN "claimed" ELSE "running"
        /\ \A d \in Calls \ {c} : pc'[d] = pc[d]
    BY <1>5, <1>s DEF WriteClaimRecord, Goto, TypeOK
  <2>2. /\ Claim(c)'.run = c
        /\ \A q \in Previews \ {PreviewOf[c]} : claims'[q] = claims[q]
    BY <2>1, <1>p, <1>s DEF WriteClaim, TypeOK, Claim
  <2>3. OnlyMoves(c)
    BY <2>1, <2>2 DEF OnlyMoves
  <2>4. CallIsSound(c)'
    BY <1>s, <2>1 DEF CallIsSound, Ended, Once
  <2>5. Claim(c).run = None
    BY <2>1 DEF RunInv, OwnersOwnClaim
  <2> QED BY <2>1, <2>2, <2>3, <2>4, <2>5, OneCallMoves
<1>6. CASE MarkWorkerRead(c) \/ StartWorker(c)
  <2>1. /\ UNCHANGED <<claims, heartbeat, ran>> /\ pc[c] \in {"claimed", "marked"}
        /\ pc'[c] \in {"marking", "started", "refreshed"}
        /\ \A d \in Calls \ {c} : pc'[d] = pc[d] /\ outcome'[d] = outcome[d]
    BY <1>6, <1>s DEF MarkWorkerRead, StartWorker, FailToStart, Goto, TypeOK
  <2>2. OnlyMoves(c)
    BY <2>1 DEF OnlyMoves
  <2>3. CallIsSound(c)'
    BY <1>s, <2>1 DEF CallIsSound, Ended, Once
  <2> QED BY <2>1, <2>2, <2>3, OneCallMoves
<1>7. CASE MarkWorkerWrite(c)
  <2>1. /\ UNCHANGED <<heartbeat, ran, outcome>> /\ pc[c] = "marking" /\ pc'[c] = "marked"
        /\ WriteClaim(PreviewOf[c], loaded[c], c)
        /\ \A d \in Calls \ {c} : pc'[d] = pc[d]
    BY <1>7, <1>s DEF MarkWorkerWrite, Goto, TypeOK
  <2>2. /\ Claim(c)'.run = c
        /\ \A q \in Previews \ {PreviewOf[c]} : claims'[q] = claims[q]
    BY <2>1, <1>p, <1>s DEF WriteClaim, TypeOK, Claim
  <2>3. OnlyMoves(c)
    BY <2>1, <2>2 DEF OnlyMoves
  <2>4. CallIsSound(c)'
    BY <1>s, <2>1 DEF CallIsSound, Ended, Once
  <2>5. Claim(c).run = c
    BY <2>1 DEF RunInv, OwnersOwnClaim, Owns, OwningPhases, HoldingPhases, Phases
  <2> QED BY <2>1, <2>2, <2>3, <2>4, <2>5, OneCallMoves
<1> QED BY <1>1, <1>4, <1>5, <1>6, <1>7 DEF RequestStep
LEMMA WorkerSound ==
    ASSUME RunInv, RunsAreSound, faults = {}, NEW c \in Calls,
           WorkerStep(c) \/ HeartbeatStep(c)
    PROVE  RunsAreSound'
<1> USE DEF RanPhases, RunPhases, StartPhases, HeartbeatPhases
<1>p. PreviewOf[c] \in Previews /\ c # None
  BY ClaimAssumption
<1>s. TypeOK /\ CallIsSound(c) /\ ~WritesFail /\ ~HeartbeatStalls
  BY DEF RunInv, RunsAreSound, WritesFail, HeartbeatStalls
<1>r. Claim(c).run = c
  <2>1. Owns(c)
    BY DEF WorkerStep, StartHeartbeat, WorkerRefreshRead, WorkerRefreshWrite,
       ProviderReturns, JoinHeartbeat, DeleteArtifact, FinalizeClaim, ReleaseLease,
       HeartbeatStep, HeartbeatRead, HeartbeatWrite, HeartbeatExit, Owns,
       OwningPhases, HoldingPhases, Phases
  <2> QED BY <2>1 DEF RunInv, OwnersOwnClaim
<1>w. ASSUME NEW status, WriteClaim(PreviewOf[c], status, c)
      PROVE  /\ Claim(c)'.status = status /\ Claim(c)'.run = c
             /\ \A q \in Previews \ {PreviewOf[c]} : claims'[q] = claims[q]
  BY <1>p, <1>s, <1>w DEF WriteClaim, TypeOK, Claim
<1>1. CASE StartHeartbeat(c)
  <2>1. /\ UNCHANGED <<claims, ran>> /\ pc[c] = "started"
        /\ \/ pc'[c] = "warming" /\ heartbeat'[c] = "waiting"
           \/ pc'[c] = "joining" /\ heartbeat'[c] = heartbeat[c]
        /\ \A d \in Calls \ {c} : /\ pc'[d] = pc[d] /\ outcome'[d] = outcome[d]
                                  /\ heartbeat'[d] = heartbeat[d]
    BY <1>1, <1>s DEF StartHeartbeat, Goto, TypeOK
  <2>2. OnlyMoves(c)
    BY <2>1 DEF OnlyMoves
  <2>3. CallIsSound(c)'
    BY <1>s, <2>1 DEF CallIsSound, Ended, Once
  <2> QED BY <2>1, <2>2, <2>3, OneCallMoves
<1>2. CASE WorkerRefreshRead(c) \/ ProviderReturns(c) \/ JoinHeartbeat(c) \/ DeleteArtifact(c)
  <2>1. /\ UNCHANGED <<claims, ran, heartbeat>>
        /\ \/ pc[c] = "warming" /\ pc'[c] = "warm"
           \/ pc[c] = "joined" /\ pc'[c] = "refreshing"
           \/ pc[c] = "running" /\ pc'[c] = IF Once(c) THEN "joining" ELSE "refreshed"
           \/ pc[c] = "joining" /\ pc'[c] = "joined" /\ heartbeat[c] = "off"
           \/ pc[c] = "refreshed" /\ pc'[c] = "deleted"
        /\ \A d \in Calls \ {c} : pc'[d] = pc[d] /\ outcome'[d] = outcome[d]
    BY <1>2, <1>s DEF WorkerRefreshRead, ProviderReturns, JoinHeartbeat, DeleteArtifact, Goto, TypeOK
  <2>2. OnlyMoves(c)
    BY <2>1 DEF OnlyMoves
  <2>3. CallIsSound(c)'
    BY <1>s, <2>1 DEF CallIsSound, Ended, Once
  <2> QED BY <2>1, <2>2, <2>3, OneCallMoves
<1>3. CASE WorkerRefreshWrite(c)
  <2>1. /\ UNCHANGED <<heartbeat, outcome>>
        /\ \/ pc[c] = "warm" /\ pc'[c] = "running" /\ ran' = ran \cup {c}
           \/ pc[c] = "refreshing" /\ pc'[c] = "refreshed" /\ ran' = ran
        /\ WriteClaim(PreviewOf[c], "RUNNING", c) \/ claims' = claims
        /\ \A d \in Calls \ {c} : pc'[d] = pc[d]
    BY <1>3, <1>s DEF WorkerRefreshWrite, Goto, TypeOK
  <2>2. OnlyMoves(c)
    BY <1>w, <2>1 DEF OnlyMoves
  <2>3. CallIsSound(c)'
    BY <1>s, <2>1 DEF CallIsSound, Ended, Once
  <2>4. claims' = claims \/ Claim(c)'.run = c
    BY <1>w, <2>1
  <2> QED BY <1>r, <2>1, <2>2, <2>3, <2>4, OneCallMoves
<1>4. CASE FinalizeClaim(c)
  <2>1. /\ UNCHANGED <<heartbeat, outcome, ran>> /\ pc[c] = "deleted" /\ pc'[c] = "finalized"
        /\ WriteClaim(PreviewOf[c], final_status(c), c)
        /\ \A d \in Calls \ {c} : pc'[d] = pc[d]
    BY <1>4, <1>s DEF FinalizeClaim, Goto, TypeOK
  <2>2. OnlyMoves(c)
    BY <1>w, <2>1 DEF OnlyMoves
  <2>3. Claim(c)'.status = final_status(c) /\ final_status(c)' = final_status(c)
    BY <1>w, <2>1 DEF final_status, Once
  <2>4. CallIsSound(c)'
    BY <1>s, <2>1, <2>3 DEF CallIsSound, Ended, Once
  <2>5. final_status(c) # "RUNNING"
    BY DEF final_status
  <2> QED BY <1>r, <2>2, <2>3, <2>4, <2>5, OneCallMoves
<1>5. CASE ReleaseLease(c)
  <2>1. /\ UNCHANGED <<claims, heartbeat, outcome, ran>> /\ pc[c] = "finalized" /\ pc'[c] = "done"
        /\ \A d \in Calls \ {c} : pc'[d] = pc[d]
    BY <1>5, <1>s DEF ReleaseLease, Goto, TypeOK
  <2>2. OnlyMoves(c)
    BY <2>1 DEF OnlyMoves
  <2>3. Claim(c)' = Claim(c) /\ final_status(c)' = final_status(c)
    BY <2>1 DEF final_status, Once, Claim
  <2>4. CallIsSound(c)'
    BY <1>s, <2>1, <2>3 DEF CallIsSound, Ended, Once
  <2> QED BY <2>1, <2>2, <2>4, OneCallMoves
<1>6. CASE HeartbeatStep(c)
  <2>1. /\ UNCHANGED <<pc, outcome, ran>> /\ heartbeat[c] # "off"
        /\ WriteClaim(PreviewOf[c], "RUNNING", c) \/ claims' = claims
        /\ \A d \in Calls \ {c} : heartbeat'[d] = heartbeat[d]
    BY <1>6, <1>s DEF HeartbeatStep, HeartbeatRead, HeartbeatWrite, HeartbeatExit, TypeOK
  <2>2. OnlyMoves(c)
    BY <1>w, <2>1 DEF OnlyMoves
  <2>3. pc[c] \in HeartbeatPhases /\ Once(c)
    BY <1>s, <2>1 DEF CallIsSound
  <2>4. CallIsSound(c)'
    BY <1>s, <2>1, <2>3 DEF CallIsSound, Ended, Once
  <2>5. claims' = claims \/ Claim(c)'.run = c
    BY <1>w, <2>1
  <2> QED BY <1>r, <2>1, <2>2, <2>3, <2>4, <2>5, OneCallMoves
<1> QED BY <1>1, <1>2, <1>3, <1>4, <1>5, <1>6 DEF WorkerStep

(* What touches no call, or kills calls: a claim may only be ended, or age *)
(* while it reads RUNNING.                                                 *)
LEMMA OthersSound ==
    ASSUME RunInv, RunsAreSound,
           \/ QuietStep \/ ReconcileFinalize
           \/ \E p \in Previews : HeartbeatAges(p)
           \/ \E s \in Servers : Crash(s)
    PROVE  RunsAreSound'
<1>p. \A c \in Calls : PreviewOf[c] \in Previews
  BY ClaimAssumption
<1>t. TypeOK
  BY DEF RunInv
<1>1. /\ UNCHANGED <<outcome, ran>>
      /\ \A c \in Calls : \/ pc'[c] = pc[c] /\ heartbeat'[c] = heartbeat[c]
                          \/ pc'[c] \in {"idle", "done"} /\ pc'[c] = pc[c] /\ heartbeat'[c] = "off"
                          \/ pc'[c] = "dead" /\ heartbeat'[c] = "off"
  <2>1. CASE QuietStep
    BY <2>1 DEF QuietStep, ReconcilePreview, ReconcileAbort, OtherOperation,
       ReconcileCheck, ArtifactExpires, StrayExecutorExits
  <2>2. CASE ReconcileFinalize \/ \E p \in Previews : HeartbeatAges(p)
    BY <2>2 DEF ReconcileFinalize, HeartbeatAges
  <2>3. CASE \E s \in Servers : Crash(s)
    BY <1>t, <2>3 DEF Crash, TypeOK
  <2> QED BY <2>1, <2>2, <2>3
<1>2. \A p \in Previews : \/ claims'[p] = claims[p]
                          \/ claims'[p].status = "FAILED"
                          \/ /\ claims[p].status = "RUNNING" /\ claims'[p].status = "RUNNING"
                             /\ claims'[p].run = claims[p].run
  <2>1. CASE QuietStep
    BY <2>1 DEF QuietStep, ReconcilePreview, ReconcileAbort, OtherOperation,
       ReconcileCheck, ArtifactExpires, StrayExecutorExits
  <2>2. CASE ReconcileFinalize
    BY <1>t, <2>2 DEF ReconcileFinalize, WriteClaim, TypeOK
  <2>3. CASE \E p \in Previews : HeartbeatAges(p)
    BY <1>t, <2>3 DEF HeartbeatAges, LooksAlive, TypeOK
  <2>4. CASE \E s \in Servers : Crash(s)
    BY <2>4 DEF Crash
  <2> QED BY <2>1, <2>2, <2>3, <2>4
<1>3. ASSUME NEW c \in Calls PROVE CallIsSound(c)'
  <2>1. CallIsSound(c)
    BY DEF RunsAreSound
  <2>2. Ended(c)' => Ended(c)
    BY <1>1 DEF Ended
  <2>3. final_status(c)' = final_status(c) /\ final_status(c) # "RUNNING"
    BY <1>1 DEF final_status, Once
  <2>4. Ended(c)' => Claim(c)'.status \in {final_status(c)', "FAILED"}
    BY <1>p, <1>2, <2>1, <2>2, <2>3 DEF CallIsSound, Claim
  <2> QED BY <1>1, <2>1, <2>4 DEF CallIsSound, Once, HeartbeatPhases, StartPhases, RanPhases, RunPhases
<1>4. ASSUME NEW p \in Previews PROVE FileIsSound(p)'
  <2>1. FileIsSound(p)
    BY DEF RunsAreSound
  <2>2. SUFFICES ASSUME claims'[p].status = "RUNNING"
                 PROVE  \E c \in Calls : /\ claims'[p].run = c /\ PreviewOf[c] = p
                                         /\ pc'[c] \in RunPhases \cup {"dead"}
    BY DEF FileIsSound
  <2>3. claims[p].status = "RUNNING" /\ claims'[p].run = claims[p].run
    BY <1>2, <2>2
  <2>4. PICK c \in Calls : /\ claims[p].run = c /\ PreviewOf[c] = p
                           /\ pc[c] \in RunPhases \cup {"dead"}
    BY <2>1, <2>3 DEF FileIsSound
  <2>5. pc'[c] \in RunPhases \cup {"dead"}
    BY <1>1, <2>4 DEF RunPhases, StartPhases
  <2> QED BY <2>3, <2>4, <2>5
<1> QED BY <1>3, <1>4 DEF RunsAreSound

FaultlessInv == RunInv /\ (faults = {} => RunsAreSound)

LEMMA FaultlessAlways == Spec => []FaultlessInv
<1>1. Init => FaultlessInv
  <2> SUFFICES ASSUME Init PROVE FaultlessInv
    OBVIOUS
  <2>1. \A c \in Calls : CallIsSound(c)
    BY DEF Init, CallIsSound, Ended, StartPhases
  <2>2. \A p \in Previews : FileIsSound(p)
    BY DEF Init, FileIsSound
  <2> QED BY <2>1, <2>2, InitRunInv DEF FaultlessInv, RunsAreSound
<1>2. FaultlessInv /\ [Next]_vars => FaultlessInv'
  <2> SUFFICES ASSUME FaultlessInv, [Next]_vars PROVE FaultlessInv'
    OBVIOUS
  <2>1. RunInv'
    BY StepRunInv DEF FaultlessInv
  <2>2. faults' = faults
    BY DEF Next, vars, RequestStep, ValidatePreview, AcquireLease, RecheckUnderLease,
       CreateClaimFile, WriteClaimRecord, MarkWorkerRead, MarkWorkerWrite, StartWorker,
       WorkerStep, StartHeartbeat, WorkerRefreshRead, WorkerRefreshWrite, ProviderReturns,
       JoinHeartbeat, DeleteArtifact, FinalizeClaim, ReleaseLease, HeartbeatStep,
       HeartbeatRead, HeartbeatWrite, HeartbeatExit, ReconcileStep, ReconcilePreview,
       ReconcileFinalize, ReconcileAbort, ReconcileCheck, HeartbeatAges, ArtifactExpires,
       OtherOperation, Crash, StrayExecutorExits
  <2>3. ASSUME faults = {} PROVE RunsAreSound'
    <3>1. RunInv /\ RunsAreSound
      BY <2>3 DEF FaultlessInv
    <3>2. CASE UNCHANGED vars
      BY <3>1, <3>2 DEF vars, RunsAreSound, CallIsSound, FileIsSound, Ended, final_status, Once, Claim
    <3>3. CASE Next
      BY <2>3, <3>1, <3>3, NextByActor, RequestSound, WorkerSound, OthersSound
    <3> QED BY <3>2, <3>3
  <2> QED BY <2>1, <2>2, <2>3 DEF FaultlessInv
<1> QED BY <1>1, <1>2, PTL DEF Spec

(* EndedRunsAreReported: without a stalled heartbeat or a failed write, a  *)
(* run that has ended reads as it ended, or FAILED if it was reconciled:   *)
(* the worker joins its heartbeat before it finalizes the claim, and no    *)
(* other request writes that file (_run_once_worker, finalize_claim).      *)
THEOREM EndedRunsAlwaysReported == Spec => []EndedRunsAreReported
<1>1. FaultlessInv => EndedRunsAreReported
  BY DEF FaultlessInv, RunsAreSound, CallIsSound, Ended, EndedRunsAreReported, RunInv, TypeOK
<1> QED BY <1>1, FaultlessAlways, PTL

(* RunningClaimsHoldLease: then also, a claim that reads RUNNING is the    *)
(* one of the request or worker that holds the project lease, unless that  *)
(* one was killed: the claim is finalized before the lease is released.    *)
THEOREM RunningClaimsAlwaysHoldLease == Spec => []RunningClaimsHoldLease
<1>1. FaultlessInv => RunningClaimsHoldLease
  <2> SUFFICES ASSUME FaultlessInv, faults = {}, NEW p \in Previews,
                      claims[p].status = "RUNNING", pc[claims[p].run] # "dead"
               PROVE  lease = claims[p].run
    BY DEF RunningClaimsHoldLease
  <2>1. PICK c \in Calls : claims[p].run = c /\ pc[c] \in RunPhases \cup {"dead"}
    BY DEF FaultlessInv, RunsAreSound, FileIsSound
  <2>2. pc[c] \in HoldingPhases
    BY <2>1 DEF RunPhases, StartPhases, HoldingPhases, Phases
  <2> QED BY <2>1, <2>2 DEF FaultlessInv, RunInv, HoldersHoldLease
<1> QED BY <1>1, FaultlessAlways, PTL
=============================================================================
