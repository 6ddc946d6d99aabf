--------------------------- MODULE WorkItemLedger ---------------------------
(***************************************************************************)
(* The Work Item ledger of runner/work_item_governance: lifecycle rows,    *)
(* Task Versions, execution Attempts, Artifact References, review          *)
(* Decisions, blockers, signed transition previews, Gate Events and        *)
(* Acceptance Manifests.                                                   *)
(*                                                                         *)
(* Every command of service.py that writes does so inside one              *)
(* BEGIN IMMEDIATE transaction, so one command is one action.  A command   *)
(* that raises rolls its transaction back and is a disabled action.  A     *)
(* replay of a recorded fact (same preview, same event key) returns the    *)
(* recorded row and writes nothing: it is a stuttering step.  The gap that *)
(* is NOT atomic is the one between issuing a transition preview, which    *)
(* reads the ledger, and applying it, which may come after any number of   *)
(* other commands; previews are therefore state of the model.              *)
(*                                                                         *)
(* A table is a function from identifiers to rows; a row whose work_item   *)
(* is Absent has not been inserted.                                        *)
(***************************************************************************)
EXTENDS Integers, FiniteSets

CONSTANTS
    WorkItems,        \* generated Work Item identifiers
    Origins,          \* (origin.kind, origin.ref, origin.snapshot_digest)
    Attempts,         \* execution Attempt identifiers
    Artifacts,        \* Artifact Reference identifiers
    Decisions,        \* Decision identifiers
    Blockers,         \* blocker identifiers
    Previews,         \* preview identifiers; the Gate Event has the same key
    Keys,             \* idempotency keys a client may attach to a transition
    Principals,       \* authenticated principals
    Granted,          \* [Principals -> SUBSET Permissions]
    Actions,          \* the Decision actions the clients use
    Absent,           \* SQL NULL / no such row
    MaxTaskVersion,   \* bound: Task Versions per Work Item
    MaxInFlight,      \* bound: previews issued and not yet spent or expired
    MaxCited,         \* bound: Decisions one transition cites
    MaxRejected,      \* bound: rejected Gate Events
    AheadTask,        \* bound: how far ahead a command may guess the Task Version
    AheadState        \* bound: how far ahead it may guess the state version

VARIABLES
    work_items, attempts, artifact_refs, decision_records, blockers,
    previews, gate_events, acceptance_manifests, audit_events, outbox_events

vars == <<work_items, attempts, artifact_refs, decision_records, blockers,
          previews, gate_events, acceptance_manifests, audit_events,
          outbox_events>>

-----------------------------------------------------------------------------
(* contracts.py and principal.py: the lifecycle policy.                    *)

WORK_ITEM_STATES ==
    {"proposed", "ready", "in_delivery", "submitted", "accepted", "cancelled"}

TERMINAL_WORK_ITEM_STATES == {"accepted", "cancelled"}

WORK_ITEM_TRANSITIONS ==
    {<<"proposed", "ready">>, <<"ready", "in_delivery">>,
     <<"in_delivery", "submitted">>, <<"submitted", "in_delivery">>,
     <<"submitted", "accepted">>}
    \cup {<<s, "cancelled">> : s \in WORK_ITEM_STATES \ TERMINAL_WORK_ITEM_STATES}

Permissions ==
    {"work_item.ready", "work_item.start_delivery", "work_item.submit",
     "work_item.accept", "work_item.cancel", "work_item.return_for_revision",
     "work_item.approve"}

DECISION_ACTIONS ==
    {"approve", "approve_submission", "accept", "cancel", "reject",
     "request_changes", "submit"}

permission_for_decision(action) ==
    CASE action = "approve" -> "work_item.approve"
      [] action \in {"approve_submission", "submit"} -> "work_item.submit"
      [] action = "accept" -> "work_item.accept"
      [] action = "cancel" -> "work_item.cancel"
      [] OTHER -> "work_item.return_for_revision"

(* TRANSITION_REQUIREMENTS[..]["authority"]; for a pair that is not in the *)
(* table _fallback_transition_permission answers, and on the table's pairs *)
(* the two agree.                                                          *)
RequiredAuthority(from, target) ==
    CASE from = "submitted" /\ target = "in_delivery" -> "work_item.return_for_revision"
      [] target = "ready" -> "work_item.ready"
      [] target = "in_delivery" -> "work_item.start_delivery"
      [] target = "submitted" -> "work_item.submit"
      [] target = "accepted" -> "work_item.accept"
      [] target = "cancelled" -> "work_item.cancel"
      [] OTHER -> "work_item.approve"

RequiredActions(from, target) ==
    CASE target = "submitted" -> {"submit", "approve_submission", "approve"}
      [] target = "accepted" -> {"accept", "approve"}
      [] target = "cancelled" -> {"cancel"}
      [] from = "submitted" /\ target = "in_delivery" -> {"request_changes", "reject"}
      [] OTHER -> {}

EvidenceRequired(target) == target \in {"submitted", "accepted"}

BlockersMustBeClear(from, target) ==
    \/ target \in {"submitted", "accepted"}
    \/ from = "ready" /\ target = "in_delivery"

ASSUME PolicyAssumption ==
    /\ Granted \in [Principals -> SUBSET Permissions]
    /\ Actions \subseteq DECISION_ACTIONS
    /\ Absent \notin WorkItems \cup Origins \cup Attempts \cup Decisions
                     \cup Previews \cup Keys
    /\ MaxTaskVersion \in Nat /\ MaxInFlight \in Nat /\ MaxCited \in Nat
    /\ MaxRejected \in Nat /\ AheadTask \in Nat /\ AheadState \in Nat

-----------------------------------------------------------------------------
(* Rows.                                                                   *)

WorkItemRows ==
    [state : WORK_ITEM_STATES \cup {"absent"}, state_version : Nat,
     current_task_version : Nat, origin : Origins \cup {Absent}]

(* status: "active" is claimed or running, "ended" is completed, failed or *)
(* cancelled; no command or gate tells the members of a class apart.       *)
AttemptRows ==
    [work_item : WorkItems \cup {Absent}, task_version : Nat,
     attempt_kind : {"runtime", "historical"}, status : {"active", "ended"}]

ArtifactRows ==
    [work_item : WorkItems \cup {Absent}, task_version : Nat,
     attempt : Attempts \cup {Absent}]

DecisionRows ==
    [work_item : WorkItems \cup {Absent}, task_version : Nat,
     action : DECISION_ACTIONS, evidence : SUBSET Artifacts,
     supersedes : Decisions \cup {Absent}]

(* The signed command of a transition preview.                             *)
Commands ==
    [work_item : WorkItems \cup {Absent}, task_version : Nat,
     target_state : WORK_ITEM_STATES, expected_state_version : Nat,
     decision_ids : SUBSET Decisions, evidence : SUBSET Artifacts,
     idempotency_key : Keys \cup {Absent},
     authority : Permissions, principal : Principals \cup {Absent}]

(* A Gate Event; the evidence and Decisions an acceptance cites are in its *)
(* manifest, those of other Gates are not read again by any command.       *)
GateRows ==
    [outcome : {"none", "transition_applied", "transition_rejected"},
     work_item : WorkItems \cup {Absent}, task_version : Nat,
     from_state : WORK_ITEM_STATES \cup {"absent"},
     target_state : WORK_ITEM_STATES, expected_state_version : Nat,
     idempotency_key : Keys \cup {Absent}, principal : Principals \cup {Absent}]

ManifestRows ==
    [gate_event : Previews \cup {Absent}, task_version : Nat,
     accepted_state_version : Nat, artifact_ids : SUBSET Artifacts,
     decision_ids : SUBSET Decisions]

NoItem == [state |-> "absent", state_version |-> 0,
           current_task_version |-> 0, origin |-> Absent]
NoAttempt == [work_item |-> Absent, task_version |-> 0,
              attempt_kind |-> "runtime", status |-> "ended"]
NoArtifact == [work_item |-> Absent, task_version |-> 0, attempt |-> Absent]
NoDecision == [work_item |-> Absent, task_version |-> 0, action |-> "cancel",
               evidence |-> {}, supersedes |-> Absent]
NoCommand == [work_item |-> Absent, task_version |-> 0,
              target_state |-> "proposed", expected_state_version |-> 0,
              decision_ids |-> {}, evidence |-> {},
              idempotency_key |-> Absent, authority |-> "work_item.approve",
              principal |-> Absent]
NoGate == [outcome |-> "none", work_item |-> Absent, task_version |-> 0,
           from_state |-> "absent", target_state |-> "proposed",
           expected_state_version |-> 0, idempotency_key |-> Absent,
           principal |-> Absent]
NoManifest == [gate_event |-> Absent, task_version |-> 0,
               accepted_state_version |-> 0, artifact_ids |-> {},
               decision_ids |-> {}]

Init ==
    /\ work_items = [w \in WorkItems |-> NoItem]
    /\ attempts = [a \in Attempts |-> NoAttempt]
    /\ artifact_refs = [x \in Artifacts |-> NoArtifact]
    /\ decision_records = [d \in Decisions |-> NoDecision]
    /\ blockers = [w \in WorkItems |-> [b \in Blockers |-> 0]]
    /\ previews = [p \in Previews |-> NoCommand]
    /\ gate_events = [p \in Previews |-> NoGate]
    /\ acceptance_manifests = [w \in WorkItems |-> NoManifest]
    /\ audit_events = {}
    /\ outbox_events = {}

-----------------------------------------------------------------------------
(* Queries.                                                                *)

Exists(w) == work_items[w].state # "absent"
Terminal(w) == work_items[w].state \in TERMINAL_WORK_ITEM_STATES
Inserted(row) == row.work_item # Absent

(* Task Versions are only ever appended as current_task_version + 1, in    *)
(* the transaction that advances current_task_version, so the table        *)
(* task_versions holds exactly the versions 1 .. current_task_version.     *)
TaskExists(w, n) == n \in 1 .. work_items[w].current_task_version

(* The same row set as _active_blocker_rows: the latest event of a blocker *)
(* is blocker_applied.  blockers[w][b] is the Task Version which that      *)
(* event names, 0 when the blocker is not active.                          *)
ActiveBlockersOfCurrentTask(w) ==
    {b \in Blockers : blockers[w][b] # 0 /\ blockers[w][b] = work_items[w].current_task_version}
ActiveBlockers(w) == {b \in Blockers : blockers[w][b] # 0}

ArtifactsBound(es, w, n) ==
    \A x \in es : artifact_refs[x].work_item = w /\ artifact_refs[x].task_version = n

ActiveRuntimeAttempts(w, n) ==
    {a \in Attempts : /\ attempts[a].work_item = w
                      /\ attempts[a].task_version = n
                      /\ attempts[a].attempt_kind = "runtime"
                      /\ attempts[a].status = "active"}

Superseded(d) == \E e \in Decisions : decision_records[e].supersedes = d

(* _assert_decisions: every cited Decision exists, belongs to the Work     *)
(* Item and Task Version, and has not been superseded.  Its trust check    *)
(* on principal_json holds for every row record_review_decision writes.    *)
DecisionsBound(ds, w, n) ==
    \A d \in ds : /\ decision_records[d].work_item = w
                  /\ decision_records[d].task_version = n
                  /\ ~Superseded(d)

Applied(p) == gate_events[p].outcome = "transition_applied"
Recorded(p) == gate_events[p].outcome # "none"
Issued(p) == Inserted(previews[p])
InFlight == {p \in Previews : Issued(p)}
Rejections == {p \in Previews : gate_events[p].outcome = "transition_rejected"}

-----------------------------------------------------------------------------
(* Creation, revision and execution.                                       *)

(* _apply_create: a replay by preview, idempotency key or origin returns   *)
(* the existing row (or raises IDEMPOTENCY_CONFLICT); otherwise the row    *)
(* and Task Version 1 are inserted together.                               *)
apply_work_item_create(w, o) ==
    /\ ~Exists(w)
    /\ \A v \in WorkItems : work_items[v].origin # o
    /\ work_items' = [work_items EXCEPT ![w] =
           [state |-> "proposed", state_version |-> 0,
            current_task_version |-> 1, origin |-> o]]
    /\ UNCHANGED <<attempts, artifact_refs, decision_records, blockers, previews,
                   gate_events, acceptance_manifests, audit_events, outbox_events>>

CanReviseEvenIfSubmitted(w) == Exists(w) /\ ~Terminal(w)
CanRevise(w) ==
    /\ Exists(w)
    /\ ~Terminal(w)
    /\ work_items[w].state # "submitted"

AdvanceTaskVersionAsReturned(row) ==
    [row EXCEPT !.current_task_version = row.current_task_version + 1,
                !.state = "returned_for_revision"]
AdvanceTaskVersionOnly(row) ==
    [row EXCEPT !.current_task_version = row.current_task_version + 1]
AdvanceTaskVersion(row) ==
    [state |-> row.state, state_version |-> row.state_version + 1,
     current_task_version |-> row.current_task_version + 1, origin |-> row.origin]

add_task_version(w) ==
    /\ CanRevise(w)
    /\ work_items[w].current_task_version < MaxTaskVersion
    /\ work_items' = [work_items EXCEPT ![w] = AdvanceTaskVersion(work_items[w])]
    /\ UNCHANGED <<attempts, artifact_refs, decision_records, blockers, previews,
                   gate_events, acceptance_manifests, audit_events, outbox_events>>

CanStartEvenIfOver(w, n) ==
    /\ Exists(w)
    /\ work_items[w].state # "submitted"
    /\ work_items[w].current_task_version = n
CanStart(w, n) ==
    /\ Exists(w)
    /\ ~Terminal(w)
    /\ work_items[w].state # "submitted"
    /\ work_items[w].current_task_version = n

create_execution_attempt(a, w, n) ==
    /\ ~Inserted(attempts[a])
    /\ CanStart(w, n)
    /\ attempts' = [attempts EXCEPT ![a] =
           [work_item |-> w, task_version |-> n, attempt_kind |-> "runtime",
            status |-> "active"]]
    /\ UNCHANGED <<work_items, artifact_refs, decision_records, blockers, previews,
                   gate_events, acceptance_manifests, audit_events, outbox_events>>

(* Imported history: bound to any existing Task Version in any state of    *)
(* the Work Item, terminal states included, and never dispatchable.        *)
bind_historical_execution_attempt(a, w, n) ==
    /\ ~Inserted(attempts[a])
    /\ TaskExists(w, n)
    /\ attempts' = [attempts EXCEPT ![a] =
           [work_item |-> w, task_version |-> n, attempt_kind |-> "historical",
            status |-> "ended"]]
    /\ UNCHANGED <<work_items, artifact_refs, decision_records, blockers, previews,
                   gate_events, acceptance_manifests, audit_events, outbox_events>>

(* _insert_artifact for an identifier that is not in the table yet.        *)
CanInsertArtifact(w, n, a) ==
    /\ Exists(w)
    /\ ~Terminal(w)
    /\ TaskExists(w, n)
    /\ a # Absent => attempts[a].work_item = w /\ attempts[a].task_version = n

register_artifact_reference(x, w, n, a) ==
    /\ ~Inserted(artifact_refs[x])
    /\ CanInsertArtifact(w, n, a)
    /\ artifact_refs' = [artifact_refs EXCEPT ![x] =
           [work_item |-> w, task_version |-> n, attempt |-> a]]
    /\ UNCHANGED <<work_items, attempts, decision_records, blockers, previews,
                   gate_events, acceptance_manifests, audit_events, outbox_events>>

(* Completion and the Artifacts it brings are one transaction: on a        *)
(* terminal Work Item an Attempt can still end, but only with no new       *)
(* Artifact.  xs are the Artifacts of the command not yet in the table.    *)
complete_execution_attempt(a, xs) ==
    LET r == attempts[a] IN
    /\ Inserted(r)
    /\ r.attempt_kind = "runtime"
    /\ r.status = "active"
    /\ \A x \in xs : /\ ~Inserted(artifact_refs[x])
                     /\ CanInsertArtifact(r.work_item, r.task_version, a)
    /\ attempts' = [attempts EXCEPT ![a] =
           [work_item |-> r.work_item, task_version |-> r.task_version,
            attempt_kind |-> "runtime", status |-> "ended"]]
    /\ artifact_refs' = [x \in Artifacts |->
           IF x \in xs THEN [work_item |-> r.work_item,
                             task_version |-> r.task_version, attempt |-> a]
                       ELSE artifact_refs[x]]
    /\ UNCHANGED <<work_items, decision_records, blockers, previews, gate_events,
                   acceptance_manifests, audit_events, outbox_events>>

-----------------------------------------------------------------------------
(* Decisions and blockers.                                                 *)

CanDecideEvenIfTerminal(w, n) == Exists(w) /\ work_items[w].current_task_version = n
CanDecide(w, n) ==
    /\ Exists(w)
    /\ ~Terminal(w)
    /\ work_items[w].current_task_version = n

record_review_decision(d, w, n, action, es, s, u) ==
    /\ ~Inserted(decision_records[d])
    /\ permission_for_decision(action) \in Granted[u]
    /\ action \notin {"cancel", "reject", "request_changes"} => es # {}
    /\ s # d
    /\ CanDecide(w, n)
    /\ ArtifactsBound(es, w, n)
    /\ s # Absent => /\ decision_records[s].work_item = w
                     /\ decision_records[s].task_version = n
    /\ decision_records' = [decision_records EXCEPT ![d] =
           [work_item |-> w, task_version |-> n, action |-> action,
            evidence |-> es, supersedes |-> s]]
    /\ UNCHANGED <<work_items, attempts, artifact_refs, blockers, previews,
                   gate_events, acceptance_manifests, audit_events, outbox_events>>

(* _record_blocker_event: both kinds bind the current Task Version; there  *)
(* is no check of the lifecycle state.                                     *)
apply_blocker(w, b) ==
    /\ Exists(w)
    /\ b \notin ActiveBlockers(w)
    /\ blockers' = [blockers EXCEPT ![w][b] = work_items[w].current_task_version]
    /\ audit_events' = audit_events \cup {<<"blocker_applied", w, b>>}
    /\ UNCHANGED <<work_items, attempts, artifact_refs, decision_records, previews,
                   gate_events, acceptance_manifests, outbox_events>>

clear_blocker(w, b) ==
    /\ Exists(w)
    /\ b \in ActiveBlockers(w)
    /\ blockers' = [blockers EXCEPT ![w][b] = 0]
    /\ audit_events' = audit_events \cup {<<"blocker_cleared", w, b>>}
    /\ UNCHANGED <<work_items, attempts, artifact_refs, decision_records, previews,
                   gate_events, acceptance_manifests, outbox_events>>

-----------------------------------------------------------------------------
(* The transition Gate: preview, then apply.                               *)

(* A preview is issued whatever the evaluation says; only the permission   *)
(* derived from the state read now is required of the principal.  The      *)
(* client names any Task Version and state version: old ones arise when    *)
(* the ledger moves on, and the Ahead bounds let it guess future ones. *)
MayPreviewAnything(w, t, u) == TRUE
MayPreview(w, t, u) == RequiredAuthority(work_items[w].state, t) \in Granted[u]

preview_work_item_transition(p, w, n, t, v, ds, es, k, u) ==
    /\ ~Issued(p) /\ ~Recorded(p)
    /\ Cardinality(InFlight) < MaxInFlight
    /\ Cardinality(ds) <= MaxCited
    /\ Exists(w)
    /\ MayPreview(w, t, u)
    /\ previews' = [previews EXCEPT ![p] =
           [work_item |-> w, task_version |-> n, target_state |-> t,
            expected_state_version |-> v, decision_ids |-> ds, evidence |-> es,
            idempotency_key |-> k,
            authority |-> RequiredAuthority(work_items[w].state, t),
            principal |-> u]]
    /\ UNCHANGED <<work_items, attempts, artifact_refs, decision_records, blockers,
                   gate_events, acceptance_manifests, audit_events, outbox_events>>

(* The preview's TTL runs out before it is applied (preview.py rejects it).*)
ExpirePreview(p) ==
    /\ p \in InFlight
    /\ previews' = [previews EXCEPT ![p] = NoCommand]
    /\ UNCHANGED <<work_items, attempts, artifact_refs, decision_records, blockers,
                   gate_events, acceptance_manifests, audit_events, outbox_events>>

LifecycleAllowsAnyTarget(c) == ~Terminal(c.work_item)
LifecycleAllows(c) ==
    /\ ~Terminal(c.work_item)
    /\ <<work_items[c.work_item].state, c.target_state>> \in WORK_ITEM_TRANSITIONS

StateVersionIgnored(c) == TRUE
StateVersionFresh(c) ==
    work_items[c.work_item].state_version = c.expected_state_version

TaskVersionFresh(c) ==
    work_items[c.work_item].current_task_version = c.task_version

AuthorityIgnored(c) == TRUE
AuthorityMatches(c) ==
    c.authority = RequiredAuthority(work_items[c.work_item].state, c.target_state)

BlockersClear(c) ==
    BlockersMustBeClear(work_items[c.work_item].state, c.target_state)
        => ActiveBlockers(c.work_item) = {}

EvidenceSufficient(c) ==
    /\ ArtifactsBound(c.evidence, c.work_item, c.task_version)
    /\ EvidenceRequired(c.target_state) => c.evidence # {}

NoAttemptCheck(c) == TRUE
NoActiveAttempt(c) ==
    c.target_state = "accepted" => ActiveRuntimeAttempts(c.work_item, c.task_version) = {}

DecisionsAuthorize(c) ==
    LET required == RequiredActions(work_items[c.work_item].state, c.target_state) IN
    required # {} =>
        /\ DecisionsBound(c.decision_ids, c.work_item, c.task_version)
        /\ \E d \in c.decision_ids :
              /\ decision_records[d].action \in required
              /\ decision_records[d].evidence \subseteq c.evidence

(* _evaluate_transition returns "eligible" when every check passes.        *)
Eligible(c) ==
    /\ LifecycleAllows(c)
    /\ StateVersionFresh(c)
    /\ TaskVersionFresh(c)
    /\ AuthorityMatches(c)
    /\ BlockersClear(c)
    /\ EvidenceSufficient(c)
    /\ NoActiveAttempt(c)
    /\ DecisionsAuthorize(c)

(* No Gate Event carries the command's idempotency key: one that does is   *)
(* returned as a replay, or refused as a conflict.                         *)
KeyNeverLookedUp(p) == TRUE
KeyUnused(p) ==
    \A q \in Previews :
        Recorded(q) /\ gate_events[q].idempotency_key # Absent
            => gate_events[q].idempotency_key # previews[p].idempotency_key

(* The Gate Event row has a foreign key to its Task Version: a command     *)
(* for a version that does not exist fails as an IntegrityError and        *)
(* nothing at all is recorded.                                             *)
NewGate(p) ==
    /\ Issued(p)
    /\ KeyUnused(p)
    /\ TaskExists(previews[p].work_item, previews[p].task_version)

(* The Gate Event is keyed by the preview: from now on every apply of this *)
(* preview finds it and writes nothing: the preview is spent.              *)
RecordGate(p, outcome) ==
    LET c == previews[p] IN
    /\ gate_events' = [gate_events EXCEPT ![p] =
           [outcome |-> outcome, work_item |-> c.work_item,
            task_version |-> c.task_version,
            from_state |-> work_items[c.work_item].state,
            target_state |-> c.target_state,
            expected_state_version |-> c.expected_state_version,
            idempotency_key |-> c.idempotency_key, principal |-> c.principal]]
    /\ previews' = [previews EXCEPT ![p] = NoCommand]
    /\ audit_events' = audit_events \cup {<<outcome, p>>}
    /\ outbox_events' = outbox_events \cup {<<outcome, p>>}
    /\ UNCHANGED <<attempts, artifact_refs, decision_records, blockers>>

MoveTo(row, target) ==
    [state |-> target, state_version |-> row.state_version + 1,
     current_task_version |-> row.current_task_version, origin |-> row.origin]

ApplyTransition(p) ==
    LET c == previews[p] IN
    /\ NewGate(p)
    /\ Eligible(c)
    /\ work_items' = [work_items EXCEPT ![c.work_item] =
           MoveTo(work_items[c.work_item], c.target_state)]
    /\ acceptance_manifests' =
           IF c.target_state = "accepted"
             THEN [acceptance_manifests EXCEPT ![c.work_item] =
                      [gate_event |-> p, task_version |-> c.task_version,
                       accepted_state_version |-> c.expected_state_version + 1,
                       artifact_ids |-> c.evidence,
                       decision_ids |-> c.decision_ids]]
             ELSE acceptance_manifests
    /\ RecordGate(p, "transition_applied")

RejectTransition(p) ==
    /\ NewGate(p)
    /\ ~Eligible(previews[p])
    /\ Cardinality(Rejections) < MaxRejected
    /\ RecordGate(p, "transition_rejected")
    /\ UNCHANGED <<work_items, acceptance_manifests>>

-----------------------------------------------------------------------------
GuessedTaskVersions(w) ==
    work_items[w].current_task_version .. work_items[w].current_task_version + AheadTask
GuessedStateVersions(w) ==
    work_items[w].state_version .. work_items[w].state_version + AheadState

(* new_stable_id: an identifier not used in the table, {} when the model   *)
(* has run out of them.                                                    *)
new_stable_id(ids, used) ==
    IF ids \ used = {} THEN {} ELSE {CHOOSE i \in ids \ used : TRUE}

UsedPreviews == {p \in Previews : Issued(p) \/ Recorded(p)}
UsedAttempts == {a \in Attempts : Inserted(attempts[a])}
UsedArtifacts == {x \in Artifacts : Inserted(artifact_refs[x])}
UsedDecisions == {d \in Decisions : Inserted(decision_records[d])}

Next ==
    \/ \E w \in WorkItems, o \in Origins : apply_work_item_create(w, o)
    \/ \E w \in WorkItems : add_task_version(w)
    \/ \E a \in new_stable_id(Attempts, UsedAttempts), w \in WorkItems,
          n \in 1 .. MaxTaskVersion :
          \/ create_execution_attempt(a, w, n)
          \/ bind_historical_execution_attempt(a, w, n)
    \/ \E a \in Attempts, xs \in SUBSET Artifacts : complete_execution_attempt(a, xs)
    \/ \E x \in new_stable_id(Artifacts, UsedArtifacts), w \in WorkItems,
          n \in 1 .. MaxTaskVersion, a \in Attempts \cup {Absent} :
          register_artifact_reference(x, w, n, a)
    \/ \E d \in new_stable_id(Decisions, UsedDecisions), w \in WorkItems,
          n \in 1 .. MaxTaskVersion, action \in Actions, es \in SUBSET Artifacts,
          s \in Decisions \cup {Absent}, u \in Principals :
          record_review_decision(d, w, n, action, es, s, u)
    \/ \E w \in WorkItems, b \in Blockers : apply_blocker(w, b) \/ clear_blocker(w, b)
    \/ \E p \in new_stable_id(Previews, UsedPreviews), w \in WorkItems,
          t \in WORK_ITEM_STATES, ds \in SUBSET Decisions, es \in SUBSET Artifacts,
          k \in Keys \cup {Absent}, u \in Principals :
          \E n \in GuessedTaskVersions(w), v \in GuessedStateVersions(w) :
             preview_work_item_transition(p, w, n, t, v, ds, es, k, u)
    \/ \E p \in Previews :
          ExpirePreview(p) \/ ApplyTransition(p) \/ RejectTransition(p)

Spec == Init /\ [][Next]_vars

-----------------------------------------------------------------------------
(* Properties.                                                             *)

(* Type invariant: every table holds rows of its schema.                   *)
TypeOK ==
    /\ work_items \in [WorkItems -> WorkItemRows]
    /\ attempts \in [Attempts -> AttemptRows]
    /\ artifact_refs \in [Artifacts -> ArtifactRows]
    /\ decision_records \in [Decisions -> DecisionRows]
    /\ blockers \in [WorkItems -> [Blockers -> Nat]]
    /\ previews \in [Previews -> Commands]
    /\ gate_events \in [Previews -> GateRows]
    /\ acceptance_manifests \in [WorkItems -> ManifestRows]

(* Compare-and-swap soundness of apply_work_item_transition: of the        *)
(* previews issued against one state_version of a Work Item at most one    *)
(* is ever applied, however their applications interleave with revisions.  *)
OneApplyPerStateVersion ==
    \A p, q \in Previews :
        /\ Applied(p) /\ Applied(q) /\ p # q
        /\ gate_events[p].work_item = gate_events[q].work_item
        => gate_events[p].expected_state_version # gate_events[q].expected_state_version

(* A client that retries a transition under one idempotency key, with a    *)
(* fresh preview, moves the Work Item at most once and is never answered   *)
(* by two Gate Events.                                                     *)
OneGatePerKey ==
    \A p, q \in Previews :
        /\ Recorded(p) /\ Recorded(q) /\ p # q
        /\ gate_events[p].idempotency_key # Absent
        => gate_events[p].idempotency_key # gate_events[q].idempotency_key

(* What acceptance rests on stays true for ever: an accepted Work Item has *)
(* a manifest naming the Gate Event that accepted it, on the current Task  *)
(* Version and state version; its evidence is non-empty and bound to that  *)
(* version; one of its Decisions approves exactly that evidence; and none  *)
(* of them has been superseded, before or AFTER the acceptance.            *)
AcceptanceSound ==
    \A w \in WorkItems : work_items[w].state = "accepted" =>
        LET m == acceptance_manifests[w] IN
        \E p \in Previews :
            /\ m.gate_event = p
            /\ Applied(p)
            /\ gate_events[p].work_item = w
            /\ gate_events[p].target_state = "accepted"
            /\ m.task_version = work_items[w].current_task_version
            /\ m.accepted_state_version = work_items[w].state_version
            /\ m.artifact_ids # {}
            /\ \A x \in m.artifact_ids : /\ artifact_refs[x].work_item = w
                                       /\ artifact_refs[x].task_version = m.task_version
            /\ \A d \in m.decision_ids : /\ decision_records[d].work_item = w
                                       /\ decision_records[d].task_version = m.task_version
                                       /\ ~Superseded(d)
            /\ \E d \in m.decision_ids :
                  /\ decision_records[d].action \in {"accept", "approve"}
                  /\ decision_records[d].evidence \subseteq m.artifact_ids

(* What was accepted is what was submitted: a submitted or accepted Work   *)
(* Item has an applied submission Gate for its current Task Version, and   *)
(* nothing changed the row between submission and now (add_task_version    *)
(* refuses a submitted Work Item), or between submission and acceptance.   *)
SubmissionPinned ==
    \A w \in WorkItems : work_items[w].state \in {"submitted", "accepted"} =>
        \E p \in Previews :
            /\ Applied(p)
            /\ gate_events[p].work_item = w
            /\ gate_events[p].target_state = "submitted"
            /\ gate_events[p].task_version = work_items[w].current_task_version
            /\ work_items[w].state_version = gate_events[p].expected_state_version
                   + (IF work_items[w].state = "accepted" THEN 2 ELSE 1)

(* No executor is still running for the accepted Task Version, and none    *)
(* can be started afterwards: acceptance refuses active runtime Attempts   *)
(* and create_execution_attempt refuses terminal and submitted Work Items. *)
NoLiveAttemptOnAcceptedVersion ==
    \A w \in WorkItems : work_items[w].state = "accepted" =>
        ActiveRuntimeAttempts(w, work_items[w].current_task_version) = {}

(* Authority follows the transition really performed: the principal of an  *)
(* applied Gate holds the permission for leaving from_state towards        *)
(* target_state, though the permission was bound when the preview was      *)
(* issued, in what may have been another state.                            *)
AppliedGatesAuthorized ==
    \A p \in Previews : Applied(p) =>
        RequiredAuthority(gate_events[p].from_state, gate_events[p].target_state)
            \in Granted[gate_events[p].principal]

(* Terminal Work Items are frozen: no step changes the row, its manifest,  *)
(* its Artifacts or its Decisions, or starts a runtime Attempt for it.     *)
TerminalStaysFrozen(w) ==
    Terminal(w) =>
        /\ work_items'[w] = work_items[w]
        /\ acceptance_manifests'[w] = acceptance_manifests[w]
        /\ \A x \in Artifacts :
              artifact_refs[x] # artifact_refs'[x] => artifact_refs'[x].work_item # w
        /\ \A d \in Decisions :
              decision_records[d] # decision_records'[d] => decision_records'[d].work_item # w
        /\ \A a \in Attempts :
              attempts[a] # attempts'[a] /\ attempts'[a].work_item = w
                  => attempts'[a].status = "ended"

TerminalFrozen == [][\A w \in WorkItems : TerminalStaysFrozen(w)]_vars

(* A raised blocker stops delivery, submission and acceptance until it is  *)
(* cleared, also when a revision has replaced the Task Version it was      *)
(* raised for.                                                             *)
BlockedDoesNotAdvance(w) ==
    (\E b \in Blockers : blockers[w][b] # 0) /\ work_items'[w].state # work_items[w].state
        => \/ work_items'[w].state \in {"ready", "cancelled"}
           \/ work_items[w].state = "submitted" /\ work_items'[w].state = "in_delivery"

BlockersHold == [][\A w \in WorkItems : BlockedDoesNotAdvance(w)]_vars

(* Every change of a Work Item row, of state or of Task Version, advances  *)
(* state_version by exactly one, so a stale expectation is detectable.     *)
RowChangesAreVersioned ==
    [][\A w \in WorkItems :
          Exists(w) /\ work_items'[w] # work_items[w]
              => work_items'[w].state_version = work_items[w].state_version + 1]_vars

(* The ledger implements the abstract lifecycle.                           *)
Lifecycle == INSTANCE WorkItemLifecycle
    WITH Items <- WorkItems,
         Evidence <- Artifacts,
         phase <- [w \in WorkItems |-> work_items[w].state],
         revision <- [w \in WorkItems |-> work_items[w].current_task_version],
         accepted_evidence <- [w \in WorkItems |-> acceptance_manifests[w].artifact_ids]

(* Seen through each Work Item's state, Task Version and frozen evidence,  *)
(* every behaviour of the ledger is a behaviour of WorkItemLifecycle.      *)
ImplementsLifecycle == Lifecycle!LSpec
=============================================================================
