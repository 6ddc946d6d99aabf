------------------------- MODULE RunnerStateMachine -------------------------
(***************************************************************************)
(* What the version flow of a managed project does to its state document   *)
(* (runner/state_machine.py, plan_reload_workflow.py, state_mutation.py).  *)
(*                                                                         *)
(* A document names the current version twice, by name and by index, and   *)
(* keeps one runtime per version in the order of the plan it was last      *)
(* aligned with.  Operations that find their runtime by index and those    *)
(* that find it by name are kept apart here, as in the code.               *)
(***************************************************************************)
EXTENDS Integers, Sequences

CONSTANTS
    Versions,         \* the versions a plan may list
    MaxFixAttempts    \* runner_policy.max_fix_attempts_per_version

ASSUME RunnerAssumption == MaxFixAttempts \in Nat \ {0}

RunnerStatuses ==
    {"READY", "VERSION_PASSED", "COMPLETED", "FIX_PROMPT_READY",
     "BLOCKED_BY_ACCEPTANCE_FAILURE", "BLOCKED_BY_MAX_FIX_ATTEMPTS",
     "BLOCKED_BY_SCOPE_VIOLATION", "BLOCKED_BY_MODEL_FAILURE"}

VersionStatuses ==
    {"NOT_STARTED", "PASSED", "FAILED_BLOCKED", "BLOCKED", "FIX_PROMPT_READY"}

(* A plan is a sequence of versions that may be disabled.                  *)
PlanVersions == [version : Versions, enabled : BOOLEAN]
Names(plan) == [i \in DOMAIN plan |-> plan[i].version]
Listed(order) == {order[i] : i \in DOMAIN order}

(* runtimes: the order of state.versions; at: the status of each version,  *)
(* NOT_STARTED for those without a runtime.  Indexes count from one.       *)
Documents ==
    [status : RunnerStatuses, current : Versions, index : Nat, attempt : Nat,
     runtimes : Seq(Versions), at : [Versions -> VersionStatuses]]

(* The least index that satisfies a condition, which must have one.        *)
First(S) == CHOOSE i \in S : \A j \in S : i <= j

FirstEnabled(plan) == First({i \in DOMAIN plan : plan[i].enabled})

initialize_state(plan) ==
    [status |-> "READY", current |-> plan[FirstEnabled(plan)].version,
     index |-> FirstEnabled(plan), attempt |-> 1, runtimes |-> Names(plan),
     at |-> [v \in Versions |-> "NOT_STARTED"]]

Current(doc) == doc.runtimes[doc.index]
HasCurrent(doc, plan) == doc.index \in DOMAIN doc.runtimes \cap DOMAIN plan

-----------------------------------------------------------------------------
(* Alignment with the plan.                                                *)

_ensure_state_versions_aligned(doc, plan) ==
    LET kept == Listed(doc.runtimes) \cap Listed(Names(plan))
    IN  [doc EXCEPT !.runtimes = Names(plan),
                    !.at = [v \in Versions |-> IF v \in kept THEN @[v] ELSE "NOT_STARTED"]]

reopen_never(doc, plan) == doc
reopen_completed_state_if_pending(doc, plan) ==
    IF /\ doc.status = "COMPLETED"
       /\ doc.index \in DOMAIN doc.runtimes
       /\ doc.at[Current(doc)] = "PASSED"
       /\ \E i \in DOMAIN plan : i > doc.index /\ plan[i].enabled
      THEN [doc EXCEPT !.status = "VERSION_PASSED"]
      ELSE doc

normalize_passed_current_version_status(doc) ==
    IF /\ doc.index \in DOMAIN doc.runtimes
       /\ doc.at[Current(doc)] = "PASSED"
       /\ doc.status \in {"READY", "BLOCKED_BY_MAX_FIX_ATTEMPTS"}
      THEN [doc EXCEPT !.status = "VERSION_PASSED"]
      ELSE doc

(* A current version that left the plan is renamed to the one that took    *)
(* its place, or chosen anew when the plan is shorter.                     *)
Renamed(doc, plan) ==
    IF doc.current \in Listed(Names(plan)) THEN doc
    ELSE IF doc.index \in DOMAIN plan
      THEN [doc EXCEPT !.current = plan[doc.index].version]
      ELSE [doc EXCEPT !.current = plan[FirstEnabled(plan)].version, !.index = 1]

(* The state is reopened with the index it came with; the index follows    *)
(* the current version only afterwards.                                    *)
_reconcile_state_with_reloaded_plan(doc, plan) ==
    LET aligned == _ensure_state_versions_aligned(Renamed(doc, plan), plan)
        reopened == reopen_completed_state_if_pending(aligned, plan)
    IN  [reopened EXCEPT !.index =
             First({i \in DOMAIN plan : plan[i].version = reopened.current})]

-----------------------------------------------------------------------------
(* The version flow.                                                       *)

ContinuableDocument(doc, plan) ==
    normalize_passed_current_version_status(reopen_completed_state_if_pending(doc, plan))

CanContinue(doc, plan) == ContinuableDocument(doc, plan).status = "VERSION_PASSED"

Pending(doc, plan) ==
    {i \in DOMAIN plan : /\ i > doc.index /\ plan[i].enabled
                         /\ doc.at[plan[i].version] # "PASSED"}

StartingByIndex(doc, plan, i) == [doc EXCEPT !.status = "READY", !.attempt = 1, !.index = i]
Starting(doc, plan, i) ==
    [doc EXCEPT !.status = "READY", !.attempt = 1, !.index = i, !.current = plan[i].version]

continue_next_version(doc, plan) ==
    LET aligned == _ensure_state_versions_aligned(ContinuableDocument(doc, plan), plan)
        pending == Pending(aligned, plan)
    IN  IF pending = {}
          THEN [aligned EXCEPT !.status = "COMPLETED"]
          ELSE Starting(aligned, plan, First(pending))

(* result is the outcome of the acceptance commands and, when they pass,   *)
(* of the scope check.                                                     *)
_run_acceptance(doc, is_fix, result) ==
    LET exhausted ==
            /\ doc.attempt >= MaxFixAttempts
            /\ is_fix \/ doc.status = "BLOCKED_BY_MAX_FIX_ATTEMPTS"
        Ends(status, at) == [doc EXCEPT !.status = status, !.at[Current(doc)] = at]
    IN  CASE result = "passed" -> Ends("VERSION_PASSED", "PASSED")
          [] result = "out_of_scope" -> Ends("BLOCKED_BY_SCOPE_VIOLATION", "BLOCKED")
          [] result = "failed" /\ exhausted -> Ends("BLOCKED_BY_MAX_FIX_ATTEMPTS", "BLOCKED")
          [] OTHER -> Ends("BLOCKED_BY_ACCEPTANCE_FAILURE", "FAILED_BLOCKED")

mark_blocked_by_no_changes(doc) ==
    [doc EXCEPT !.status = "BLOCKED_BY_MODEL_FAILURE", !.at[Current(doc)] = "FAILED_BLOCKED"]

paste_manual_fix_prompt(doc) ==
    [doc EXCEPT !.status = "FIX_PROMPT_READY", !.at[Current(doc)] = "FIX_PROMPT_READY",
                !.attempt = @ + 1]

-----------------------------------------------------------------------------
(* The registrations that name their version.                              *)

(* apply_manual_validation_pass and apply_recheck_report_state_refresh.    *)
RegisteredPass(doc, v) == [doc EXCEPT !.status = "VERSION_PASSED", !.at[v] = "PASSED"]

apply_scope_mismatch_resolution(doc, v, resolution) ==
    IF resolution = "refresh_in_scope_state"
      THEN RegisteredPass(doc, v)
      ELSE [doc EXCEPT !.status = "BLOCKED_BY_SCOPE_VIOLATION", !.at[v] = "BLOCKED"]

record_commit_metadata(doc, v) ==
    IF doc.at[v] = "NOT_STARTED" THEN [doc EXCEPT !.at[v] = "PASSED"] ELSE doc
=============================================================================
