----------------------------- MODULE RunnerState -----------------------------
(***************************************************************************)
(* The state file of a managed project, .colameta/state.json, and the      *)
(* operations that read and rewrite it.                                    *)
(*                                                                         *)
(* Some run under the project operation lease (executor runs and the web   *)
(* console), the MCP tools run without it.  What protects the file from    *)
(* them is optimistic: StateMutationGateway.save compares the updated_at   *)
(* that the operation loaded with the one on disk, and then opens the file *)
(* for writing.  The comparison, the truncation and the writing are steps  *)
(* that other processes come between, or that a crash cuts short.          *)
(*                                                                         *)
(* Commit policy and review checkpoints may refuse to continue: a refusal  *)
(* changes nothing, and no operation here has to be taken.                 *)
(***************************************************************************)
EXTENDS RunnerStateMachine, FiniteSets

CONSTANTS
    Writers,          \* processes and threads that run operations
    Plans,            \* what plan.json may hold at first
    PlanEdits,        \* pairs of plans: how it is edited outside these operations
    OldReports,       \* versions reported under an earlier plan: bootstrapping a
                      \* plan writes a new state and keeps the reports
    None,
    MaxStamps,        \* bound: values of updated_at
    MaxPreviews,      \* bound: previews waiting to be applied
    AttemptCap        \* bound: attempts counted by the document

ASSUME StateAssumption ==
    /\ None \notin Writers
    /\ OldReports \subseteq Versions
    /\ MaxStamps \in Nat /\ AttemptCap \in Nat \ {0}

VARIABLES
    file,             \* the state file: its content, when whole its document
    plan,             \* plan.json
    lease,            \* the holder of the project operation lease
    writers,          \* the operation each writer is in
    previews,         \* preview artifacts
    reports,          \* the versions that have an executor run report
    clock,            \* the values of updated_at given out so far
    last,             \* history: the last write, and whether it held the lease
    strayed           \* history: a scope resolution was applied to a version that
                      \* was not the current one

vars == <<file, plan, lease, writers, previews, reports, clock, last, strayed>>

-----------------------------------------------------------------------------
Idle == [pc |-> "idle"]

Results == {"passed", "out_of_scope", "failed"}
(* record_direct_manual_review does to the statuses what abort_version does. *)
Resolutions == {"refresh_in_scope_state", "abort_version"}
PreviewKinds == {"manual_validation", "recheck_report", "manual_fix_prompt", "scope_mismatch"}
PlanOperations == {"reload_plan", "continue_next_version"}
Kinds == PreviewKinds \cup PlanOperations
            \cup {"rerun_acceptance", "run", "fix", "record_commit"}

Whole(doc, stamp) == [content |-> "whole", doc |-> doc, updated_at |-> stamp]
Empty == [content |-> "empty"]
Garbled == [content |-> "garbled"]
Readable == file.content = "whole"
Running(w) == writers[w].pc # "idle"
Kind(w) == writers[w].kind

(* An operation in progress: the document it loaded (history, until the    *)
(* stale-write check), the updated_at that came with it (base), the        *)
(* document it is about to save, what it goes on to after that, and the    *)
(* preview it applies.                                                     *)
Operation(kind, leased, base, read, doc, stamp, next, preview) ==
    [pc |-> "check", kind |-> kind, leased |-> leased, base |-> base,
     read |-> read, doc |-> doc, updated_at |-> stamp, next |-> next, preview |-> preview]

Init ==
    /\ plan \in Plans
    /\ file = Whole(initialize_state(plan), 0)
    /\ lease = None
    /\ writers = [w \in Writers |-> Idle]
    /\ previews = {}
    /\ reports = OldReports
    /\ clock = 0
    /\ last = [updated_at |-> 0, leased |-> FALSE]
    /\ strayed = FALSE

(* Every operation sets updated_at to the time of the change, but for the  *)
(* save after the provider, which repeats what the run loaded.             *)
RefreshedForgettingContinue(kind) == kind \notin {"run", "fix", "continue_next_version"}
Refreshed(kind) == kind \notin {"run", "fix"}

WithoutLease(w) == UNCHANGED lease
HoldsLease(w) == lease = None /\ lease' = w

(* An operation loads the plan and the state and changes its copy.         *)
Begin(w, kind, leased, doc, preview) ==
    /\ Readable
    /\ writers[w].pc = "idle"
    /\ clock < MaxStamps
    /\ IF leased THEN HoldsLease(w) ELSE WithoutLease(w)
    /\ writers' = [writers EXCEPT ![w] =
           Operation(kind, leased, file.updated_at, file.doc, doc,
                     IF Refreshed(kind) THEN clock + 1 ELSE file.updated_at,
                     IF kind \in {"run", "fix"} THEN "accept" ELSE "end", preview)]
    /\ clock' = IF Refreshed(kind) THEN clock + 1 ELSE clock
    /\ UNCHANGED <<file, plan, previews, reports, last>>

Start(w, kind, leased, doc) == Begin(w, kind, leased, doc, None) /\ UNCHANGED strayed

End(w) ==
    /\ writers' = [writers EXCEPT ![w] = Idle]
    /\ lease' = IF lease = w THEN None ELSE lease

-----------------------------------------------------------------------------
(* The operations of the version flow.  Reloading and continuing are       *)
(* reached from the web console, with the lease, and from MCP, without.    *)

EditPlan ==
    /\ plan' \in {edit[2] : edit \in {e \in PlanEdits : e[1] = plan}}
    /\ UNCHANGED <<file, lease, writers, previews, reports, clock, last, strayed>>

reload_plan(w, leased) ==
    /\ Readable
    /\ Start(w, "reload_plan", leased, _reconcile_state_with_reloaded_plan(file.doc, plan))

ContinueVersion(w, leased) ==
    /\ Readable /\ CanContinue(file.doc, plan)
    /\ Start(w, "continue_next_version", leased, continue_next_version(file.doc, plan))

(* No status keeps acceptance from being run again.                        *)
rerun_acceptance(w) ==
    /\ Readable /\ HasCurrent(file.doc, plan)
    /\ \E result \in Results :
          Start(w, "rerun_acceptance", TRUE, _run_acceptance(file.doc, FALSE, result))

RunBlocked(doc) ==
    normalize_passed_current_version_status(doc).status
        \in {"VERSION_PASSED", "COMPLETED", "BLOCKED_BY_ACCEPTANCE_FAILURE",
             "BLOCKED_BY_MAX_FIX_ATTEMPTS"}

(* preflight and the provider's run: what is saved afterwards is the       *)
(* document that was loaded, under its own updated_at.                     *)
run_once(w, mode) ==
    /\ Readable /\ HasCurrent(file.doc, plan)
    /\ IF mode = "fix" THEN file.doc.status = "FIX_PROMPT_READY" ELSE ~RunBlocked(file.doc)
    /\ Start(w, mode, TRUE, file.doc)

RecordCommit(w, v) ==
    /\ Readable
    /\ v \in Listed(file.doc.runtimes)
    /\ Start(w, "record_commit", FALSE, record_commit_metadata(file.doc, v))

-----------------------------------------------------------------------------
(* The operations that apply a preview.                                    *)

IsCurrentIgnored(doc, v) == TRUE
IsCurrent(doc, v) == doc.current = v

(* The conditions of each preview on the document and on there being a     *)
(* report; what the report, validation runs and Git say is taken to be     *)
(* what it asks for.                                                       *)
PreviewAllows(kind, doc, v) ==
    CASE kind = "manual_validation" ->
           /\ IsCurrent(doc, v)
           /\ <<doc.status, doc.at[v]>> \in
                  {<<"BLOCKED_BY_ACCEPTANCE_FAILURE", "FAILED_BLOCKED">>,
                   <<"FIX_PROMPT_READY", "FIX_PROMPT_READY">>}
      [] kind = "recheck_report" ->
           /\ IsCurrent(doc, v)
           /\ v \in reports
           /\ doc.status = "BLOCKED_BY_SCOPE_VIOLATION" \/ doc.at[v] = "BLOCKED"
      [] kind = "manual_fix_prompt" ->
           /\ IsCurrent(doc, v)
           /\ \/ doc.status \in {"BLOCKED_BY_ACCEPTANCE_FAILURE", "BLOCKED_BY_SCOPE_VIOLATION",
                                 "BLOCKED_BY_MODEL_FAILURE"}
              \/ doc.status = "BLOCKED_BY_MAX_FIX_ATTEMPTS" /\ doc.attempt < MaxFixAttempts
           /\ doc.at[v] \in {"FAILED_BLOCKED", "BLOCKED"}
      [] kind = "scope_mismatch" -> v \in reports

Preview(kind, v) ==
    /\ Cardinality(previews) < MaxPreviews
    /\ Readable
    /\ v \in Listed(file.doc.runtimes) \cap Listed(Names(plan))
    /\ PreviewAllows(kind, file.doc, v)
    /\ previews' = previews \cup {
           [kind |-> kind, version |-> v, status |-> file.doc.status,
            at |-> file.doc.at[v], index |-> file.doc.index, attempt |-> file.doc.attempt]}
    /\ UNCHANGED <<file, plan, lease, writers, reports, clock, last, strayed>>

(* apply compares the two statuses it saw; only a manual fix prompt looks  *)
(* at the current version, its index and the attempt again.                *)
Unchanged(preview, doc) ==
    /\ preview.status = doc.status
    /\ preview.at = doc.at[preview.version]
    /\ preview.kind = "manual_fix_prompt" =>
          /\ preview.version = doc.current /\ preview.index = doc.index
          /\ preview.attempt = doc.attempt

Applied(kind, doc, v, resolution) ==
    CASE kind \in {"manual_validation", "recheck_report"} -> RegisteredPass(doc, v)
      [] kind = "manual_fix_prompt" -> paste_manual_fix_prompt(doc)
      [] kind = "scope_mismatch" -> apply_scope_mismatch_resolution(doc, v, resolution)

Apply(w, preview, resolution) ==
    /\ Readable
    /\ preview.version \in Listed(file.doc.runtimes) \cap Listed(Names(plan))
    /\ Unchanged(preview, file.doc)
    /\ preview.kind = "manual_fix_prompt" =>
          HasCurrent(file.doc, plan) /\ file.doc.attempt < AttemptCap
    /\ Begin(w, preview.kind, FALSE,
             Applied(preview.kind, file.doc, preview.version, resolution), preview)
    /\ strayed' = (strayed \/ (preview.kind = "scope_mismatch"
                                  /\ preview.version # file.doc.current))

(* A preview expires.                                                      *)
DropPreview(preview) ==
    /\ previews' = previews \ {preview}
    /\ UNCHANGED <<file, plan, lease, writers, reports, clock, last, strayed>>

-----------------------------------------------------------------------------
(* StateMutationGateway.save.                                              *)

_check_stale(w) ==
    /\ writers[w].pc = "check"
    /\ IF Readable /\ file.updated_at = writers[w].base
         THEN /\ writers' = [writers EXCEPT ![w].pc = "open", ![w].read = None]
              /\ UNCHANGED lease
         ELSE End(w)
    /\ UNCHANGED <<file, plan, previews, reports, clock, last, strayed>>

OpenStateFile(w) ==
    /\ writers[w].pc = "open"
    /\ writers' = [writers EXCEPT ![w].pc = "write"]
    /\ file' = Empty
    /\ UNCHANGED <<plan, lease, previews, reports, clock, last, strayed>>

(* Two writers that both opened the file write over each other from its    *)
(* beginning: what the longer document leaves behind garbles the shorter.  *)
save_state(w) ==
    /\ writers[w].pc = "write"
    /\ \/ file' = Whole(writers[w].doc, writers[w].updated_at)
       \/ file # Empty /\ file' = Garbled
    /\ last' = [updated_at |-> writers[w].updated_at, leased |-> writers[w].leased]
    /\ previews' = previews \ {writers[w].preview}
    /\ IF writers[w].next = "end"
         THEN End(w)
         ELSE /\ writers' = [writers EXCEPT ![w].pc = writers[w].next]
              /\ UNCHANGED lease
    /\ UNCHANGED <<plan, reports, clock, strayed>>

-----------------------------------------------------------------------------
(* The rest of an executor run.                                            *)

(* The run goes on with the copy it saved.                                 *)
SaveAgain(w, doc, next) ==
    /\ clock < MaxStamps
    /\ writers' = [writers EXCEPT ![w] =
           Operation(@.kind, TRUE, @.updated_at, @.doc, doc, clock + 1, next, None)]
    /\ clock' = clock + 1
    /\ UNCHANGED <<file, plan, lease, previews, reports, last, strayed>>

AcceptRun(w) ==
    /\ writers[w].pc = "accept"
    /\ \E result \in Results :
          SaveAgain(w, _run_acceptance(writers[w].doc, Kind(w) = "fix", result),
                    IF result = "passed" THEN "evidence" ELSE "report")

BlockUnchangedRun(w) ==
    /\ writers[w].pc = "evidence"
    /\ SaveAgain(w, mark_blocked_by_no_changes(writers[w].doc), "report")

(* The run is reported, and over; so is one whose provider failed, which  *)
(* is not always reported.                                                 *)
EndRun(w) ==
    /\ writers[w].pc \in {"accept", "evidence", "report"}
    /\ \/ reports' = reports \cup {writers[w].doc.current}
       \/ writers[w].pc = "accept" /\ UNCHANGED reports
    /\ End(w)
    /\ UNCHANGED <<file, plan, previews, clock, last, strayed>>

(* The process dies; a document it was writing may be written in part.     *)
Crash(w) ==
    /\ Running(w)
    /\ \/ UNCHANGED file
       \/ writers[w].pc = "write" /\ file' = Garbled
    /\ End(w)
    /\ UNCHANGED <<plan, previews, reports, clock, last, strayed>>

Next ==
    \/ EditPlan
    \/ \E kind \in PreviewKinds, v \in Versions : Preview(kind, v)
    \/ \E preview \in previews : DropPreview(preview)
    \/ \E w \in Writers :
         \/ \E leased \in BOOLEAN : reload_plan(w, leased) \/ ContinueVersion(w, leased)
         \/ rerun_acceptance(w)
         \/ \E mode \in {"run", "fix"} : run_once(w, mode)
         \/ \E v \in Versions : RecordCommit(w, v)
         \/ \E preview \in previews, resolution \in Resolutions : Apply(w, preview, resolution)
         \/ _check_stale(w) \/ OpenStateFile(w) \/ save_state(w)
         \/ AcceptRun(w) \/ BlockUnchangedRun(w) \/ EndRun(w) \/ Crash(w)

Spec == Init /\ [][Next]_vars

-----------------------------------------------------------------------------
Ordered(order) == \A i, j \in DOMAIN order : order[i] = order[j] => i = j

(* That a document names its current version by name and by index alike    *)
(* is not so for every edit of the plan: when a version is inserted before *)
(* the current one by hand, continue_next_version aligns the runtimes and  *)
(* looks for the next version from the old index.  What is said of the     *)
(* documents is for plans that are valid (validate_plan), list no version  *)
(* twice and are edited by appending versions and switching them on and    *)
(* off.                                                                    *)
GoodPlan(p) ==
    /\ p \in Seq(PlanVersions)
    /\ Ordered(Names(p))
    /\ \E i \in DOMAIN p : p[i].enabled

Grows(old, new) ==
    /\ DOMAIN old \subseteq DOMAIN new
    /\ \A i \in DOMAIN old : new[i].version = old[i].version

PlansGrow ==
    /\ \A p \in Plans : GoodPlan(p)
    /\ \A edit \in PlanEdits : GoodPlan(edit[2]) /\ Grows(edit[1], edit[2])

WellFormed(doc) ==
    /\ doc \in Documents /\ doc.attempt \in 1 .. AttemptCap
    /\ Ordered(doc.runtimes)
    /\ doc.index \in DOMAIN doc.runtimes
    /\ Current(doc) = doc.current

(* A readable state file, and every document about to be saved, names its  *)
(* current version by name and by index alike.                             *)
TypeOK ==
    /\ Readable => WellFormed(file.doc) /\ file.updated_at \in 0 .. clock
    /\ plan \in Seq(PlanVersions) /\ clock \in 0 .. MaxStamps
    /\ lease \in Writers \cup {None} /\ reports \subseteq Versions
    /\ \A w \in Writers : Running(w) =>
          /\ Kind(w) \in Kinds /\ WellFormed(writers[w].doc)
          /\ {writers[w].base, writers[w].updated_at} \subseteq 0 .. clock
          /\ lease = w <=> writers[w].leased

(* updated_at stands for the document in every stale-write check           *)
(* (state_mutation_gateway.py): when the file carries the updated_at that  *)
(* an operation loaded, its version flow is the one the operation loaded,  *)
(* whatever was written, lost or rewritten in between.                     *)
UpdatedAtNamesTheDocument ==
    \A w \in Writers :
        /\ Running(w) /\ writers[w].pc = "check"
        /\ Readable /\ file.updated_at = writers[w].base
        => file.doc = writers[w].read

(* Two operations that hold the project operation lease never overwrite    *)
(* one another: a save that loses an update which its stale-write check    *)
(* did not see is by, or over, an operation that takes no lease.           *)
LeasedSavesCompose ==
    [][\A w \in Writers :
         Running(w) /\ writers[w].pc = "write" /\ save_state(w)
            /\ last.updated_at # writers[w].base
         => ~(writers[w].leased /\ last.leased)]_vars

Begins(w, kind) == ~Running(w) /\ Running(w)' /\ Kind(w)' = kind

(* Reloading and continuing leave COMPLETED behind a passed version only   *)
(* when no enabled version of the plan after it is still to pass           *)
(* (plan_reload_workflow.py:183, "Reopen COMPLETED if pending enabled      *)
(* versions exist").                                                       *)
LeavesNothingPending(doc) ==
    doc.status = "COMPLETED" /\ doc.at[Current(doc)] = "PASSED" => Pending(doc, plan) = {}

CompletedHasNothingPending ==
    [][\A w \in Writers, kind \in PlanOperations :
          Begins(w, kind) => LeavesNothingPending(writers'[w].doc)]_vars

PassedWhenLeft == file.doc.at[Current(file.doc)] = "PASSED"

(* continue_next_version leaves a version that has not passed only when a  *)
(* scope_mismatch_apply has been for another version than the current one. *)
(* That may be long ago: it can leave the runner blocked beside a version  *)
(* that has passed, a recheck of that version can be previewed, and be     *)
(* applied when the runner has gone on and is blocked again.               *)
OnlyStrayRefreshSkipsVersions ==
    [][\A w \in Writers : Begins(w, "continue_next_version") => PassedWhenLeft \/ strayed]_vars

(* continue_next_version leaves only a version that has passed             *)
(* (state_machine.py:321, "the current version has not passed yet, the     *)
(* next version cannot be entered").                                       *)
ContinueLeavesPassedVersions ==
    [][\A w \in Writers : Begins(w, "continue_next_version") => PassedWhenLeft]_vars
=============================================================================
