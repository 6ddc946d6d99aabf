------------------------- MODULE WorkItemLedgerProofs -------------------------
(***************************************************************************)
(* Theorems about WorkItemLedger, for every set of Work Items, principals, *)
(* previews and bounds.                                                    *)
(***************************************************************************)
EXTENDS WorkItemLedger, TLAPS

-----------------------------------------------------------------------------
(* The types of the commands' parameters, whatever the bounds.             *)

CreateStep == \E w \in WorkItems, o \in Origins : apply_work_item_create(w, o)
ReviseStep == \E w \in WorkItems : add_task_version(w)
StartStep ==
    \E a \in Attempts, w \in WorkItems, n \in Nat : create_execution_attempt(a, w, n)
ImportStep ==
    \E a \in Attempts, w \in WorkItems, n \in Nat : bind_historical_execution_attempt(a, w, n)
CompleteStep ==
    \E a \in Attempts, xs \in SUBSET Artifacts : complete_execution_attempt(a, xs)
RegisterStep ==
    \E x \in Artifacts, w \in WorkItems, n \in Nat, a \in Attempts \cup {Absent} :
        register_artifact_reference(x, w, n, a)
DecideStep ==
    \E d \in Decisions, w \in WorkItems, n \in Nat, action \in DECISION_ACTIONS,
       es \in SUBSET Artifacts, s \in Decisions \cup {Absent}, u \in Principals :
        record_review_decision(d, w, n, action, es, s, u)
BlockStep ==
    \E w \in WorkItems, b \in Blockers : apply_blocker(w, b) \/ clear_blocker(w, b)
PreviewStep ==
    \E p \in Previews, w \in WorkItems, n \in Nat, t \in WORK_ITEM_STATES, v \in Nat,
       ds \in SUBSET Decisions, es \in SUBSET Artifacts, k \in Keys \cup {Absent},
       u \in Principals :
        preview_work_item_transition(p, w, n, t, v, ds, es, k, u)
ExpireStep == \E p \in Previews : ExpirePreview(p)
ApplyStep == \E p \in Previews : ApplyTransition(p)
RejectStep == \E p \in Previews : RejectTransition(p)

TypedNext ==
    \/ CreateStep \/ ReviseStep \/ StartStep \/ ImportStep \/ CompleteStep
    \/ RegisterStep \/ DecideStep \/ BlockStep \/ PreviewStep \/ ExpireStep
    \/ ApplyStep \/ RejectStep

(* A generated identifier is one of the identifiers.                       *)
LEMMA NewIdIsId ==
    ASSUME NEW ids, NEW used
    PROVE  new_stable_id(ids, used) \subseteq ids
BY DEF new_stable_id

(* The versions a client may name are natural numbers.                     *)
LEMMA GuessesAreNat ==
    ASSUME TypeOK, NEW w \in WorkItems
    PROVE  GuessedTaskVersions(w) \subseteq Nat /\ GuessedStateVersions(w) \subseteq Nat
BY PolicyAssumption DEF TypeOK, WorkItemRows, GuessedTaskVersions, GuessedStateVersions

(* Every step is one of the commands, with parameters of the right type.   *)
LEMMA StepsAreTyped == TypeOK /\ Next => TypedNext
<1> SUFFICES ASSUME TypeOK, Next PROVE TypedNext
  OBVIOUS
<1> USE NewIdIsId
<1>n. 1 .. MaxTaskVersion \subseteq Nat
  BY PolicyAssumption
<1>a. Actions \subseteq DECISION_ACTIONS
  BY PolicyAssumption
<1>1. CASE \E w \in WorkItems, o \in Origins : apply_work_item_create(w, o)
  BY <1>1 DEF TypedNext, CreateStep
<1>2. CASE \E w \in WorkItems : add_task_version(w)
  BY <1>2 DEF TypedNext, ReviseStep
<1>3. CASE \E a \in new_stable_id(Attempts, UsedAttempts), w \in WorkItems,
              n \in 1 .. MaxTaskVersion :
              \/ create_execution_attempt(a, w, n)
              \/ bind_historical_execution_attempt(a, w, n)
  <2>1. PICK a \in new_stable_id(Attempts, UsedAttempts), w \in WorkItems,
             n \in 1 .. MaxTaskVersion :
             \/ create_execution_attempt(a, w, n)
             \/ bind_historical_execution_attempt(a, w, n)
    BY <1>3
  <2>2. a \in Attempts /\ n \in Nat
    BY <1>n
  <2> QED BY <2>1, <2>2 DEF TypedNext, StartStep, ImportStep
<1>4. CASE \E a \in Attempts, xs \in SUBSET Artifacts : complete_execution_attempt(a, xs)
  BY <1>4 DEF TypedNext, CompleteStep
<1>5. CASE \E x \in new_stable_id(Artifacts, UsedArtifacts), w \in WorkItems,
              n \in 1 .. MaxTaskVersion, a \in Attempts \cup {Absent} :
              register_artifact_reference(x, w, n, a)
  <2>1. PICK x \in new_stable_id(Artifacts, UsedArtifacts), w \in WorkItems,
             n \in 1 .. MaxTaskVersion, a \in Attempts \cup {Absent} :
             register_artifact_reference(x, w, n, a)
    BY <1>5
  <2>2. x \in Artifacts /\ n \in Nat
    BY <1>n
  <2> QED BY <2>1, <2>2 DEF TypedNext, RegisterStep
<1>6. CASE \E d \in new_stable_id(Decisions, UsedDecisions), w \in WorkItems,
              n \in 1 .. MaxTaskVersion, action \in Actions, es \in SUBSET Artifacts,
              s \in Decisions \cup {Absent}, u \in Principals :
              record_review_decision(d, w, n, action, es, s, u)
  <2>1. PICK d \in new_stable_id(Decisions, UsedDecisions), w \in WorkItems,
             n \in 1 .. MaxTaskVersion, action \in Actions, es \in SUBSET Artifacts,
             s \in Decisions \cup {Absent}, u \in Principals :
             record_review_decision(d, w, n, action, es, s, u)
    BY <1>6
  <2>2. d \in Decisions /\ n \in Nat /\ action \in DECISION_ACTIONS
    BY <1>n, <1>a
  <2> QED BY <2>1, <2>2 DEF TypedNext, DecideStep
<1>7. CASE \E w \in WorkItems, b \in Blockers : apply_blocker(w, b) \/ clear_blocker(w, b)
  BY <1>7 DEF TypedNext, BlockStep
<1>8. CASE \E p \in new_stable_id(Previews, UsedPreviews), w \in WorkItems,
              t \in WORK_ITEM_STATES, ds \in SUBSET Decisions, es \in SUBSET Artifacts,
              k \in Keys \cup {Absent}, u \in Principals :
              \E n \in GuessedTaskVersions(w), v \in GuessedStateVersions(w) :
                 preview_work_item_transition(p, w, n, t, v, ds, es, k, u)
  <2>1. PICK p \in new_stable_id(Previews, UsedPreviews), w \in WorkItems,
             t \in WORK_ITEM_STATES, ds \in SUBSET Decisions, es \in SUBSET Artifacts,
             k \in Keys \cup {Absent}, u \in Principals :
             \E n \in GuessedTaskVersions(w), v \in GuessedStateVersions(w) :
                preview_work_item_transition(p, w, n, t, v, ds, es, k, u)
    BY <1>8
  <2>2. PICK n \in GuessedTaskVersions(w), v \in GuessedStateVersions(w) :
             preview_work_item_transition(p, w, n, t, v, ds, es, k, u)
    BY <2>1
  <2>3. p \in Previews /\ n \in Nat /\ v \in Nat
    BY GuessesAreNat
  <2> QED BY <2>2, <2>3 DEF TypedNext, PreviewStep
<1>9. CASE \E p \in Previews : ExpirePreview(p) \/ ApplyTransition(p) \/ RejectTransition(p)
  BY <1>9 DEF TypedNext, ExpireStep, ApplyStep, RejectStep
<1> QED BY <1>1, <1>2, <1>3, <1>4, <1>5, <1>6, <1>7, <1>8, <1>9 DEF Next
-----------------------------------------------------------------------------
(* Type correctness.                                                       *)

(* The permission a transition needs is always a Work Item permission.     *)
LEMMA AuthorityIsPermission ==
    ASSUME NEW from, NEW target
    PROVE  RequiredAuthority(from, target) \in Permissions
BY DEF RequiredAuthority, Permissions

LEMMA InitTyped == Init => TypeOK
BY DEF Init, TypeOK, NoItem, WorkItemRows, NoAttempt, AttemptRows, NoArtifact, ArtifactRows,
       NoDecision, DecisionRows, DECISION_ACTIONS, NoCommand, Commands, WORK_ITEM_STATES,
       Permissions, NoGate, GateRows, NoManifest, ManifestRows

LEMMA CreateTyped == TypeOK /\ CreateStep => TypeOK'
BY DEF CreateStep, apply_work_item_create, TypeOK, WorkItemRows, WORK_ITEM_STATES

LEMMA ReviseTyped == TypeOK /\ ReviseStep => TypeOK'
<1> SUFFICES ASSUME TypeOK, NEW w \in WorkItems, add_task_version(w) PROVE TypeOK'
  BY DEF ReviseStep
<1>0. work_items[w] \in WorkItemRows
  BY DEF TypeOK
<1>1. AdvanceTaskVersion(work_items[w]) \in WorkItemRows
  BY <1>0 DEF AdvanceTaskVersion, WorkItemRows
<1>2. work_items' \in [WorkItems -> WorkItemRows]
  BY <1>1 DEF TypeOK, add_task_version
<1> QED BY <1>2 DEF TypeOK, add_task_version

LEMMA AttemptsTyped == TypeOK /\ (StartStep \/ ImportStep) => TypeOK'
<1> SUFFICES ASSUME TypeOK, NEW a \in Attempts, NEW w \in WorkItems, NEW n \in Nat,
                    create_execution_attempt(a, w, n)
                        \/ bind_historical_execution_attempt(a, w, n)
             PROVE  TypeOK'
  BY DEF StartStep, ImportStep
<1>1. attempts' \in [Attempts -> AttemptRows]
  <2>1. CASE create_execution_attempt(a, w, n)
    BY <2>1 DEF TypeOK, AttemptRows, create_execution_attempt
  <2>2. CASE bind_historical_execution_attempt(a, w, n)
    BY <2>2 DEF TypeOK, AttemptRows, bind_historical_execution_attempt
  <2> QED BY <2>1, <2>2
<1> QED BY <1>1 DEF TypeOK, create_execution_attempt, bind_historical_execution_attempt

LEMMA CompleteTyped == TypeOK /\ CompleteStep => TypeOK'
<1> SUFFICES ASSUME TypeOK, NEW a \in Attempts, NEW xs \in SUBSET Artifacts,
                    complete_execution_attempt(a, xs)
             PROVE  TypeOK'
  BY DEF CompleteStep
<1>0. attempts[a] \in AttemptRows
  BY DEF TypeOK
<1>1. attempts' \in [Attempts -> AttemptRows]
  BY <1>0 DEF TypeOK, AttemptRows, complete_execution_attempt
<1>2. artifact_refs' \in [Artifacts -> ArtifactRows]
  BY <1>0 DEF TypeOK, AttemptRows, ArtifactRows, complete_execution_attempt
<1> QED BY <1>1, <1>2 DEF TypeOK, complete_execution_attempt

LEMMA RegisterTyped == TypeOK /\ RegisterStep => TypeOK'
BY DEF RegisterStep, register_artifact_reference, TypeOK, ArtifactRows

LEMMA DecideTyped == TypeOK /\ DecideStep => TypeOK'
BY DEF DecideStep, record_review_decision, TypeOK, DecisionRows

LEMMA BlockTyped == TypeOK /\ BlockStep => TypeOK'
<1> SUFFICES ASSUME TypeOK, NEW w \in WorkItems, NEW b \in Blockers,
                    apply_blocker(w, b) \/ clear_blocker(w, b)
             PROVE  TypeOK'
  BY DEF BlockStep
<1>1. work_items[w].current_task_version \in Nat /\ blockers[w] \in [Blockers -> Nat]
  BY DEF TypeOK, WorkItemRows
<1>2. blockers' \in [WorkItems -> [Blockers -> Nat]]
  <2>1. CASE apply_blocker(w, b)
    <3>1. [blockers[w] EXCEPT ![b] = work_items[w].current_task_version]
              \in [Blockers -> Nat]
      BY <1>1
    <3> QED BY <2>1, <3>1 DEF TypeOK, apply_blocker
  <2>2. CASE clear_blocker(w, b)
    <3>1. [blockers[w] EXCEPT ![b] = 0] \in [Blockers -> Nat]
      BY <1>1
    <3> QED BY <2>2, <3>1 DEF TypeOK, clear_blocker
  <2> QED BY <2>1, <2>2
<1> QED BY <1>2 DEF TypeOK, apply_blocker, clear_blocker

LEMMA NoCommandTyped == NoCommand \in Commands
BY DEF NoCommand, Commands, WORK_ITEM_STATES, Permissions

LEMMA PreviewTyped == TypeOK /\ PreviewStep => TypeOK'
BY AuthorityIsPermission DEF PreviewStep, preview_work_item_transition, TypeOK, Commands

LEMMA ExpireTyped == TypeOK /\ ExpireStep => TypeOK'
BY NoCommandTyped DEF ExpireStep, ExpirePreview, TypeOK

(* The row a Gate Event records is typed, and its preview is spent.        *)
LEMMA GateTyped ==
    ASSUME TypeOK, NEW p \in Previews, Issued(p),
           NEW outcome \in {"transition_applied", "transition_rejected"},
           RecordGate(p, outcome)
    PROVE  /\ gate_events' \in [Previews -> GateRows]
           /\ previews' \in [Previews -> Commands]
<1>1. previews[p] \in Commands /\ previews[p].work_item \in WorkItems
  BY DEF TypeOK, Commands, Issued, Inserted
<1>2. work_items[previews[p].work_item] \in WorkItemRows
  BY <1>1 DEF TypeOK
<1>3. gate_events' \in [Previews -> GateRows]
  BY <1>1, <1>2 DEF TypeOK, RecordGate, GateRows, Commands, WorkItemRows
<1>4. previews' \in [Previews -> Commands]
  BY NoCommandTyped DEF TypeOK, RecordGate
<1> QED BY <1>3, <1>4

LEMMA ApplyTyped == TypeOK /\ ApplyStep => TypeOK'
<1> SUFFICES ASSUME TypeOK, NEW p \in Previews, ApplyTransition(p) PROVE TypeOK'
  BY DEF ApplyStep
<1> DEFINE c == previews[p]
<1>1. c \in Commands /\ c.work_item \in WorkItems /\ Issued(p)
  BY DEF TypeOK, Commands, ApplyTransition, NewGate, Issued, Inserted
<1>2. work_items[c.work_item] \in WorkItemRows
  BY <1>1 DEF TypeOK
<1>3. work_items' \in [WorkItems -> WorkItemRows]
  BY <1>1, <1>2 DEF TypeOK, ApplyTransition, MoveTo, WorkItemRows, Commands
<1>4. acceptance_manifests' \in [WorkItems -> ManifestRows]
  BY <1>1 DEF TypeOK, ApplyTransition, ManifestRows, Commands
<1>5. RecordGate(p, "transition_applied")
  BY DEF ApplyTransition
<1>6. gate_events' \in [Previews -> GateRows] /\ previews' \in [Previews -> Commands]
  BY <1>1, <1>5, GateTyped
<1> QED BY <1>3, <1>4, <1>5, <1>6 DEF TypeOK, RecordGate

LEMMA RejectTyped == TypeOK /\ RejectStep => TypeOK'
<1> SUFFICES ASSUME TypeOK, NEW p \in Previews, RejectTransition(p) PROVE TypeOK'
  BY DEF RejectStep
<1>1. Issued(p) /\ RecordGate(p, "transition_rejected")
  BY DEF RejectTransition, NewGate
<1>2. gate_events' \in [Previews -> GateRows] /\ previews' \in [Previews -> Commands]
  BY <1>1, GateTyped
<1> QED BY <1>1, <1>2 DEF TypeOK, RejectTransition, RecordGate

LEMMA StepTyped == TypeOK /\ [Next]_vars => TypeOK'
<1> SUFFICES ASSUME TypeOK, [Next]_vars PROVE TypeOK'
  OBVIOUS
<1>1. CASE Next
  BY <1>1, StepsAreTyped, CreateTyped, ReviseTyped, AttemptsTyped, CompleteTyped,
     RegisterTyped, DecideTyped, BlockTyped, PreviewTyped, ExpireTyped, ApplyTyped,
     RejectTyped DEF TypedNext
<1>2. CASE UNCHANGED vars
  BY <1>2 DEF TypeOK, vars
<1> QED BY <1>1, <1>2

(* Every command of the service leaves rows of the schema in every table,  *)
(* whatever parameters clients choose.                                     *)
THEOREM TypeCorrect == Spec => []TypeOK
BY InitTyped, StepTyped, PTL DEF Spec
-----------------------------------------------------------------------------
(* A spent preview is never live again, and live previews are about Work   *)
(* Items that exist.                                                       *)

SpentPreviews ==
    \A p \in Previews : Issued(p) =>
        /\ ~Recorded(p)
        /\ previews[p].work_item \in WorkItems
        /\ Exists(previews[p].work_item)

LEMMA InitSpent == Init => SpentPreviews
BY DEF Init, SpentPreviews, Issued, Inserted, NoCommand

(* No Work Item row ever disappears.                                       *)
LEMMA ItemsStay ==
    ASSUME TypeOK, [Next]_vars, NEW w \in WorkItems, Exists(w)
    PROVE  Exists(w)'
<1>1. CASE UNCHANGED vars
  BY <1>1 DEF vars, Exists
<1>2. CASE Next
  <2>1. TypedNext
    BY <1>2, StepsAreTyped
  <2>2. CASE CreateStep
    BY <2>2 DEF CreateStep, apply_work_item_create, Exists, TypeOK
  <2>3. CASE ReviseStep
    BY <2>3 DEF ReviseStep, add_task_version, AdvanceTaskVersion, Exists, TypeOK
  <2>4. CASE ApplyStep
    <3>1. PICK p \in Previews : ApplyTransition(p)
      BY <2>4 DEF ApplyStep
    <3>2. previews[p].target_state # "absent"
      BY DEF TypeOK, Commands, WORK_ITEM_STATES
    <3> QED BY <3>1, <3>2 DEF ApplyTransition, MoveTo, Exists, TypeOK
  <2>5. CASE StartStep \/ ImportStep \/ CompleteStep \/ RegisterStep
    BY <2>5 DEF StartStep, ImportStep, CompleteStep, RegisterStep, create_execution_attempt,
       bind_historical_execution_attempt, complete_execution_attempt,
       register_artifact_reference, Exists
  <2>6. CASE DecideStep \/ BlockStep \/ PreviewStep \/ ExpireStep \/ RejectStep
    BY <2>6 DEF DecideStep, BlockStep, PreviewStep, ExpireStep, RejectStep,
       record_review_decision, apply_blocker, clear_blocker,
       preview_work_item_transition, ExpirePreview, RejectTransition, Exists
  <2> QED BY <2>1, <2>2, <2>3, <2>4, <2>5, <2>6 DEF TypedNext
<1> QED BY <1>1, <1>2

LEMMA StepSpent == TypeOK /\ SpentPreviews /\ [Next]_vars => SpentPreviews'
<1> SUFFICES ASSUME TypeOK, SpentPreviews, [Next]_vars,
                    NEW q \in Previews, Issued(q)'
             PROVE  /\ ~Recorded(q)'
                    /\ (previews[q].work_item \in WorkItems)'
                    /\ Exists(previews[q].work_item)'
  BY DEF SpentPreviews
<1>1. CASE previews'[q] = previews[q] /\ gate_events'[q] = gate_events[q]
  <2>1. ~Recorded(q) /\ previews[q].work_item \in WorkItems /\ Exists(previews[q].work_item)
    BY <1>1 DEF SpentPreviews, Issued, Inserted
  <2> QED BY <1>1, <2>1, ItemsStay DEF Recorded, Exists
<1>2. CASE Next /\ ~(previews'[q] = previews[q] /\ gate_events'[q] = gate_events[q])
  <2>1. TypedNext
    BY <1>2, StepsAreTyped
  <2>2. CASE PreviewStep
    BY <1>2, <2>2 DEF PreviewStep, preview_work_item_transition, Exists, Recorded, TypeOK
  <2>3. CASE ExpireStep
    BY <1>2, <2>3 DEF ExpireStep, ExpirePreview, TypeOK, Issued, Inserted, NoCommand
  <2>4. CASE ApplyStep \/ RejectStep
    <3>1. PICK p \in Previews : RecordGate(p, "transition_applied")
                                    \/ RecordGate(p, "transition_rejected")
      BY <2>4 DEF ApplyStep, RejectStep, ApplyTransition, RejectTransition
    <3>2. q = p
      BY <1>2, <3>1 DEF RecordGate, TypeOK
    <3>3. previews'[q] = NoCommand
      BY <3>1, <3>2 DEF RecordGate, TypeOK
    <3> QED BY <3>3 DEF Issued, Inserted, NoCommand
  <2>5. CASE CreateStep \/ ReviseStep \/ StartStep \/ ImportStep \/ CompleteStep
    BY <1>2, <2>5 DEF CreateStep, ReviseStep, StartStep, ImportStep, CompleteStep,
       apply_work_item_create, add_task_version, create_execution_attempt,
       bind_historical_execution_attempt, complete_execution_attempt
  <2>6. CASE RegisterStep \/ DecideStep \/ BlockStep
    BY <1>2, <2>6 DEF RegisterStep, DecideStep, BlockStep, register_artifact_reference,
       record_review_decision, apply_blocker, clear_blocker
  <2> QED BY <2>1, <2>2, <2>3, <2>4, <2>5, <2>6 DEF TypedNext
<1> QED BY <1>1, <1>2 DEF vars
-----------------------------------------------------------------------------
(* Terminal Work Items are frozen.                                         *)

LEMMA StepKeepsTerminal ==
    ASSUME TypeOK, [Next]_vars, NEW w \in WorkItems
    PROVE  TerminalStaysFrozen(w)
<1> SUFFICES ASSUME Terminal(w) PROVE TerminalStaysFrozen(w)
  BY DEF TerminalStaysFrozen
<1>e. Exists(w)
  BY DEF Terminal, TERMINAL_WORK_ITEM_STATES, Exists
<1>1. CASE UNCHANGED vars
  BY <1>1 DEF vars, TerminalStaysFrozen
<1>2. CASE Next
  <2>1. TypedNext
    BY <1>2, StepsAreTyped
  <2>2. CASE CreateStep
    BY <1>e, <2>2 DEF CreateStep, apply_work_item_create, TerminalStaysFrozen, TypeOK
  <2>3. CASE ReviseStep
    BY <2>3 DEF ReviseStep, add_task_version, CanRevise, TerminalStaysFrozen, TypeOK
  <2>4. CASE StartStep
    BY <2>4 DEF StartStep, create_execution_attempt, CanStart, TerminalStaysFrozen, TypeOK
  <2>5. CASE ImportStep
    <3>1. PICK a \in Attempts, v \in WorkItems, n \in Nat :
               bind_historical_execution_attempt(a, v, n)
      BY <2>5 DEF ImportStep
    <3>2. \A b \in Attempts : attempts[b] # attempts'[b] => attempts'[b].status = "ended"
      BY <3>1 DEF bind_historical_execution_attempt, TypeOK
    <3> QED BY <3>1, <3>2 DEF bind_historical_execution_attempt, TerminalStaysFrozen
  <2>6. CASE CompleteStep
    <3>1. PICK a \in Attempts, xs \in SUBSET Artifacts : complete_execution_attempt(a, xs)
      BY <2>6 DEF CompleteStep
    <3>2. \A b \in Attempts : attempts[b] # attempts'[b] => attempts'[b].status = "ended"
      BY <3>1 DEF complete_execution_attempt, TypeOK
    <3>3. \A x \in Artifacts : artifact_refs[x] # artifact_refs'[x] =>
                                   artifact_refs'[x].work_item # w
      BY <3>1 DEF complete_execution_attempt, CanInsertArtifact
    <3> QED BY <3>1, <3>2, <3>3 DEF complete_execution_attempt, TerminalStaysFrozen
  <2>7. CASE RegisterStep
    BY <2>7 DEF RegisterStep, register_artifact_reference, CanInsertArtifact,
       TerminalStaysFrozen, TypeOK
  <2>8. CASE DecideStep
    BY <2>8 DEF DecideStep, record_review_decision, CanDecide, TerminalStaysFrozen, TypeOK
  <2>9. CASE BlockStep \/ PreviewStep \/ ExpireStep \/ RejectStep
    BY <2>9 DEF BlockStep, PreviewStep, ExpireStep, RejectStep, apply_blocker,
       clear_blocker, preview_work_item_transition, ExpirePreview, RejectTransition,
       RecordGate, TerminalStaysFrozen
  <2>10. CASE ApplyStep
    <3>1. PICK p \in Previews : ApplyTransition(p)
      BY <2>10 DEF ApplyStep
    <3>2. previews[p].work_item # w
      BY <3>1 DEF ApplyTransition, Eligible, LifecycleAllows
    <3> QED BY <3>1, <3>2 DEF ApplyTransition, RecordGate, TerminalStaysFrozen, TypeOK
  <2> QED BY <2>1, <2>2, <2>3, <2>4, <2>5, <2>6, <2>7, <2>8, <2>9, <2>10 DEF TypedNext
<1> QED BY <1>1, <1>2

(* An accepted or cancelled Work Item never changes again: no revision,    *)
(* transition, late Artifact, late Decision or new runtime Attempt touches *)
(* it, however many previews and executors are still about.                *)
THEOREM TerminalItemsAreFrozen == Spec => TerminalFrozen
<1>1. TypeOK /\ [Next]_vars => [\A w \in WorkItems : TerminalStaysFrozen(w)]_vars
  BY StepKeepsTerminal
<1> QED BY <1>1, TypeCorrect, PTL DEF Spec, TerminalFrozen

-----------------------------------------------------------------------------
(* Compare-and-swap.                                                       *)

(* Every applied Gate Event lies strictly behind the row it moved.         *)
GatesBehindRow ==
    \A p \in Previews : Applied(p) =>
        LET w == gate_events[p].work_item IN
        /\ w \in WorkItems
        /\ Exists(w)
        /\ gate_events[p].expected_state_version < work_items[w].state_version

CasInv == TypeOK /\ SpentPreviews /\ GatesBehindRow /\ OneApplyPerStateVersion

LEMMA InitCas == Init => CasInv
BY InitTyped, InitSpent
   DEF Init, CasInv, GatesBehindRow, OneApplyPerStateVersion, Applied, NoGate

(* state_version never decreases once the row exists.                      *)
LEMMA StateVersionGrows ==
    ASSUME TypeOK, [Next]_vars, NEW w \in WorkItems, Exists(w)
    PROVE  work_items'[w].state_version >= work_items[w].state_version
<1>0. work_items[w].state_version \in Nat
  BY DEF TypeOK, WorkItemRows
<1>1. CASE work_items'[w] = work_items[w]
  BY <1>0, <1>1
<1>2. CASE Next /\ work_items'[w] # work_items[w]
  <2>1. TypedNext
    BY <1>2, StepsAreTyped
  <2>2. CASE CreateStep
    BY <1>2, <2>2 DEF CreateStep, apply_work_item_create, TypeOK
  <2>3. CASE ReviseStep
    <3>1. PICK v \in WorkItems : add_task_version(v)
      BY <2>3 DEF ReviseStep
    <3>2. v = w /\ work_items'[w] = AdvanceTaskVersion(work_items[w])
      BY <1>2, <3>1 DEF add_task_version, TypeOK
    <3> QED BY <1>0, <3>2 DEF AdvanceTaskVersion
  <2>4. CASE ApplyStep
    <3>1. PICK p \in Previews : ApplyTransition(p)
      BY <2>4 DEF ApplyStep
    <3>2. work_items'[w] = MoveTo(work_items[w], previews[p].target_state)
      BY <1>2, <3>1 DEF ApplyTransition, TypeOK
    <3> QED BY <1>0, <3>2 DEF MoveTo
  <2>5. CASE StartStep \/ ImportStep \/ CompleteStep \/ RegisterStep \/ DecideStep
    BY <1>2, <2>5 DEF StartStep, ImportStep, CompleteStep, RegisterStep, DecideStep,
       create_execution_attempt, bind_historical_execution_attempt,
       complete_execution_attempt, register_artifact_reference, record_review_decision
  <2>6. CASE BlockStep \/ PreviewStep \/ ExpireStep \/ RejectStep
    BY <1>2, <2>6 DEF BlockStep, PreviewStep, ExpireStep, RejectStep, apply_blocker,
       clear_blocker, preview_work_item_transition, ExpirePreview, RejectTransition
  <2> QED BY <2>1, <2>2, <2>3, <2>4, <2>5, <2>6 DEF TypedNext
<1> QED BY <1>1, <1>2 DEF vars
(* A Gate Event row changes only when its own preview is applied or        *)
(* rejected, which never happens to a recorded one.                        *)
LEMMA GateRowsAppendOnly ==
    ASSUME TypeOK, SpentPreviews, [Next]_vars, NEW p \in Previews,
           gate_events'[p] # gate_events[p]
    PROVE  /\ ~Recorded(p)
           /\ ApplyTransition(p) \/ RejectTransition(p)
<1>1. Next
  BY DEF vars
<1>2. TypedNext
  BY <1>1, StepsAreTyped
<1>3. ApplyStep \/ RejectStep
  BY <1>2 DEF TypedNext, CreateStep, ReviseStep, StartStep, ImportStep, CompleteStep,
     RegisterStep, DecideStep, BlockStep, PreviewStep, ExpireStep, apply_work_item_create,
     add_task_version, create_execution_attempt, bind_historical_execution_attempt,
     complete_execution_attempt, register_artifact_reference, record_review_decision,
     apply_blocker, clear_blocker, preview_work_item_transition, ExpirePreview
<1>4. PICK q \in Previews : ApplyTransition(q) \/ RejectTransition(q)
  BY <1>3 DEF ApplyStep, RejectStep
<1>5. q = p
  BY <1>4 DEF ApplyTransition, RejectTransition, RecordGate, TypeOK
<1>6. Issued(p)
  BY <1>4, <1>5 DEF ApplyTransition, RejectTransition, NewGate
<1> QED BY <1>4, <1>5, <1>6 DEF SpentPreviews

(* What an applied transition records and how far it moves its row.        *)
LEMMA ApplyRecords ==
    ASSUME TypeOK, SpentPreviews, NEW p \in Previews, ApplyTransition(p)
    PROVE  LET g == gate_events'[p] IN
           /\ g.work_item = previews[p].work_item
           /\ g.work_item \in WorkItems
           /\ g.expected_state_version = work_items[g.work_item].state_version
           /\ g.expected_state_version \in Nat
           /\ work_items'[g.work_item] =
                  MoveTo(work_items[g.work_item], previews[p].target_state)
           /\ Exists(g.work_item)
<1> DEFINE c == previews[p]
<1>1. c.work_item \in WorkItems /\ Exists(c.work_item)
  BY DEF SpentPreviews, ApplyTransition, NewGate
<1>2. gate_events'[p].work_item = c.work_item
      /\ gate_events'[p].expected_state_version = c.expected_state_version
  BY DEF ApplyTransition, RecordGate, TypeOK
<1>3. c.expected_state_version = work_items[c.work_item].state_version
  BY DEF ApplyTransition, Eligible, StateVersionFresh
<1>4. work_items[c.work_item].state_version \in Nat
  BY <1>1 DEF TypeOK, WorkItemRows
<1>5. work_items'[c.work_item] = MoveTo(work_items[c.work_item], c.target_state)
  BY <1>1 DEF ApplyTransition, TypeOK
<1> QED BY <1>1, <1>2, <1>3, <1>4, <1>5

(* Recording a Gate Event writes one row, with the outcome it is given.    *)
LEMMA GateRowWritten ==
    ASSUME TypeOK, NEW p \in Previews, NEW outcome, RecordGate(p, outcome)
    PROVE  /\ gate_events'[p].outcome = outcome
           /\ \A q \in Previews \ {p} : gate_events'[q] = gate_events[q]
BY DEF RecordGate, TypeOK

(* A row that turns up applied was written by ApplyTransition.             *)
LEMMA AppliedByApply ==
    ASSUME TypeOK, SpentPreviews, [Next]_vars, NEW p \in Previews,
           gate_events'[p] # gate_events[p],
           gate_events'[p].outcome = "transition_applied"
    PROVE  /\ ApplyTransition(p)
           /\ \A q \in Previews \ {p} : gate_events'[q] = gate_events[q]
<1>1. ApplyTransition(p) \/ RejectTransition(p)
  BY GateRowsAppendOnly
<1>2. CASE ApplyTransition(p)
  <2>1. RecordGate(p, "transition_applied")
    BY <1>2 DEF ApplyTransition
  <2> QED BY <1>2, <2>1, GateRowWritten
<1>3. CASE RejectTransition(p)
  <2>1. RecordGate(p, "transition_rejected")
    BY <1>3 DEF RejectTransition
  <2>2. gate_events'[p].outcome = "transition_rejected"
    BY <2>1, GateRowWritten
  <2> QED BY <2>2
<1> QED BY <1>1, <1>2, <1>3

LEMMA StepBehind == CasInv /\ [Next]_vars => GatesBehindRow'
<1> SUFFICES ASSUME CasInv, [Next]_vars, NEW p \in Previews, Applied(p)'
             PROVE  /\ (gate_events[p].work_item \in WorkItems)'
                    /\ Exists(gate_events[p].work_item)'
                    /\ (gate_events[p].expected_state_version
                          < work_items[gate_events[p].work_item].state_version)'
  BY DEF GatesBehindRow
<1> USE DEF CasInv
<1>1. CASE gate_events'[p] = gate_events[p]
  <2> DEFINE w == gate_events[p].work_item
  <2>1. w \in WorkItems /\ Exists(w)
        /\ gate_events[p].expected_state_version < work_items[w].state_version
    BY <1>1 DEF GatesBehindRow, Applied
  <2>2. \A v \in WorkItems : Exists(v) =>
            Exists(v)' /\ work_items'[v].state_version >= work_items[v].state_version
    BY ItemsStay, StateVersionGrows
  <2>3. /\ gate_events[p].expected_state_version \in Nat
        /\ work_items[w].state_version \in Nat
        /\ work_items'[w].state_version \in Nat
    BY <2>1, StepTyped DEF TypeOK, GateRows, WorkItemRows
  <2>4. gate_events[p].expected_state_version < work_items'[w].state_version
    BY <2>1, <2>2, <2>3
  <2> QED BY <1>1, <2>1, <2>2, <2>4 DEF Exists
<1>2. CASE gate_events'[p] # gate_events[p]
  <2>0. gate_events'[p].outcome = "transition_applied"
    BY DEF Applied
  <2>1. ApplyTransition(p)
    BY <1>2, <2>0, AppliedByApply
  <2> DEFINE w == gate_events'[p].work_item
  <2>2. /\ w \in WorkItems
        /\ gate_events'[p].expected_state_version = work_items[w].state_version
        /\ gate_events'[p].expected_state_version \in Nat
        /\ work_items'[w].state_version = work_items[w].state_version + 1
        /\ Exists(w)
    <3>1. /\ w \in WorkItems
          /\ gate_events'[p].expected_state_version = work_items[w].state_version
          /\ gate_events'[p].expected_state_version \in Nat
          /\ work_items'[w] = MoveTo(work_items[w], previews[p].target_state)
          /\ Exists(w)
      BY <2>1, ApplyRecords
    <3> QED BY <3>1 DEF MoveTo
  <2>3. work_items'[w].state # "absent"
    <3>1. \A v \in WorkItems : Exists(v) => Exists(v)'
      BY ItemsStay
    <3> QED BY <2>2, <3>1 DEF Exists
  <2>4. gate_events'[p].expected_state_version < work_items'[w].state_version
    BY <2>2
  <2> QED BY <2>2, <2>3, <2>4 DEF Exists
<1> QED BY <1>1, <1>2

LEMMA StepOneApply == CasInv /\ [Next]_vars => OneApplyPerStateVersion'
<1> SUFFICES ASSUME CasInv, [Next]_vars, NEW p \in Previews, NEW q \in Previews,
                    Applied(p)', Applied(q)', p # q,
                    gate_events'[p].work_item = gate_events'[q].work_item
             PROVE  gate_events'[p].expected_state_version
                        # gate_events'[q].expected_state_version
  BY DEF OneApplyPerStateVersion
<1> USE DEF CasInv
<1>a. ASSUME NEW r \in Previews, NEW s \in Previews, r # s, Applied(r)', Applied(s)',
             gate_events'[r] # gate_events[r],
             gate_events'[r].work_item = gate_events'[s].work_item
      PROVE  gate_events'[s].expected_state_version < gate_events'[r].expected_state_version
  <2>0. gate_events'[r].outcome = "transition_applied"
    BY <1>a DEF Applied
  <2>1. ApplyTransition(r)
    BY <1>a, <2>0, AppliedByApply
  <2>2. gate_events'[s] = gate_events[s]
    BY <1>a, <2>0, AppliedByApply
  <2>3. gate_events[s].expected_state_version
            < work_items[gate_events[s].work_item].state_version
    <3>1. Applied(s)
      BY <1>a, <2>2 DEF Applied
    <3> QED BY <3>1 DEF GatesBehindRow
  <2>4. gate_events'[r].expected_state_version
            = work_items[gate_events'[r].work_item].state_version
    BY <2>1, ApplyRecords
  <2> QED BY <1>a, <2>2, <2>3, <2>4
<1>b. gate_events'[p].expected_state_version \in Nat
      /\ gate_events'[q].expected_state_version \in Nat
  BY StepTyped DEF TypeOK, GateRows
<1>1. CASE gate_events'[p] # gate_events[p]
  BY <1>1, <1>a, <1>b
<1>2. CASE gate_events'[q] # gate_events[q]
  BY <1>2, <1>a, <1>b
<1>3. CASE gate_events'[p] = gate_events[p] /\ gate_events'[q] = gate_events[q]
  BY <1>3 DEF OneApplyPerStateVersion, Applied
<1> QED BY <1>1, <1>2, <1>3

LEMMA StepCas == CasInv /\ [Next]_vars => CasInv'
BY StepTyped, StepSpent, StepBehind, StepOneApply DEF CasInv

LEMMA CasInvariant == Spec => []CasInv
BY InitCas, StepCas, PTL DEF Spec

(* However many previews are in flight, and however their applications     *)
(* interleave with each other and with revisions, no two of them move a    *)
(* Work Item from the same state_version: there are no lost updates.       *)
THEOREM CompareAndSwapIsSound == Spec => []OneApplyPerStateVersion
BY CasInvariant, PTL DEF CasInv
-----------------------------------------------------------------------------
(* Acceptance and the executors.                                           *)

(* Only an applied transition towards "accepted" accepts a Work Item.      *)
LEMMA AcceptedByApply ==
    ASSUME TypeOK, [Next]_vars, NEW w \in WorkItems,
           work_items[w].state # "accepted", work_items'[w].state = "accepted"
    PROVE  \E p \in Previews :
              /\ ApplyTransition(p)
              /\ previews[p].work_item = w
              /\ work_items'[w] = MoveTo(work_items[w], "accepted")
<1>1. Next /\ work_items'[w] # work_items[w]
  BY DEF vars
<1>2. TypedNext
  BY <1>1, StepsAreTyped
<1>3. CASE CreateStep
  BY <1>3 DEF CreateStep, apply_work_item_create, TypeOK
<1>4. CASE ReviseStep
  <2>1. PICK v \in WorkItems : add_task_version(v)
    BY <1>4 DEF ReviseStep
  <2>2. work_items'[w] = AdvanceTaskVersion(work_items[w])
    BY <1>1, <2>1 DEF add_task_version, TypeOK
  <2> QED BY <2>2 DEF AdvanceTaskVersion
<1>5. CASE ApplyStep
  <2>1. PICK p \in Previews : ApplyTransition(p)
    BY <1>5 DEF ApplyStep
  <2>2. previews[p].work_item = w
        /\ work_items'[w] = MoveTo(work_items[w], previews[p].target_state)
    BY <1>1, <2>1 DEF ApplyTransition, TypeOK
  <2>3. previews[p].target_state = "accepted"
    BY <2>2 DEF MoveTo
  <2> QED BY <2>1, <2>2, <2>3
<1>6. CASE StartStep \/ ImportStep \/ CompleteStep \/ RegisterStep \/ DecideStep
  BY <1>1, <1>6 DEF StartStep, ImportStep, CompleteStep, RegisterStep, DecideStep,
     create_execution_attempt, bind_historical_execution_attempt,
     complete_execution_attempt, register_artifact_reference, record_review_decision
<1>7. CASE BlockStep \/ PreviewStep \/ ExpireStep \/ RejectStep
  BY <1>1, <1>7 DEF BlockStep, PreviewStep, ExpireStep, RejectStep, apply_blocker,
     clear_blocker, preview_work_item_transition, ExpirePreview, RejectTransition
<1> QED BY <1>2, <1>3, <1>4, <1>5, <1>6, <1>7 DEF TypedNext

LEMMA StepNoLive ==
    TypeOK /\ NoLiveAttemptOnAcceptedVersion /\ [Next]_vars
        => NoLiveAttemptOnAcceptedVersion'
<1> SUFFICES ASSUME TypeOK, NoLiveAttemptOnAcceptedVersion, [Next]_vars,
                    NEW w \in WorkItems, work_items'[w].state = "accepted",
                    NEW a \in Attempts,
                    attempts'[a].work_item = w,
                    attempts'[a].task_version = work_items'[w].current_task_version,
                    attempts'[a].attempt_kind = "runtime",
                    attempts'[a].status = "active"
             PROVE  FALSE
  BY DEF NoLiveAttemptOnAcceptedVersion, ActiveRuntimeAttempts
<1>1. CASE work_items[w].state = "accepted"
  <2>1. TerminalStaysFrozen(w)
    BY StepKeepsTerminal DEF vars, TerminalStaysFrozen
  <2>2. Terminal(w)
    BY <1>1 DEF Terminal, TERMINAL_WORK_ITEM_STATES
  <2>3. attempts'[a] = attempts[a] /\ work_items'[w] = work_items[w]
    BY <2>1, <2>2 DEF TerminalStaysFrozen
  <2> QED BY <1>1, <2>3 DEF NoLiveAttemptOnAcceptedVersion, ActiveRuntimeAttempts
<1>2. CASE work_items[w].state # "accepted"
  <2>1. PICK p \in Previews :
              /\ ApplyTransition(p)
              /\ previews[p].work_item = w
              /\ work_items'[w] = MoveTo(work_items[w], "accepted")
    BY <1>2, AcceptedByApply
  <2>2. previews[p].target_state = "accepted"
    <3>1. work_items'[w] = MoveTo(work_items[w], previews[p].target_state)
      BY <2>1 DEF ApplyTransition, TypeOK
    <3> QED BY <2>1, <3>1 DEF MoveTo
  <2>3. /\ attempts'[a] = attempts[a]
        /\ work_items[w].current_task_version = previews[p].task_version
        /\ ActiveRuntimeAttempts(w, previews[p].task_version) = {}
    BY <2>1, <2>2 DEF ApplyTransition, RecordGate, Eligible, TaskVersionFresh,
       NoActiveAttempt
  <2>4. work_items'[w].current_task_version = previews[p].task_version
    BY <2>1, <2>3 DEF MoveTo
  <2> QED BY <2>3, <2>4 DEF ActiveRuntimeAttempts
<1> QED BY <1>1, <1>2

(* No executor runs, or can be started, for an accepted Task Version.      *)
THEOREM AcceptedVersionsAreQuiet == Spec => []NoLiveAttemptOnAcceptedVersion
<1>1. Init => NoLiveAttemptOnAcceptedVersion
  BY DEF Init, NoLiveAttemptOnAcceptedVersion, NoItem
<1> QED BY <1>1, StepNoLive, TypeCorrect, PTL DEF Spec

-----------------------------------------------------------------------------
(* Authority and idempotency keys.                                         *)

(* AppliedGatesAuthorized is not inductive: it says nothing of the         *)
(* permission that a preview was issued with.                              *)
PreviewsPermitted ==
    \A p \in Previews : Issued(p) =>
        previews[p].authority \in Granted[previews[p].principal]

LEMMA StepPermitted ==
    TypeOK /\ SpentPreviews /\ PreviewsPermitted /\ [Next]_vars => PreviewsPermitted'
<1> SUFFICES ASSUME TypeOK, SpentPreviews, PreviewsPermitted, [Next]_vars,
                    NEW q \in Previews, Issued(q)'
             PROVE  previews'[q].authority \in Granted[previews'[q].principal]
  BY DEF PreviewsPermitted
<1>1. CASE previews'[q] = previews[q]
  BY <1>1 DEF PreviewsPermitted, Issued, Inserted
<1>2. CASE Next /\ previews'[q] # previews[q]
  <2>1. TypedNext
    BY <1>2, StepsAreTyped
  <2>2. CASE PreviewStep
    BY <1>2, <2>2 DEF PreviewStep, preview_work_item_transition, MayPreview, TypeOK
  <2>3. CASE ExpireStep
    BY <1>2, <2>3 DEF ExpireStep, ExpirePreview, TypeOK, Issued, Inserted, NoCommand
  <2>4. CASE ApplyStep \/ RejectStep
    <3>1. PICK p \in Previews : RecordGate(p, "transition_applied")
                                    \/ RecordGate(p, "transition_rejected")
      BY <2>4 DEF ApplyStep, RejectStep, ApplyTransition, RejectTransition
    <3>2. previews'[q] = NoCommand
      BY <1>2, <3>1 DEF RecordGate, TypeOK
    <3> QED BY <3>2 DEF Issued, Inserted, NoCommand
  <2>5. CASE CreateStep \/ ReviseStep \/ StartStep \/ ImportStep \/ CompleteStep
    BY <1>2, <2>5 DEF CreateStep, ReviseStep, StartStep, ImportStep, CompleteStep,
       apply_work_item_create, add_task_version, create_execution_attempt,
       bind_historical_execution_attempt, complete_execution_attempt
  <2>6. CASE RegisterStep \/ DecideStep \/ BlockStep
    BY <1>2, <2>6 DEF RegisterStep, DecideStep, BlockStep, register_artifact_reference,
       record_review_decision, apply_blocker, clear_blocker
  <2> QED BY <2>1, <2>2, <2>3, <2>4, <2>5, <2>6 DEF TypedNext
<1> QED BY <1>1, <1>2 DEF vars

LEMMA StepAuthorized ==
    TypeOK /\ SpentPreviews /\ PreviewsPermitted /\ AppliedGatesAuthorized /\ [Next]_vars
        => AppliedGatesAuthorized'
<1> SUFFICES ASSUME TypeOK, SpentPreviews, PreviewsPermitted, AppliedGatesAuthorized,
                    [Next]_vars, NEW p \in Previews, Applied(p)'
             PROVE  RequiredAuthority(gate_events'[p].from_state, gate_events'[p].target_state)
                        \in Granted[gate_events'[p].principal]
  BY DEF AppliedGatesAuthorized
<1>1. CASE gate_events'[p] = gate_events[p]
  BY <1>1 DEF AppliedGatesAuthorized, Applied
<1>2. CASE gate_events'[p] # gate_events[p]
  <2> DEFINE c == previews[p]
             g == gate_events'[p]
  <2>1. ApplyTransition(p)
    BY <1>2, AppliedByApply DEF Applied
  <2>2. /\ g.from_state = work_items[c.work_item].state
        /\ g.target_state = c.target_state /\ g.principal = c.principal
    BY <2>1 DEF ApplyTransition, RecordGate, TypeOK
  <2>3. c.authority \in Granted[c.principal]
    BY <2>1 DEF ApplyTransition, NewGate, PreviewsPermitted
  <2>4. c.authority = RequiredAuthority(work_items[c.work_item].state, c.target_state)
    BY <2>1 DEF ApplyTransition, Eligible, AuthorityMatches
  <2> HIDE DEF c, g
  <2>5. RequiredAuthority(g.from_state, g.target_state) = c.authority
    BY <2>2, <2>4
  <2>6. RequiredAuthority(g.from_state, g.target_state) \in Granted[g.principal]
    BY <2>2, <2>3, <2>5
  <2> QED BY <2>6 DEF g
<1> QED BY <1>1, <1>2

(* Whoever previewed a transition, and in whatever state the Work Item was *)
(* then, the transition performed is one that its principal may perform    *)
(* (_evaluate_transition compares the authority that the preview bound).   *)
THEOREM TransitionsAreAuthorized == Spec => []AppliedGatesAuthorized
<1>1. Init => SpentPreviews /\ PreviewsPermitted /\ AppliedGatesAuthorized
  BY InitSpent DEF Init, PreviewsPermitted, AppliedGatesAuthorized, Issued, Inserted,
     NoCommand, Applied, NoGate
<1> QED BY <1>1, StepSpent, StepPermitted, StepAuthorized, TypeCorrect, PTL DEF Spec

LEMMA StepOneGate ==
    TypeOK /\ SpentPreviews /\ OneGatePerKey /\ [Next]_vars => OneGatePerKey'
<1> SUFFICES ASSUME TypeOK, SpentPreviews, OneGatePerKey, [Next]_vars,
                    NEW p \in Previews, NEW q \in Previews, p # q,
                    Recorded(p)', Recorded(q)', gate_events'[p].idempotency_key # Absent
             PROVE  gate_events'[p].idempotency_key # gate_events'[q].idempotency_key
  BY DEF OneGatePerKey
<1>1. ASSUME NEW r \in Previews, NEW s \in Previews, r # s, Recorded(s)',
             gate_events'[s].idempotency_key # Absent, gate_events'[r] # gate_events[r]
      PROVE  gate_events'[r].idempotency_key # gate_events'[s].idempotency_key
  <2>1. ApplyTransition(r) \/ RejectTransition(r)
    BY <1>1, GateRowsAppendOnly
  <2>2. NewGate(r) /\ \E outcome : RecordGate(r, outcome)
    BY <2>1 DEF ApplyTransition, RejectTransition
  <2>3. /\ gate_events'[r].idempotency_key = previews[r].idempotency_key
        /\ gate_events'[s] = gate_events[s]
    BY <1>1, <2>2 DEF RecordGate, TypeOK
  <2>4. Recorded(s) /\ gate_events[s].idempotency_key # Absent
    BY <1>1, <2>3 DEF Recorded
  <2>5. gate_events[s].idempotency_key # previews[r].idempotency_key
    BY <2>2, <2>4 DEF NewGate, KeyUnused
  <2> QED BY <2>3, <2>5
<1>2. CASE gate_events'[p] # gate_events[p]
  <2>1. CASE gate_events'[q].idempotency_key = Absent
    BY <2>1
  <2>2. CASE gate_events'[q].idempotency_key # Absent
    BY <1>1, <1>2, <2>2
  <2> QED BY <2>1, <2>2
<1>3. CASE gate_events'[q] # gate_events[q]
  BY <1>1, <1>3
<1>4. CASE gate_events'[p] = gate_events[p] /\ gate_events'[q] = gate_events[q]
  BY <1>4 DEF OneGatePerKey, Recorded
<1> QED BY <1>2, <1>3, <1>4

(* However often a command is repeated under one idempotency key, one Gate *)
(* Event answers it (_load_gate_by_idempotency).                           *)
THEOREM KeysAreAnsweredOnce == Spec => []OneGatePerKey
<1>1. Init => SpentPreviews /\ OneGatePerKey
  BY InitSpent DEF Init, OneGatePerKey, Recorded, NoGate
<1> QED BY <1>1, StepSpent, StepOneGate, TypeCorrect, PTL DEF Spec
-----------------------------------------------------------------------------
(* The rows that change.                                                   *)

(* Apart from creation and revision, only an applied transition writes a   *)
(* Work Item row or a manifest.                                            *)
LEMMA ItemWriters ==
    ASSUME TypeOK, [Next]_vars
    PROVE  \/ UNCHANGED <<work_items, acceptance_manifests>>
           \/ CreateStep \/ ReviseStep \/ ApplyStep
<1>1. CASE UNCHANGED vars
  BY <1>1 DEF vars
<1>2. CASE Next
  <2>1. TypedNext
    BY <1>2, StepsAreTyped
  <2>2. CASE StartStep \/ ImportStep \/ CompleteStep \/ RegisterStep \/ DecideStep
    BY <2>2 DEF StartStep, ImportStep, CompleteStep, RegisterStep, DecideStep,
       create_execution_attempt, bind_historical_execution_attempt,
       complete_execution_attempt, register_artifact_reference, record_review_decision
  <2>3. CASE BlockStep \/ PreviewStep \/ ExpireStep \/ RejectStep
    BY <2>3 DEF BlockStep, PreviewStep, ExpireStep, RejectStep, apply_blocker,
       clear_blocker, preview_work_item_transition, ExpirePreview, RejectTransition
  <2> QED BY <2>1, <2>2, <2>3 DEF TypedNext
<1> QED BY <1>1, <1>2

(* One row changes: it is created, revised or moved.                       *)
Created(w, o) ==
    /\ ~Exists(w)
    /\ work_items'[w] = [state |-> "proposed", state_version |-> 0,
                         current_task_version |-> 1, origin |-> o]
Revised(w) == CanRevise(w) /\ work_items'[w] = AdvanceTaskVersion(work_items[w])
Moved(w, p) ==
    /\ ApplyTransition(p) /\ previews[p].work_item = w
    /\ Exists(w) /\ Eligible(previews[p])
    /\ work_items'[w] = MoveTo(work_items[w], previews[p].target_state)

LEMMA RowWriters ==
    ASSUME TypeOK, SpentPreviews, [Next]_vars, NEW w \in WorkItems,
           work_items'[w] # work_items[w]
    PROVE  \/ \E o \in Origins : Created(w, o)
           \/ Revised(w)
           \/ \E p \in Previews : Moved(w, p)
<1>1. CASE CreateStep
  <2>1. PICK v \in WorkItems, o \in Origins : apply_work_item_create(v, o)
    BY <1>1 DEF CreateStep
  <2>2. v = w
    BY <2>1 DEF apply_work_item_create, TypeOK
  <2> QED BY <2>1, <2>2 DEF apply_work_item_create, TypeOK, Created
<1>2. CASE ReviseStep
  <2>1. PICK v \in WorkItems : add_task_version(v)
    BY <1>2 DEF ReviseStep
  <2>2. v = w
    BY <2>1 DEF add_task_version, TypeOK
  <2> QED BY <2>1, <2>2 DEF add_task_version, TypeOK, Revised
<1>3. CASE ApplyStep
  <2>1. PICK p \in Previews : ApplyTransition(p)
    BY <1>3 DEF ApplyStep
  <2>2. previews[p].work_item = w
    BY <2>1 DEF ApplyTransition, TypeOK
  <2>3. Exists(w)
    BY <2>1, <2>2 DEF ApplyTransition, NewGate, SpentPreviews
  <2> QED BY <2>1, <2>2, <2>3 DEF ApplyTransition, TypeOK, Moved
<1> QED BY <1>1, <1>2, <1>3, ItemWriters

(* RowChangesAreVersioned: every write of an existing Work Item row        *)
(* advances its state_version by one (add_task_version and                 *)
(* apply_work_item_transition), so that a stale expectation is noticed.    *)
THEOREM ChangesAreVersioned == Spec => RowChangesAreVersioned
<1>1. TypeOK /\ SpentPreviews /\ [Next]_vars =>
          [\A w \in WorkItems :
              Exists(w) /\ work_items'[w] # work_items[w]
                  => work_items'[w].state_version = work_items[w].state_version + 1]_vars
  <2> SUFFICES ASSUME TypeOK, SpentPreviews, [Next]_vars, NEW w \in WorkItems,
                      Exists(w), work_items'[w] # work_items[w]
               PROVE  work_items'[w].state_version = work_items[w].state_version + 1
    OBVIOUS
  <2>1. CASE Revised(w)
    BY <2>1 DEF Revised, AdvanceTaskVersion
  <2>2. ASSUME NEW p \in Previews, Moved(w, p)
        PROVE  work_items'[w].state_version = work_items[w].state_version + 1
    BY <2>2 DEF Moved, MoveTo
  <2>3. \A o \in Origins : ~Created(w, o)
    BY DEF Created
  <2> QED BY <2>1, <2>2, <2>3, RowWriters
<1> QED BY <1>1, CasInvariant, TypeCorrect, PTL DEF Spec, RowChangesAreVersioned, CasInv

-----------------------------------------------------------------------------
(* Blockers.                                                               *)

(* BlockersHold is not inductive: an item that does not exist yet could be *)
(* created although it is blocked.                                         *)
OnlyItemsAreBlocked ==
    \A w \in WorkItems : (\E b \in Blockers : blockers[w][b] # 0) => Exists(w)

LEMMA StepBlocked == TypeOK /\ OnlyItemsAreBlocked /\ [Next]_vars => OnlyItemsAreBlocked'
<1> SUFFICES ASSUME TypeOK, OnlyItemsAreBlocked, [Next]_vars, NEW w \in WorkItems,
                    NEW b \in Blockers, blockers'[w][b] # 0
             PROVE  Exists(w)'
  BY DEF OnlyItemsAreBlocked
<1>1. Exists(w)
  <2>1. CASE blockers'[w] = blockers[w]
    BY <2>1 DEF OnlyItemsAreBlocked
  <2>2. CASE BlockStep
    <3>1. PICK v \in WorkItems, k \in Blockers : apply_blocker(v, k) \/ clear_blocker(v, k)
      BY <2>2 DEF BlockStep
    <3>2. CASE v = w
      BY <3>1, <3>2 DEF apply_blocker, clear_blocker
    <3>3. CASE v # w
      BY <2>1, <3>1, <3>3 DEF apply_blocker, clear_blocker, TypeOK
    <3> QED BY <3>2, <3>3
  <2>3. UNCHANGED blockers \/ BlockStep
    <3>1. CASE UNCHANGED vars
      BY <3>1 DEF vars
    <3>2. CASE Next
      <4>1. TypedNext
        BY <3>2, StepsAreTyped
      <4>2. CASE StartStep \/ ImportStep \/ CompleteStep \/ RegisterStep \/ DecideStep
        BY <4>2 DEF StartStep, ImportStep, CompleteStep, RegisterStep, DecideStep,
           create_execution_attempt, bind_historical_execution_attempt,
           complete_execution_attempt, register_artifact_reference, record_review_decision
      <4>3. CASE CreateStep \/ ReviseStep \/ PreviewStep \/ ExpireStep
        BY <4>3 DEF CreateStep, ReviseStep, PreviewStep, ExpireStep, apply_work_item_create,
           add_task_version, preview_work_item_transition, ExpirePreview
      <4>4. CASE ApplyStep \/ RejectStep
        BY <4>4 DEF ApplyStep, RejectStep, ApplyTransition, RejectTransition, RecordGate
      <4> QED BY <4>1, <4>2, <4>3, <4>4 DEF TypedNext
    <3> QED BY <3>1, <3>2
  <2> QED BY <2>1, <2>2, <2>3
<1> QED BY <1>1, ItemsStay

(* BlockersHold: while a blocker is raised, for whichever Task Version, no *)
(* transition starts delivery, submits or accepts: the Gate counts the     *)
(* blockers when it is applied, not when its preview was issued            *)
(* (_evaluate_transition, _active_blocker_rows).                           *)
THEOREM BlockersAlwaysHold == Spec => BlockersHold
<1>1. TypeOK /\ SpentPreviews /\ OnlyItemsAreBlocked /\ [Next]_vars =>
          [\A w \in WorkItems : BlockedDoesNotAdvance(w)]_vars
  <2> SUFFICES ASSUME TypeOK, SpentPreviews, OnlyItemsAreBlocked, [Next]_vars,
                      NEW w \in WorkItems, NEW b \in Blockers, blockers[w][b] # 0,
                      work_items'[w].state # work_items[w].state
               PROVE  \/ work_items'[w].state \in {"ready", "cancelled"}
                      \/ work_items[w].state = "submitted" /\ work_items'[w].state = "in_delivery"
    BY DEF BlockedDoesNotAdvance
  <2>1. Exists(w) /\ ActiveBlockers(w) # {}
    BY DEF OnlyItemsAreBlocked, ActiveBlockers
  <2>2. \/ \E o \in Origins : Created(w, o)
        \/ Revised(w)
        \/ \E p \in Previews : Moved(w, p)
    BY RowWriters
  <2>3. ASSUME NEW p \in Previews, Moved(w, p)
        PROVE  \/ work_items'[w].state \in {"ready", "cancelled"}
               \/ work_items[w].state = "submitted" /\ work_items'[w].state = "in_delivery"
    <3> DEFINE from == work_items[w].state
               target == previews[p].target_state
    <3>1. work_items'[w].state = target
      BY <2>3 DEF Moved, MoveTo
    <3>2. <<from, target>> \in WORK_ITEM_TRANSITIONS
      BY <2>3 DEF Moved, Eligible, LifecycleAllows
    <3>3. ~BlockersMustBeClear(from, target)
      BY <2>1, <2>3 DEF Moved, Eligible, BlockersClear
    <3> HIDE DEF from, target
    <3>4. \/ target \in {"ready", "cancelled"}
          \/ from = "submitted" /\ target = "in_delivery"
      BY <3>2, <3>3 DEF WORK_ITEM_TRANSITIONS, BlockersMustBeClear
    <3> QED BY <3>1, <3>4 DEF from, target
  <2> QED BY <2>1, <2>2, <2>3 DEF Created, Revised, AdvanceTaskVersion
<1>2. Init => OnlyItemsAreBlocked
  BY DEF Init, OnlyItemsAreBlocked
<1> QED BY <1>1, <1>2, StepBlocked, CasInvariant, TypeCorrect, PTL DEF Spec, BlockersHold, CasInv

-----------------------------------------------------------------------------
(* Submission.                                                             *)

(* What applying a transition writes, and what it was allowed by.          *)
LEMMA MoveWrites ==
    ASSUME TypeOK, SpentPreviews, NEW w \in WorkItems, NEW p \in Previews, Moved(w, p)
    PROVE  LET g == gate_events'[p]
           IN  /\ Applied(p)' /\ g.work_item = w
               /\ g.target_state = previews[p].target_state
               /\ g.task_version = work_items[w].current_task_version
               /\ g.expected_state_version = work_items[w].state_version
               /\ work_items'[w].state = g.target_state
               /\ work_items'[w].current_task_version = g.task_version
               /\ work_items'[w].state_version = g.expected_state_version + 1
               /\ <<work_items[w].state, g.target_state>> \in WORK_ITEM_TRANSITIONS
<1> DEFINE c == previews[p]
<1>1. /\ gate_events'[p].outcome = "transition_applied"
      /\ gate_events'[p].work_item = c.work_item
      /\ gate_events'[p].target_state = c.target_state
      /\ gate_events'[p].task_version = c.task_version
      /\ gate_events'[p].expected_state_version = c.expected_state_version
  BY DEF Moved, ApplyTransition, RecordGate, TypeOK
<1>2. /\ c.work_item = w /\ c.task_version = work_items[w].current_task_version
      /\ c.expected_state_version = work_items[w].state_version
      /\ <<work_items[w].state, c.target_state>> \in WORK_ITEM_TRANSITIONS
  BY DEF Moved, Eligible, TaskVersionFresh, StateVersionFresh, LifecycleAllows
<1>3. /\ work_items'[w].state = c.target_state
      /\ work_items'[w].current_task_version = work_items[w].current_task_version
      /\ work_items'[w].state_version = work_items[w].state_version + 1
  BY DEF Moved, MoveTo
<1> QED BY <1>1, <1>2, <1>3 DEF Applied

(* The Gate Event of an earlier transition is still there.                 *)
LEMMA AppliedStays ==
    ASSUME TypeOK, SpentPreviews, [Next]_vars, NEW p \in Previews, Applied(p)
    PROVE  gate_events'[p] = gate_events[p] /\ Applied(p)'
BY GateRowsAppendOnly DEF Applied, Recorded

LEMMA StepPinned ==
    TypeOK /\ SpentPreviews /\ SubmissionPinned /\ [Next]_vars => SubmissionPinned'
<1> SUFFICES ASSUME TypeOK, SpentPreviews, SubmissionPinned, [Next]_vars, NEW w \in WorkItems,
                    work_items'[w].state \in {"submitted", "accepted"}
             PROVE  \E p \in Previews :
                        /\ Applied(p)'
                        /\ gate_events'[p].work_item = w
                        /\ gate_events'[p].target_state = "submitted"
                        /\ gate_events'[p].task_version = work_items'[w].current_task_version
                        /\ work_items'[w].state_version = gate_events'[p].expected_state_version
                               + (IF work_items'[w].state = "accepted" THEN 2 ELSE 1)
  BY DEF SubmissionPinned
<1>1. ASSUME work_items[w].state \in {"submitted", "accepted"}
      PROVE  \E p \in Previews :
                /\ Applied(p)' /\ gate_events'[p].work_item = w
                /\ gate_events'[p].target_state = "submitted"
                /\ gate_events'[p].task_version = work_items[w].current_task_version
                /\ gate_events'[p].expected_state_version \in Nat
                /\ work_items[w].state_version = gate_events'[p].expected_state_version
                       + (IF work_items[w].state = "accepted" THEN 2 ELSE 1)
  <2>1. PICK p \in Previews :
                /\ Applied(p) /\ gate_events[p].work_item = w
                /\ gate_events[p].target_state = "submitted"
                /\ gate_events[p].task_version = work_items[w].current_task_version
                /\ work_items[w].state_version = gate_events[p].expected_state_version
                       + (IF work_items[w].state = "accepted" THEN 2 ELSE 1)
    BY <1>1 DEF SubmissionPinned
  <2>2. gate_events'[p] = gate_events[p] /\ Applied(p)'
    BY <2>1, AppliedStays
  <2>3. gate_events[p].expected_state_version \in Nat
    BY DEF TypeOK, GateRows
  <2> QED BY <2>1, <2>2, <2>3
<1>2. CASE work_items'[w] = work_items[w]
  BY <1>1, <1>2
<1>3. CASE work_items'[w] # work_items[w]
  <2>1. PICK p \in Previews : Moved(w, p)
    <3>1. ASSUME NEW o \in Origins, Created(w, o) PROVE FALSE
      <4>1. work_items'[w].state = "proposed"
        BY <3>1 DEF Created
      <4> QED BY <4>1
    <3>2. ~Revised(w)
      BY DEF Revised, CanRevise, Terminal, TERMINAL_WORK_ITEM_STATES, AdvanceTaskVersion
    <3> QED BY <1>3, <3>1, <3>2, RowWriters
  <2>2. /\ Applied(p)' /\ gate_events'[p].work_item = w
        /\ gate_events'[p].target_state = work_items'[w].state
        /\ gate_events'[p].task_version = work_items[w].current_task_version
        /\ work_items'[w].current_task_version = work_items[w].current_task_version
        /\ gate_events'[p].expected_state_version = work_items[w].state_version
        /\ work_items'[w].state_version = work_items[w].state_version + 1
        /\ <<work_items[w].state, work_items'[w].state>> \in WORK_ITEM_TRANSITIONS
    BY <2>1, MoveWrites
  <2>3. CASE work_items'[w].state = "submitted"
    BY <2>2, <2>3
  <2>4. CASE work_items'[w].state = "accepted"
    <3>1. work_items[w].state = "submitted"
      BY <2>2, <2>4 DEF WORK_ITEM_TRANSITIONS
    <3> QED BY <1>1, <2>2, <2>4, <3>1
  <2> QED BY <2>3, <2>4
<1> QED BY <1>2, <1>3

(* SubmissionPinned: what is accepted is what was submitted: the row has   *)
(* not moved, nor its Task Version been replaced, between the submission   *)
(* Gate and now, or the acceptance (add_task_version refuses a submitted   *)
(* Work Item; apply_work_item_transition compares both versions).          *)
THEOREM SubmissionsArePinned == Spec => []SubmissionPinned
<1>1. Init => SubmissionPinned
  BY DEF Init, SubmissionPinned, NoItem
<1>2. CasInv => TypeOK /\ SpentPreviews
  BY DEF CasInv
<1> QED BY <1>1, <1>2, StepPinned, CasInvariant, PTL DEF Spec
-----------------------------------------------------------------------------
(* Acceptance.                                                             *)

(* What the acceptance of w by the Gate Event of p rests on.               *)
RestsOn(w, p) ==
    LET m == acceptance_manifests[w]
    IN  /\ m.gate_event = p
        /\ Applied(p)
        /\ gate_events[p].work_item = w
        /\ gate_events[p].target_state = "accepted"
        /\ m.task_version = work_items[w].current_task_version
        /\ m.accepted_state_version = work_items[w].state_version
        /\ m.artifact_ids # {}
        /\ \A x \in m.artifact_ids : /\ artifact_refs[x].work_item = w
                                     /\ artifact_refs[x].task_version = m.task_version
        /\ \A d \in m.decision_ids : /\ decision_records[d].work_item = w
                                     /\ decision_records[d].task_version = m.task_version
                                     /\ ~Superseded(d)
        /\ \E d \in m.decision_ids :
              /\ decision_records[d].action \in {"accept", "approve"}
              /\ decision_records[d].evidence \subseteq m.artifact_ids

(* A Gate, applied or rejected, writes neither Artifacts nor Decisions.    *)
LEMMA GatesKeepTheRest ==
    ASSUME ApplyStep \/ RejectStep
    PROVE  UNCHANGED <<artifact_refs, decision_records>>
<1>1. PICK p \in Previews : ApplyTransition(p) \/ RejectTransition(p)
  BY DEF ApplyStep, RejectStep
<1>2. PICK outcome : RecordGate(p, outcome)
  BY <1>1 DEF ApplyTransition, RejectTransition
<1> QED BY <1>2 DEF RecordGate

(* The rows of Artifacts and Decisions are only ever inserted.             *)
LEMMA ArtifactsStay ==
    ASSUME TypeOK, [Next]_vars, NEW x \in Artifacts, Inserted(artifact_refs[x])
    PROVE  artifact_refs'[x] = artifact_refs[x]
<1>1. CASE UNCHANGED vars
  BY <1>1 DEF vars
<1>2. CASE Next
  <2>1. TypedNext
    BY <1>2, StepsAreTyped
  <2>2. CASE RegisterStep
    BY <2>2 DEF RegisterStep, register_artifact_reference, TypeOK
  <2>3. CASE CompleteStep
    BY <2>3 DEF CompleteStep, complete_execution_attempt
  <2>4. CASE CreateStep \/ ReviseStep \/ StartStep \/ ImportStep \/ DecideStep \/ BlockStep
    BY <2>4 DEF CreateStep, ReviseStep, StartStep, ImportStep, DecideStep, BlockStep,
       apply_work_item_create, add_task_version, create_execution_attempt,
       bind_historical_execution_attempt, record_review_decision, apply_blocker, clear_blocker
  <2>5. CASE PreviewStep \/ ExpireStep
    BY <2>5 DEF PreviewStep, ExpireStep, preview_work_item_transition, ExpirePreview
  <2>6. CASE ApplyStep \/ RejectStep
    BY <2>6, GatesKeepTheRest
  <2> QED BY <2>1, <2>2, <2>3, <2>4, <2>5, <2>6 DEF TypedNext
<1> QED BY <1>1, <1>2

LEMMA DecisionWriters ==
    ASSUME TypeOK, [Next]_vars
    PROVE  UNCHANGED decision_records \/ DecideStep
<1>1. CASE UNCHANGED vars
  BY <1>1 DEF vars
<1>2. CASE Next
  <2>1. TypedNext
    BY <1>2, StepsAreTyped
  <2>2. CASE CreateStep \/ ReviseStep \/ StartStep \/ ImportStep \/ CompleteStep
             \/ RegisterStep \/ BlockStep
    BY <2>2 DEF CreateStep, ReviseStep, StartStep, ImportStep, CompleteStep, RegisterStep,
       BlockStep, apply_work_item_create, add_task_version, create_execution_attempt,
       bind_historical_execution_attempt, complete_execution_attempt,
       register_artifact_reference, apply_blocker, clear_blocker
  <2>3. CASE PreviewStep \/ ExpireStep
    BY <2>3 DEF PreviewStep, ExpireStep, preview_work_item_transition, ExpirePreview
  <2>4. CASE ApplyStep \/ RejectStep
    BY <2>4, GatesKeepTheRest
  <2> QED BY <2>1, <2>2, <2>3, <2>4 DEF TypedNext
<1> QED BY <1>1, <1>2

(* No Decision of a terminal Work Item changes or becomes superseded.      *)
LEMMA DecisionsStay ==
    ASSUME TypeOK, [Next]_vars, NEW d \in Decisions, NEW w \in WorkItems,
           decision_records[d].work_item = w, Terminal(w)
    PROVE  /\ decision_records'[d] = decision_records[d]
           /\ ~Superseded(d) => ~Superseded(d)'
<1>1. CASE UNCHANGED decision_records
  BY <1>1 DEF Superseded
<1>2. CASE DecideStep
  <2>1. PICK e \in Decisions, v \in WorkItems, n \in Nat, action \in DECISION_ACTIONS,
             es \in SUBSET Artifacts, s \in Decisions \cup {Absent}, u \in Principals :
                record_review_decision(e, v, n, action, es, s, u)
    BY <1>2 DEF DecideStep
  <2>2. /\ ~Inserted(decision_records[e]) /\ ~Terminal(v)
        /\ s # Absent => decision_records[s].work_item = v
        /\ \A f \in Decisions \ {e} : decision_records'[f] = decision_records[f]
        /\ decision_records'[e].supersedes = s
    BY <2>1 DEF record_review_decision, CanDecide, TypeOK
  <2>3. d # e /\ s # d
    BY <2>2, PolicyAssumption DEF Inserted
  <2> QED BY <2>2, <2>3 DEF Superseded
<1> QED BY <1>1, <1>2, DecisionWriters

LEMMA AcceptanceStays ==
    ASSUME TypeOK, SpentPreviews, [Next]_vars, NEW w \in WorkItems, NEW p \in Previews,
           work_items[w].state = "accepted", RestsOn(w, p)
    PROVE  RestsOn(w, p)'
<1> DEFINE m == acceptance_manifests[w]
<1>1. Terminal(w)
  BY DEF Terminal, TERMINAL_WORK_ITEM_STATES
<1>2. work_items'[w] = work_items[w] /\ acceptance_manifests'[w] = acceptance_manifests[w]
  BY <1>1, StepKeepsTerminal DEF TerminalStaysFrozen
<1>3. gate_events'[p] = gate_events[p] /\ Applied(p)'
  BY AppliedStays DEF RestsOn
<1>4. m.artifact_ids \subseteq Artifacts /\ m.decision_ids \subseteq Decisions
  BY DEF TypeOK, ManifestRows
<1>5. \A x \in m.artifact_ids : artifact_refs'[x] = artifact_refs[x]
  <2>1. \A x \in m.artifact_ids : Inserted(artifact_refs[x])
    BY PolicyAssumption DEF RestsOn, Inserted
  <2> QED BY <1>4, <2>1, ArtifactsStay
<1>6. \A d \in m.decision_ids : decision_records'[d] = decision_records[d] /\ ~Superseded(d)'
  <2>1. \A d \in m.decision_ids : decision_records[d].work_item = w /\ ~Superseded(d)
    BY DEF RestsOn
  <2> QED BY <1>1, <1>4, <2>1, DecisionsStay
<1> QED BY <1>2, <1>3, <1>5, <1>6 DEF RestsOn

LEMMA AcceptanceBegins ==
    ASSUME TypeOK, SpentPreviews, NEW w \in WorkItems, NEW p \in Previews, Moved(w, p),
           work_items'[w].state = "accepted"
    PROVE  RestsOn(w, p)'
<1>0. /\ Applied(p)' /\ gate_events'[p].work_item = w
      /\ gate_events'[p].target_state = work_items'[w].state
      /\ gate_events'[p].target_state = previews[p].target_state
      /\ gate_events'[p].task_version = work_items[w].current_task_version
      /\ gate_events'[p].expected_state_version = work_items[w].state_version
      /\ work_items'[w].current_task_version = gate_events'[p].task_version
      /\ work_items'[w].state_version = gate_events'[p].expected_state_version + 1
  BY MoveWrites
<1> DEFINE c == previews[p]
<1>1. /\ Applied(p)' /\ gate_events'[p].work_item = w /\ gate_events'[p].target_state = "accepted"
      /\ c.target_state = "accepted"
      /\ work_items'[w].current_task_version = work_items[w].current_task_version
      /\ work_items'[w].state_version = work_items[w].state_version + 1
  BY <1>0
<1>2. /\ c.work_item = w /\ c.task_version = work_items[w].current_task_version
      /\ c.expected_state_version = work_items[w].state_version
      /\ EvidenceSufficient(c) /\ DecisionsAuthorize(c)
  BY DEF Moved, Eligible, TaskVersionFresh, StateVersionFresh
<1>3. /\ acceptance_manifests'[w] =
             [gate_event |-> p, task_version |-> c.task_version,
              accepted_state_version |-> c.expected_state_version + 1,
              artifact_ids |-> c.evidence, decision_ids |-> c.decision_ids]
      /\ UNCHANGED <<artifact_refs, decision_records>>
  BY <1>1, <1>2 DEF Moved, ApplyTransition, RecordGate, TypeOK
<1>4. /\ c.evidence # {}
      /\ \A x \in c.evidence : artifact_refs[x].work_item = w
                               /\ artifact_refs[x].task_version = c.task_version
  BY <1>1, <1>2 DEF EvidenceSufficient, EvidenceRequired, ArtifactsBound
<1>5. RequiredActions(work_items[c.work_item].state, c.target_state) = {"accept", "approve"}
  BY <1>1 DEF RequiredActions
<1>6. /\ \A d \in c.decision_ids : /\ decision_records[d].work_item = w
                                   /\ decision_records[d].task_version = c.task_version
                                   /\ ~Superseded(d)
      /\ \E d \in c.decision_ids : /\ decision_records[d].action \in {"accept", "approve"}
                                   /\ decision_records[d].evidence \subseteq c.evidence
  BY <1>2, <1>5 DEF DecisionsAuthorize, DecisionsBound
<1> DEFINE m == acceptance_manifests'[w]
<1>7. /\ m.gate_event = p /\ m.task_version = c.task_version
      /\ m.accepted_state_version = c.expected_state_version + 1
      /\ m.artifact_ids = c.evidence /\ m.decision_ids = c.decision_ids
  BY <1>3
<1>8. \A d : Superseded(d)' <=> Superseded(d)
  BY <1>3 DEF Superseded
<1> QED BY <1>1, <1>2, <1>3, <1>4, <1>6, <1>7, <1>8 DEF RestsOn

(* AcceptanceSound: what an acceptance rests on stays so for ever.  It     *)
(* holds when apply_work_item_transition writes the manifest, and no later *)
(* Artifact, Decision, superseding Decision, revision or transition        *)
(* touches a terminal Work Item.                                           *)
THEOREM AcceptancesAreSound == Spec => []AcceptanceSound
<1>1. Init => AcceptanceSound
  BY DEF Init, AcceptanceSound, NoItem
<1>2. CasInv /\ AcceptanceSound /\ [Next]_vars => AcceptanceSound'
  <2> SUFFICES ASSUME CasInv, AcceptanceSound, [Next]_vars,
                      NEW w \in WorkItems, work_items'[w].state = "accepted"
               PROVE  \E p \in Previews : RestsOn(w, p)'
    BY DEF AcceptanceSound, RestsOn
  <2> USE DEF CasInv
  <2>1. CASE work_items[w].state = "accepted"
    <3>1. PICK p \in Previews : RestsOn(w, p)
      BY <2>1 DEF AcceptanceSound, RestsOn
    <3> QED BY <2>1, <3>1, AcceptanceStays
  <2>2. CASE work_items[w].state # "accepted"
    <3>1. PICK p \in Previews :
              /\ ApplyTransition(p) /\ previews[p].work_item = w
              /\ work_items'[w] = MoveTo(work_items[w], "accepted")
      BY <2>2, AcceptedByApply
    <3>2. Moved(w, p)
      BY <3>1 DEF ApplyTransition, Moved, NewGate, SpentPreviews, TypeOK
    <3> QED BY <3>2, AcceptanceBegins
  <2> QED BY <2>1, <2>2
<1> QED BY <1>1, <1>2, CasInvariant, PTL DEF Spec, AcceptanceSound

-----------------------------------------------------------------------------
(* The abstract lifecycle.                                                 *)

LEMMA CreateImplements ==
    ASSUME TypeOK, CreateStep
    PROVE  Lifecycle!LNext
<1>1. PICK w \in WorkItems, o \in Origins : apply_work_item_create(w, o)
  BY DEF CreateStep
<1>2. Lifecycle!Open(w)
  <2>1. /\ ~Exists(w) /\ UNCHANGED acceptance_manifests
        /\ \A v \in WorkItems : work_items'[v] =
               IF v = w THEN [state |-> "proposed", state_version |-> 0,
                              current_task_version |-> 1, origin |-> o]
               ELSE work_items[v]
    BY <1>1 DEF apply_work_item_create, TypeOK
  <2>2. \A v \in WorkItems :
            /\ work_items'[v].state = IF v = w THEN "proposed" ELSE work_items[v].state
            /\ work_items'[v].current_task_version =
                   IF v = w THEN 1 ELSE work_items[v].current_task_version
    BY <2>1
  <2>3. work_items[w].state = "absent"
    BY <2>1 DEF Exists
  <2> QED BY <2>1, <2>2, <2>3 DEF Lifecycle!Open
<1> QED BY <1>2 DEF Lifecycle!LNext

LEMMA ReviseImplements ==
    ASSUME TypeOK, ReviseStep
    PROVE  Lifecycle!LNext
<1>1. PICK w \in WorkItems : add_task_version(w)
  BY DEF ReviseStep
<1>2. work_items[w].state \in {"proposed", "ready", "in_delivery"}
  BY <1>1 DEF add_task_version, CanRevise, Exists, Terminal, TERMINAL_WORK_ITEM_STATES,
     TypeOK, WorkItemRows, WORK_ITEM_STATES
<1>3. /\ UNCHANGED acceptance_manifests
      /\ \A v \in WorkItems :
             /\ work_items'[v].state = work_items[v].state
             /\ work_items'[v].current_task_version =
                    IF v = w THEN work_items[w].current_task_version + 1
                    ELSE work_items[v].current_task_version
  BY <1>1 DEF add_task_version, AdvanceTaskVersion, TypeOK
<1>4. Lifecycle!Revise(w)
  BY <1>2, <1>3 DEF Lifecycle!Revise
<1> QED BY <1>4 DEF Lifecycle!LNext

LEMMA ApplyImplements ==
    ASSUME TypeOK, SpentPreviews, ApplyStep
    PROVE  Lifecycle!LNext
<1>1. PICK p \in Previews : ApplyTransition(p)
  BY DEF ApplyStep
<1>2. PICK w \in WorkItems : w = previews[p].work_item
  BY <1>1 DEF ApplyTransition, NewGate, SpentPreviews
<1>3. PICK target \in WORK_ITEM_STATES : target = previews[p].target_state
  BY DEF TypeOK, Commands
<1>4. /\ \A v \in WorkItems :
             /\ work_items'[v].state = IF v = w THEN target ELSE work_items[v].state
             /\ work_items'[v].current_task_version = work_items[v].current_task_version
      /\ <<work_items[w].state, target>> \in WORK_ITEM_TRANSITIONS
  BY <1>1, <1>2, <1>3 DEF ApplyTransition, MoveTo, TypeOK, Eligible, LifecycleAllows
<1>5. ASSUME target # "accepted", work_items[w].state = target => FALSE
      PROVE  Lifecycle!Move(w, work_items[w].state, target)
  <2>1. UNCHANGED acceptance_manifests
    BY <1>1, <1>3, <1>5 DEF ApplyTransition
  <2> QED BY <1>4, <2>1 DEF Lifecycle!Move
<1>6. CASE target = "accepted"
  <2>1. work_items[w].state = "submitted"
    BY <1>4, <1>6 DEF WORK_ITEM_TRANSITIONS
  <2>2. PICK es \in SUBSET Artifacts : es = previews[p].evidence /\ es # {}
    BY <1>1, <1>3, <1>6 DEF ApplyTransition, Eligible, EvidenceSufficient, EvidenceRequired,
       TypeOK, Commands
  <2>3. \A v \in WorkItems : acceptance_manifests'[v].artifact_ids =
            IF v = w THEN es ELSE acceptance_manifests[v].artifact_ids
    BY <1>1, <1>2, <1>3, <1>6, <2>2 DEF ApplyTransition, TypeOK
  <2>4. Lifecycle!Accept(w, es)
    BY <1>4, <1>6, <2>1, <2>2, <2>3 DEF Lifecycle!Accept
  <2> QED BY <2>2, <2>4 DEF Lifecycle!LNext
<1>7. CASE target # "accepted"
  <2>1. work_items[w].state # target
    BY <1>4 DEF WORK_ITEM_TRANSITIONS, WORK_ITEM_STATES, TERMINAL_WORK_ITEM_STATES
  <2>2. Lifecycle!Move(w, work_items[w].state, target)
    BY <1>5, <1>7, <2>1
  <2>3. CASE target = "cancelled"
    <3>1. work_items[w].state \in {"proposed", "ready", "in_delivery", "submitted"}
      BY <1>4, <2>3 DEF WORK_ITEM_TRANSITIONS, WORK_ITEM_STATES, TERMINAL_WORK_ITEM_STATES
    <3>2. Lifecycle!Cancel(w)
      BY <2>2, <2>3, <3>1 DEF Lifecycle!Cancel
    <3> QED BY <3>2 DEF Lifecycle!LNext
  <2>4. CASE target # "cancelled"
    <3>1. <<work_items[w].state, target>> \in
              {<<"proposed", "ready">>, <<"ready", "in_delivery">>,
               <<"in_delivery", "submitted">>, <<"submitted", "in_delivery">>}
      BY <1>4, <1>7, <2>4 DEF WORK_ITEM_TRANSITIONS
    <3> QED BY <2>2, <3>1 DEF Lifecycle!LNext
  <2> QED BY <2>3, <2>4
<1> QED BY <1>6, <1>7

(* ImplementsLifecycle: seen through each Work Item's state, its Task      *)
(* Version and the evidence of its acceptance, every command of the        *)
(* service is a step of the abstract lifecycle, or invisible.              *)
THEOREM LedgerImplementsLifecycle == Spec => ImplementsLifecycle
<1>1. Init => Lifecycle!LInit
  BY DEF Init, NoItem, NoManifest, Lifecycle!LInit
<1>2. TypeOK /\ SpentPreviews /\ [Next]_vars => [Lifecycle!LNext]_(Lifecycle!lvars)
  <2> SUFFICES ASSUME TypeOK, SpentPreviews, [Next]_vars
               PROVE  Lifecycle!LNext \/ UNCHANGED Lifecycle!lvars
    OBVIOUS
  <2>1. CASE UNCHANGED <<work_items, acceptance_manifests>>
    BY <2>1 DEF Lifecycle!lvars
  <2> QED BY <2>1, ItemWriters, CreateImplements, ReviseImplements, ApplyImplements
<1>3. CasInv => TypeOK /\ SpentPreviews
  BY DEF CasInv
<1> QED BY <1>1, <1>2, <1>3, CasInvariant, PTL DEF Spec, ImplementsLifecycle, Lifecycle!LSpec
===============================================================================
