-------------------------- MODULE RunnerStateProofs --------------------------
(***************************************************************************)
(* Theorems about RunnerState.                                             *)
(*                                                                         *)
(* The first part needs nothing of the documents: it is about the values   *)
(* of updated_at, the lease and the last write, for any plans and edits.   *)
(* The second is about the documents, and supposes PlansGrow: in it, what  *)
(* each operator of the version flow makes of a sound document is a lemma  *)
(* of its own.                                                             *)
(***************************************************************************)
EXTENDS RunnerState, RecursionLemmas, TLAPS

Saving == {"check", "open", "write"}
AfterProvider == {"accept", "evidence", "report"}

(* An operation in progress has the fields of Operation; nothing is said   *)
(* of the documents in it.                                                 *)
Formed(o) ==
    /\ o = [pc |-> o.pc, kind |-> o.kind, leased |-> o.leased, base |-> o.base,
            read |-> o.read, doc |-> o.doc, updated_at |-> o.updated_at,
            next |-> o.next, preview |-> o.preview]
    /\ o.pc \in Saving \cup AfterProvider
    /\ o.next \in {"end"} \cup AfterProvider
    /\ o.kind \in Kinds
    /\ o.leased \in BOOLEAN

Shaped(o) == Formed(o) /\ o.base \in 0 .. clock /\ o.updated_at \in 0 .. clock

(* Who holds the lease runs a leased operation, and what follows a         *)
(* provider's run is leased.                                               *)
Leased ==
    \A w \in Writers :
        /\ lease = w <=> Running(w) /\ writers[w].leased
        /\ Running(w) /\ (writers[w].pc \in AfterProvider \/ writers[w].next # "end")
               => writers[w].leased

Shape ==
    /\ clock \in Nat
    /\ writers = [w \in Writers |-> writers[w]]
    /\ \A w \in Writers : Running(w) => Shaped(writers[w])
    /\ Readable => file.updated_at \in 0 .. clock
    /\ \A preview \in previews : preview.kind \in PreviewKinds
    /\ Leased

-----------------------------------------------------------------------------
(* The values of updated_at.                                               *)

(* The documents that carry an updated_at: the one in the file, the one an *)
(* operation loaded, as long as it can still be compared with the file,    *)
(* and the one it saves or saved.                                          *)
OnDisk == IF Readable THEN {<<file.updated_at, file.doc>>} ELSE {}
Held(w) ==
    IF ~Running(w) THEN {}
    ELSE {<<writers[w].updated_at, writers[w].doc>>}
             \cup (IF writers[w].pc = "check" THEN {<<writers[w].base, writers[w].read>>} ELSE {})
InUse == OnDisk \cup UNION {Held(w) : w \in Writers}

StampsNameDocuments == \A p, q \in InUse : p[1] = q[1] => p[2] = q[2]

(* The last write, for those that hold the lease.                          *)
LastWrite ==
    /\ Readable => file.updated_at = last.updated_at
    /\ last.leased \in BOOLEAN
    /\ \A w \in Writers : Running(w) /\ writers[w].leased /\ last.leased =>
          last.updated_at = IF writers[w].pc \in Saving THEN writers[w].base
                            ELSE writers[w].updated_at

StampInv == Shape /\ StampsNameDocuments /\ LastWrite
-----------------------------------------------------------------------------
(* The steps, as far as the state file is concerned.                       *)

(* A run saves again what it loaded, and holds the lease.                  *)
BeginsSome(w, kind, leased, doc, preview) ==
    /\ Begin(w, kind, leased, doc, preview)
    /\ kind \in Kinds /\ leased \in BOOLEAN
    /\ kind \in {"run", "fix"} => doc = file.doc /\ leased

Aside ==
    /\ UNCHANGED <<file, lease, writers, reports, clock, last>>
    /\ \A preview \in previews' : preview.kind \in PreviewKinds

SavesSome(w) ==
    _check_stale(w) \/ OpenStateFile(w) \/ save_state(w)
RunsOn(w) ==
    AcceptRun(w) \/ BlockUnchangedRun(w) \/ EndRun(w) \/ Crash(w)

LEMMA StepForms ==
    ASSUME \A preview \in previews : preview.kind \in PreviewKinds, [Next]_vars
    PROVE  \/ Aside
           \/ \E w \in Writers : \E kind, leased, doc, preview :
                 BeginsSome(w, kind, leased, doc, preview)
           \/ \E w \in Writers : SavesSome(w) \/ RunsOn(w)
<1>1. CASE UNCHANGED vars
  BY <1>1 DEF vars, Aside
<1>2. CASE EditPlan
  BY <1>2 DEF EditPlan, Aside
<1>3. ASSUME NEW kind \in PreviewKinds, NEW v \in Versions, Preview(kind, v)
      PROVE  Aside
  BY <1>3 DEF Preview, Aside
<1>4. ASSUME NEW preview \in previews, DropPreview(preview)
      PROVE  Aside
  BY <1>4 DEF DropPreview, Aside
<1>5. ASSUME NEW w \in Writers, NEW leased \in BOOLEAN, reload_plan(w, leased)
      PROVE  \E kind, l, doc, preview : BeginsSome(w, kind, l, doc, preview)
  BY <1>5 DEF reload_plan, Start, BeginsSome, Kinds, PlanOperations
<1>6. ASSUME NEW w \in Writers, NEW leased \in BOOLEAN, ContinueVersion(w, leased)
      PROVE  \E kind, l, doc, preview : BeginsSome(w, kind, l, doc, preview)
  BY <1>6 DEF ContinueVersion, Start, BeginsSome, Kinds, PlanOperations
<1>7. ASSUME NEW w \in Writers, rerun_acceptance(w)
      PROVE  \E kind, l, doc, preview : BeginsSome(w, kind, l, doc, preview)
  <2>1. PICK doc : Begin(w, "rerun_acceptance", TRUE, doc, None)
    BY <1>7, Zenon DEF rerun_acceptance, Start
  <2>2. "rerun_acceptance" \in Kinds
    BY DEF Kinds
  <2>3. BeginsSome(w, "rerun_acceptance", TRUE, doc, None)
    BY <2>1, <2>2 DEF BeginsSome
  <2> QED BY <2>3, Zenon
<1>8. ASSUME NEW w \in Writers, NEW mode \in {"run", "fix"}, run_once(w, mode)
      PROVE  \E kind, l, doc, preview : BeginsSome(w, kind, l, doc, preview)
  <2>1. Begin(w, mode, TRUE, file.doc, None)
    BY <1>8 DEF run_once, Start
  <2>2. mode \in Kinds
    BY DEF Kinds
  <2> QED BY <2>1, <2>2 DEF BeginsSome
<1>9. ASSUME NEW w \in Writers, NEW v \in Versions, RecordCommit(w, v)
      PROVE  \E kind, l, doc, preview : BeginsSome(w, kind, l, doc, preview)
  <2>1. PICK doc : Begin(w, "record_commit", FALSE, doc, None)
    BY <1>9, Zenon DEF RecordCommit, Start
  <2>2. BeginsSome(w, "record_commit", FALSE, doc, None)
    BY <2>1 DEF BeginsSome, Kinds
  <2> QED BY <2>2, Zenon
<1>10. ASSUME NEW w \in Writers, NEW preview \in previews, NEW resolution \in Resolutions,
              Apply(w, preview, resolution)
       PROVE  \E kind, l, doc, p : BeginsSome(w, kind, l, doc, p)
  <2>1. preview.kind \in PreviewKinds
    OBVIOUS
  <2> QED BY <1>10, <2>1 DEF Apply, BeginsSome, Kinds, PreviewKinds
<1> QED BY <1>1, <1>2, <1>3, <1>4, <1>5, <1>6, <1>7, <1>8, <1>9, <1>10
        DEF Next, SavesSome, RunsOn

(* Every step of a writer leaves the others alone.                         *)
Alone(w) ==
    /\ writers' = [v \in Writers |-> writers'[v]]
    /\ \A v \in Writers \ {w} : writers'[v] = writers[v]

LEMMA BeginWrites ==
    ASSUME Shape, NEW w \in Writers, NEW kind, NEW leased, NEW doc, NEW preview,
           BeginsSome(w, kind, leased, doc, preview)
    PROVE  /\ Alone(w) /\ ~Running(w) /\ Readable
           /\ writers'[w] = Operation(kind, leased, file.updated_at, file.doc, doc,
                     IF Refreshed(kind) THEN clock + 1 ELSE file.updated_at,
                     IF kind \in {"run", "fix"} THEN "accept" ELSE "end", preview)
           /\ clock' = IF Refreshed(kind) THEN clock + 1 ELSE clock
           /\ IF leased THEN lease = None /\ lease' = w ELSE UNCHANGED lease
           /\ UNCHANGED <<file, plan, previews, reports, last>>
BY DEF Shape, BeginsSome, Begin, HoldsLease, WithoutLease, Alone, Running

Ends(w) ==
    /\ writers'[w] = Idle
    /\ lease' = IF lease = w THEN None ELSE lease

(* The fields of an operation that goes on to pc.                          *)
GoesOn(w, pc) ==
    /\ writers'[w] = [writers[w] EXCEPT !.pc = pc]
    /\ UNCHANGED lease

LEMMA SavesWrite ==
    ASSUME Shape, NEW w \in Writers, SavesSome(w)
    PROVE  /\ Alone(w) /\ Running(w) /\ UNCHANGED <<plan, reports, clock>>
           /\ \/ /\ writers[w].pc = "check" /\ UNCHANGED <<file, previews, last>>
                 /\ \/ /\ writers'[w] = [writers[w] EXCEPT !.pc = "open", !.read = None]
                       /\ UNCHANGED lease
                    \/ Ends(w)
              \/ /\ writers[w].pc = "open" /\ UNCHANGED <<previews, last>>
                 /\ file' = Empty /\ GoesOn(w, "write")
              \/ /\ writers[w].pc = "write" /\ previews' \subseteq previews
                 /\ file' \in {Whole(writers[w].doc, writers[w].updated_at), Garbled}
                 /\ last' = [updated_at |-> writers[w].updated_at,
                             leased |-> writers[w].leased]
                 /\ IF writers[w].next = "end" THEN Ends(w) ELSE GoesOn(w, writers[w].next)
<1>1. writers = [v \in Writers |-> writers[v]]
  BY DEF Shape
<1>2. CASE _check_stale(w)
  BY <1>1, <1>2 DEF _check_stale, End, Ends, Alone, Running
<1>3. CASE OpenStateFile(w)
  BY <1>1, <1>3 DEF OpenStateFile, GoesOn, Alone, Running
<1>4. CASE save_state(w)
  BY <1>1, <1>4 DEF save_state, End, Ends, GoesOn, Alone, Running
<1> QED BY <1>2, <1>3, <1>4 DEF SavesSome

LEMMA RunWrites ==
    ASSUME Shape, NEW w \in Writers, RunsOn(w)
    PROVE  /\ Alone(w) /\ Running(w) /\ UNCHANGED <<plan, previews, last>>
           /\ \/ /\ writers[w].pc \in AfterProvider /\ clock' = clock + 1
                 /\ UNCHANGED <<file, lease, reports>>
                 /\ \E doc : \E next \in {"evidence", "report"} :
                       writers'[w] = Operation(writers[w].kind, TRUE, writers[w].updated_at,
                                               writers[w].doc, doc, clock + 1, next, None)
              \/ /\ UNCHANGED clock /\ Ends(w)
                 /\ file' = file \/ file' = Garbled
<1>1. writers = [v \in Writers |-> writers[v]]
  BY DEF Shape
<1>6. ASSUME NEW doc, NEW next \in {"evidence", "report"}, SaveAgain(w, doc, next),
             writers[w].pc \in AfterProvider
      PROVE  /\ Alone(w) /\ Running(w) /\ UNCHANGED <<plan, previews, last>>
             /\ clock' = clock + 1 /\ UNCHANGED <<file, lease, reports>>
             /\ writers'[w] = Operation(writers[w].kind, TRUE, writers[w].updated_at,
                                        writers[w].doc, doc, clock + 1, next, None)
  BY <1>1, <1>6 DEF SaveAgain, Alone, Running, AfterProvider
<1>2. CASE AcceptRun(w)
  <2>1. PICK result \in Results :
            SaveAgain(w, _run_acceptance(writers[w].doc, Kind(w) = "fix", result),
                      IF result = "passed" THEN "evidence" ELSE "report")
    BY <1>2, Zenon DEF AcceptRun
  <2>2. PICK doc, next : next \in {"evidence", "report"} /\ SaveAgain(w, doc, next)
    <3>1. CASE result = "passed"
      BY <2>1, <3>1, Zenon
    <3>2. CASE result # "passed"
      BY <2>1, <3>2, Zenon
    <3> QED BY <3>1, <3>2
  <2>3. writers[w].pc \in AfterProvider
    BY <1>2 DEF AcceptRun, AfterProvider
  <2> QED BY <1>6, <2>2, <2>3, Zenon
<1>3. CASE BlockUnchangedRun(w)
  <2>1. SaveAgain(w, mark_blocked_by_no_changes(writers[w].doc), "report")
    BY <1>3 DEF BlockUnchangedRun
  <2>2. PICK doc : SaveAgain(w, doc, "report")
    BY <2>1, Zenon
  <2>3. writers[w].pc \in AfterProvider
    BY <1>3 DEF BlockUnchangedRun, AfterProvider
  <2>4. "report" \in {"evidence", "report"}
    OBVIOUS
  <2> QED BY <1>6, <2>2, <2>3, <2>4, Zenon
<1>4. CASE EndRun(w)
  BY <1>1, <1>4 DEF EndRun, End, Ends, Alone, Running
<1>5. CASE Crash(w)
  BY <1>1, <1>5 DEF Crash, End, Ends, Alone
<1> QED BY <1>2, <1>3, <1>4, <1>5 DEF RunsOn
-----------------------------------------------------------------------------

LEMMA InitShape == Init => StampInv
<1> SUFFICES ASSUME Init PROVE StampInv
  OBVIOUS
<1>1. /\ clock = 0 /\ lease = None /\ previews = {}
      /\ writers = [w \in Writers |-> Idle]
      /\ file.updated_at = 0 /\ last = [updated_at |-> 0, leased |-> FALSE]
  BY DEF Init, Whole
<1>2. \A w \in Writers : ~Running(w) /\ lease # w
  BY <1>1, StateAssumption DEF Running, Idle
<1>3. Shape
  BY <1>1, <1>2 DEF Shape, Leased
<1>4. InUse \subseteq {<<file.updated_at, file.doc>>}
  BY <1>2 DEF InUse, OnDisk, Held
<1>5. StampsNameDocuments
  BY <1>4 DEF StampsNameDocuments
<1> QED BY <1>1, <1>2, <1>3, <1>5 DEF StampInv, LastWrite

(* What Shape asks of the writer that made a step; the others keep it as   *)
(* long as the clock does not go back.                                     *)
LeasedOne(w) ==
    /\ lease = w <=> Running(w) /\ writers[w].leased
    /\ Running(w) /\ (writers[w].pc \in AfterProvider \/ writers[w].next # "end")
           => writers[w].leased

LEMMA OperationIsFormed ==
    ASSUME NEW kind \in Kinds, NEW leased \in BOOLEAN, NEW base, NEW read, NEW doc, NEW stamp,
           NEW next \in {"end"} \cup AfterProvider, NEW preview
    PROVE  Formed(Operation(kind, leased, base, read, doc, stamp, next, preview))
BY DEF Formed, Operation, Saving

(* An operation that goes on keeps what is in it.                          *)
Carries(n, o) ==
    /\ n.kind = o.kind /\ n.leased = o.leased /\ n.base = o.base /\ n.doc = o.doc
    /\ n.updated_at = o.updated_at /\ n.next = o.next /\ n.preview = o.preview

LEMMA GoingOnIsFormed ==
    ASSUME NEW o, Formed(o), NEW pc \in Saving \cup AfterProvider, NEW n,
           n = [o EXCEPT !.pc = pc] \/ n = [o EXCEPT !.pc = pc, !.read = None]
    PROVE  Formed(n) /\ Carries(n, o) /\ n.pc = pc
<1>1. PICK pc0, kind, leased, base, read, doc, stamp, next, preview :
          o = [pc |-> pc0, kind |-> kind, leased |-> leased, base |-> base, read |-> read,
               doc |-> doc, updated_at |-> stamp, next |-> next, preview |-> preview]
  BY DEF Formed
<1>2. \E r : n = [pc |-> pc, kind |-> kind, leased |-> leased, base |-> base, read |-> r,
                  doc |-> doc, updated_at |-> stamp, next |-> next, preview |-> preview]
  <2>1. CASE n = [o EXCEPT !.pc = pc]
    <3>1. n = [pc |-> pc, kind |-> kind, leased |-> leased, base |-> base, read |-> read,
               doc |-> doc, updated_at |-> stamp, next |-> next, preview |-> preview]
      BY <1>1, <2>1
    <3> QED BY <3>1
  <2>2. CASE n = [o EXCEPT !.pc = pc, !.read = None]
    <3>1. n = [pc |-> pc, kind |-> kind, leased |-> leased, base |-> base, read |-> None,
               doc |-> doc, updated_at |-> stamp, next |-> next, preview |-> preview]
      BY <1>1, <2>2
    <3> QED BY <3>1
  <2> QED BY <2>1, <2>2
<1>3. /\ next \in {"end"} \cup AfterProvider /\ kind \in Kinds /\ leased \in BOOLEAN
  BY <1>1 DEF Formed
<1> QED BY <1>1, <1>2, <1>3 DEF Formed, Carries

LEMMA ShapeOfOne ==
    ASSUME Shape, NEW w \in Writers, Alone(w),
           clock' \in Nat, clock <= clock',
           Running(w)' => Shaped(writers[w])',
           LeasedOne(w)', \A v \in Writers \ {w} : lease' = v <=> lease = v,
           Readable' => file'.updated_at \in 0 .. clock',
           \A preview \in previews' : preview.kind \in PreviewKinds
    PROVE  Shape'
<1>1. ASSUME NEW v \in Writers, v # w
      PROVE  /\ Running(v)' => Shaped(writers[v])'
             /\ LeasedOne(v)'
  <2>1. writers'[v] = writers[v]
    BY <1>1 DEF Alone
  <2>2. Running(v) => Shaped(writers[v])
    BY DEF Shape
  <2>3. Running(v) => Shaped(writers[v])'
    BY <2>1, <2>2 DEF Shaped, Shape
  <2> QED BY <1>1, <2>1, <2>3 DEF Running, LeasedOne, Shape, Leased
<1> QED BY <1>1 DEF Shape, Alone, Leased, LeasedOne

LEMMA StepShape == Shape /\ [Next]_vars => Shape'
<1> SUFFICES ASSUME Shape, [Next]_vars PROVE Shape'
  OBVIOUS
<1>1. CASE Aside
  BY <1>1 DEF Aside, Shape, Leased, Shaped, Running, Readable
<1>2. ASSUME NEW w \in Writers, NEW kind, NEW leased, NEW doc, NEW preview,
             BeginsSome(w, kind, leased, doc, preview)
      PROVE  Shape'
  <2>1. /\ Alone(w) /\ ~Running(w) /\ Readable
        /\ writers'[w] = Operation(kind, leased, file.updated_at, file.doc, doc,
                  IF Refreshed(kind) THEN clock + 1 ELSE file.updated_at,
                  IF kind \in {"run", "fix"} THEN "accept" ELSE "end", preview)
        /\ clock' = IF Refreshed(kind) THEN clock + 1 ELSE clock
        /\ IF leased THEN lease = None /\ lease' = w ELSE UNCHANGED lease
        /\ UNCHANGED <<file, plan, previews, reports, last>>
    BY <1>2, BeginWrites
  <2>2. /\ kind \in Kinds /\ leased \in BOOLEAN
        /\ kind \in {"run", "fix"} => leased
    BY <1>2 DEF BeginsSome
  <2>3. clock' \in Nat /\ clock <= clock' /\ file.updated_at \in 0 .. clock
    BY <2>1 DEF Shape
  <2>4. Shaped(writers[w])'
    <3>1. Formed(writers[w])'
      BY <2>1, <2>2, OperationIsFormed DEF AfterProvider
    <3>2. clock' \in {clock, clock + 1} /\ clock \in Nat
      BY <2>1 DEF Shape
    <3>3. writers'[w].base = file.updated_at
      BY <2>1 DEF Operation
    <3>4. writers'[w].updated_at \in {clock', file.updated_at}
      BY <2>1 DEF Operation
    <3> QED BY <2>3, <3>1, <3>2, <3>3, <3>4 DEF Shaped
  <2>5. LeasedOne(w)'
    <3>1. ~Running(w) /\ lease # w
      BY <2>1 DEF Shape, Leased
    <3>2. Running(w)' /\ (writers'[w].leased = leased) /\ writers'[w].pc = "check"
      BY <2>1 DEF Operation, Running
    <3>3. writers'[w].next # "end" => kind \in {"run", "fix"}
      BY <2>1 DEF Operation
    <3> QED BY <2>1, <2>2, <3>1, <3>2, <3>3 DEF LeasedOne, AfterProvider
  <2>6. \A v \in Writers \ {w} : lease' = v <=> lease = v
    BY <2>1, <2>2, StateAssumption
  <2> QED BY <2>1, <2>3, <2>4, <2>5, <2>6, ShapeOfOne DEF Shape, Readable
<1>3. ASSUME NEW w \in Writers, SavesSome(w) PROVE Shape'
  <2>1. /\ Alone(w) /\ Running(w) /\ UNCHANGED clock
    BY <1>3, SavesWrite
  <2>2. Shaped(writers[w]) /\ LeasedOne(w)
    BY <2>1 DEF Shape, Leased, LeasedOne
  <2>3. \/ Ends(w)
        \/ \E pc \in {"open", "write"} \cup (AfterProvider \cap {writers[w].next}) :
              /\ UNCHANGED lease
              /\ Formed(writers'[w]) /\ Carries(writers'[w], writers[w]) /\ writers'[w].pc = pc
    <3>1. \/ Ends(w)
          \/ /\ UNCHANGED lease
             /\ \/ writers'[w] = [writers[w] EXCEPT !.pc = "open", !.read = None]
                \/ writers'[w] = [writers[w] EXCEPT !.pc = "write"]
                \/ /\ writers[w].next # "end"
                   /\ writers'[w] = [writers[w] EXCEPT !.pc = writers[w].next]
      BY <1>3, SavesWrite DEF GoesOn
    <3>2. {"open", "write"} \subseteq Saving /\ Formed(writers[w])
          /\ writers[w].next \in {"end"} \cup AfterProvider
      BY <2>2 DEF Shaped, Formed, Saving
    <3>6. ASSUME NEW pc \in Saving \cup AfterProvider,
                 \/ writers'[w] = [writers[w] EXCEPT !.pc = pc]
                 \/ writers'[w] = [writers[w] EXCEPT !.pc = pc, !.read = None]
          PROVE  Formed(writers'[w]) /\ Carries(writers'[w], writers[w]) /\ writers'[w].pc = pc
      BY <3>2, <3>6, GoingOnIsFormed
    <3>3. CASE writers'[w] = [writers[w] EXCEPT !.pc = "open", !.read = None]
      BY <3>1, <3>2, <3>3, <3>6
    <3>4. CASE writers'[w] = [writers[w] EXCEPT !.pc = "write"]
      BY <3>1, <3>2, <3>4, <3>6
    <3>5. CASE writers[w].next # "end" /\ writers'[w] = [writers[w] EXCEPT !.pc = writers[w].next]
      BY <3>1, <3>2, <3>5, <3>6
    <3> QED BY <3>1, <3>3, <3>4, <3>5
  <2>4. Running(w)' => Shaped(writers[w])'
    <3>1. CASE Ends(w)
      BY <3>1 DEF Ends, Idle, Running
    <3>2. CASE ~Ends(w)
      BY <2>1, <2>2, <2>3, <3>2 DEF Shaped, Carries
    <3> QED BY <3>1, <3>2
  <2>5. LeasedOne(w)'
    <3>1. CASE Ends(w)
      BY <3>1, StateAssumption DEF Ends, Idle, Running, LeasedOne
    <3>2. CASE ~Ends(w)
      <4>1. /\ Running(w)' /\ UNCHANGED lease
            /\ (writers'[w].leased = writers[w].leased) /\ writers'[w].next = writers[w].next
            /\ writers'[w].pc \in AfterProvider => writers[w].next # "end"
        BY <2>3, <3>2 DEF Carries, Running, AfterProvider
      <4> QED BY <2>1, <2>2, <4>1 DEF LeasedOne
    <3> QED BY <3>1, <3>2
  <2>6. \A v \in Writers \ {w} : lease' = v <=> lease = v
    BY <2>3, StateAssumption DEF Ends
  <2>7. Readable' => file'.updated_at \in 0 .. clock
    <3>1. \/ UNCHANGED file \/ file' \in {Empty, Garbled}
          \/ file' = Whole(writers[w].doc, writers[w].updated_at)
      BY <1>3, SavesWrite
    <3> QED BY <2>2, <3>1 DEF Shape, Shaped, Readable, Empty, Garbled, Whole
  <2>8. previews' \subseteq previews
    BY <1>3, SavesWrite
  <2> QED BY <2>1, <2>4, <2>5, <2>6, <2>7, <2>8, ShapeOfOne DEF Shape
<1>4. ASSUME NEW w \in Writers, RunsOn(w) PROVE Shape'
  <2>1. /\ Alone(w) /\ Running(w) /\ UNCHANGED previews
        /\ \/ /\ writers[w].pc \in AfterProvider /\ clock' = clock + 1
              /\ UNCHANGED <<file, lease>>
              /\ \E doc : \E next \in {"evidence", "report"} :
                    writers'[w] = Operation(writers[w].kind, TRUE, writers[w].updated_at,
                                            writers[w].doc, doc, clock + 1, next, None)
           \/ /\ UNCHANGED clock /\ Ends(w)
              /\ file' = file \/ file' = Garbled
    BY <1>4, RunWrites
  <2>2. Shaped(writers[w]) /\ LeasedOne(w)
    BY <2>1 DEF Shape, Leased, LeasedOne
  <2>0. clock' \in {clock, clock + 1} /\ file' \in {file, Garbled}
    BY <2>1
  <2>3. clock \in Nat /\ clock' \in Nat /\ clock <= clock'
    BY <2>0 DEF Shape
  <2>4. Readable' => file'.updated_at \in 0 .. clock'
    <3>1. Readable' => Readable /\ file' = file
      BY <2>0 DEF Readable, Garbled
    <3>2. Readable => file.updated_at \in 0 .. clock
      BY DEF Shape
    <3> QED BY <2>3, <3>1, <3>2
  <2>5. CASE Ends(w)
    <3>1. ~Running(w)' /\ LeasedOne(w)' /\ \A v \in Writers \ {w} : lease' = v <=> lease = v
      BY <2>5, StateAssumption DEF Ends, Idle, Running, LeasedOne
    <3> QED BY <2>1, <2>3, <2>4, <3>1, ShapeOfOne DEF Shape
  <2>6. CASE ~Ends(w)
    <3>1. PICK doc, next :
              /\ next \in {"evidence", "report"}
              /\ writers'[w] = Operation(writers[w].kind, TRUE, writers[w].updated_at,
                                         writers[w].doc, doc, clock + 1, next, None)
      BY <2>1, <2>6
    <3>2. writers[w].pc \in AfterProvider /\ clock' = clock + 1 /\ UNCHANGED lease
      BY <2>1, <2>6
    <3>3. Shaped(writers[w])'
      <4>1. Formed(writers[w])'
        <5>1. writers[w].kind \in Kinds /\ next \in {"end"} \cup AfterProvider /\ TRUE \in BOOLEAN
          BY <2>2, <3>1 DEF Shaped, Formed, AfterProvider
        <5>2. PICK kind, stamp, doc0 : kind \in Kinds /\
                  writers'[w] = Operation(kind, TRUE, stamp, doc0, doc, clock + 1, next, None)
          BY <3>1, <5>1
        <5> QED BY <5>1, <5>2, OperationIsFormed
      <4>2. writers'[w].base = writers[w].updated_at /\ writers'[w].updated_at = clock + 1
        BY <3>1 DEF Operation
      <4> QED BY <2>2, <2>3, <3>2, <4>1, <4>2 DEF Shaped
    <3>4. LeasedOne(w)'
      BY <2>1, <2>2, <3>1, <3>2 DEF LeasedOne, Operation, Running
    <3> QED BY <2>1, <2>3, <2>4, <3>2, <3>3, <3>4, ShapeOfOne DEF Shape
  <2> QED BY <2>5, <2>6
<1>5. \A preview \in previews : preview.kind \in PreviewKinds
  BY DEF Shape
<1> QED BY <1>1, <1>2, <1>3, <1>4, <1>5, StepForms
-----------------------------------------------------------------------------
(* A document gets a name only with a new updated_at.                      *)
NewNames ==
    \/ InUse' \subseteq InUse
    \/ \E doc : InUse' \subseteq InUse \cup {<<clock + 1, doc>>}

LEMMA NamesOfOne ==
    ASSUME NEW w \in Writers, Alone(w), NEW Names0,
           OnDisk' \subseteq InUse \cup Names0, Held(w)' \subseteq InUse \cup Names0
    PROVE  InUse' \subseteq InUse \cup Names0
<1>1. ASSUME NEW v \in Writers, v # w PROVE Held(v)' = Held(v)
  BY <1>1 DEF Alone, Held, Running
<1>2. \A v \in Writers : Held(v)' \subseteq InUse \cup Names0
  BY <1>1 DEF InUse
<1> QED BY <1>2 DEF InUse

LEMMA StepNames == Shape /\ [Next]_vars => NewNames
<1> SUFFICES ASSUME Shape, [Next]_vars PROVE NewNames
  OBVIOUS
<1>1. CASE Aside
  BY <1>1 DEF Aside, NewNames, InUse, OnDisk, Held, Running, Readable
<1>2. ASSUME NEW w \in Writers, NEW kind, NEW leased, NEW doc, NEW preview,
             BeginsSome(w, kind, leased, doc, preview)
      PROVE  NewNames
  <2>1. /\ Alone(w) /\ Readable /\ UNCHANGED file
        /\ writers'[w] = Operation(kind, leased, file.updated_at, file.doc, doc,
                  IF Refreshed(kind) THEN clock + 1 ELSE file.updated_at,
                  IF kind \in {"run", "fix"} THEN "accept" ELSE "end", preview)
    BY <1>2, BeginWrites
  <2>2. OnDisk' = OnDisk /\ <<file.updated_at, file.doc>> \in InUse
    BY <2>1 DEF OnDisk, InUse, Readable
  <2>3. Held(w)' = {<<writers'[w].updated_at, doc>>, <<file.updated_at, file.doc>>}
    BY <2>1 DEF Held, Running, Operation
  <2>4. CASE Refreshed(kind)
    <3>1. writers'[w].updated_at = clock + 1
      BY <2>1, <2>4 DEF Operation
    <3>2. Held(w)' \subseteq InUse \cup {<<clock + 1, doc>>}
      BY <2>2, <2>3, <3>1
    <3>3. OnDisk' \subseteq InUse \cup {<<clock + 1, doc>>}
      BY <2>2 DEF InUse
    <3>4. InUse' \subseteq InUse \cup {<<clock + 1, doc>>}
      BY <2>1, <3>2, <3>3, NamesOfOne
    <3> QED BY <3>4 DEF NewNames
  <2>5. CASE ~Refreshed(kind)
    <3>1. writers'[w].updated_at = file.updated_at /\ doc = file.doc
      BY <1>2, <2>1, <2>5 DEF Operation, BeginsSome, Refreshed
    <3>2. Held(w)' \subseteq InUse \cup {} /\ OnDisk' \subseteq InUse \cup {}
      BY <2>2, <2>3, <3>1 DEF InUse
    <3>3. InUse' \subseteq InUse \cup {}
      BY <2>1, <3>2, NamesOfOne
    <3> QED BY <3>3 DEF NewNames
  <2> QED BY <2>4, <2>5
<1>3. ASSUME NEW w \in Writers, SavesSome(w) PROVE NewNames
  <2>1. Alone(w) /\ Running(w) /\ Formed(writers[w])
    BY <1>3, SavesWrite DEF Shape, Shaped
  <2>2. <<writers[w].updated_at, writers[w].doc>> \in Held(w) /\ Held(w) \subseteq InUse
    BY <2>1 DEF Held, InUse
  <2>3. /\ \/ UNCHANGED file \/ file' \in {Empty, Garbled}
           \/ file' = Whole(writers[w].doc, writers[w].updated_at)
        /\ \/ Ends(w)
           \/ writers'[w] = [writers[w] EXCEPT !.pc = "open", !.read = None]
           \/ writers'[w] = [writers[w] EXCEPT !.pc = "write"]
           \/ writers[w].next # "end" /\ writers'[w] = [writers[w] EXCEPT !.pc = writers[w].next]
    BY <1>3, SavesWrite DEF GoesOn
  <2>4. OnDisk' \subseteq InUse \cup {}
    <3>1. CASE UNCHANGED file
      BY <3>1 DEF OnDisk, InUse, Readable
    <3>2. CASE file' \in {Empty, Garbled}
      BY <3>2 DEF OnDisk, Readable, Empty, Garbled
    <3>3. CASE file' = Whole(writers[w].doc, writers[w].updated_at)
      BY <2>2, <3>3 DEF OnDisk, Whole
    <3> QED BY <2>3, <3>1, <3>2, <3>3
  <2>5. Held(w)' \subseteq InUse \cup {}
    <3>1. CASE Ends(w)
      BY <3>1 DEF Ends, Idle, Held, Running
    <3>2. ASSUME NEW pc \in (Saving \cup AfterProvider) \ {"check"},
                 \/ writers'[w] = [writers[w] EXCEPT !.pc = pc]
                 \/ writers'[w] = [writers[w] EXCEPT !.pc = pc, !.read = None]
          PROVE  Held(w)' \subseteq InUse
      <4>1. /\ writers'[w].updated_at = writers[w].updated_at /\ writers'[w].pc = pc
            /\ writers'[w].doc = writers[w].doc
        <5>1. pc \in Saving \cup AfterProvider
          OBVIOUS
        <5>2. Carries(writers'[w], writers[w]) /\ writers'[w].pc = pc
          BY <2>1, <3>2, <5>1, GoingOnIsFormed
        <5> QED BY <5>2 DEF Carries
      <4>2. Held(w)' \subseteq {<<writers[w].updated_at, writers[w].doc>>}
        BY <3>2, <4>1 DEF Held
      <4> QED BY <2>2, <4>2
    <3>3. /\ {"open", "write"} \subseteq (Saving \cup AfterProvider) \ {"check"}
          /\ writers[w].next # "end" =>
                writers[w].next \in (Saving \cup AfterProvider) \ {"check"}
      BY <2>1 DEF Saving, AfterProvider, Formed
    <3>4. CASE writers'[w] = [writers[w] EXCEPT !.pc = "open", !.read = None]
      BY <3>2, <3>3, <3>4
    <3>5. CASE writers'[w] = [writers[w] EXCEPT !.pc = "write"]
      BY <3>2, <3>3, <3>5
    <3>6. CASE writers[w].next # "end" /\ writers'[w] = [writers[w] EXCEPT !.pc = writers[w].next]
      BY <3>2, <3>3, <3>6
    <3> QED BY <2>3, <3>1, <3>4, <3>5, <3>6
  <2>6. InUse' \subseteq InUse \cup {}
    BY <2>1, <2>4, <2>5, NamesOfOne
  <2> QED BY <2>6 DEF NewNames
<1>4. ASSUME NEW w \in Writers, RunsOn(w) PROVE NewNames
  <2>1. /\ Alone(w) /\ Running(w)
        /\ \/ /\ UNCHANGED file
              /\ \E doc : \E next \in {"evidence", "report"} :
                    writers'[w] = Operation(writers[w].kind, TRUE, writers[w].updated_at,
                                            writers[w].doc, doc, clock + 1, next, None)
           \/ /\ Ends(w)
              /\ file' = file \/ file' = Garbled
    BY <1>4, RunWrites
  <2>2. <<writers[w].updated_at, writers[w].doc>> \in InUse
    BY <2>1 DEF Held, InUse
  <2>3. OnDisk' \subseteq OnDisk /\ OnDisk \subseteq InUse
    <3>1. file' \in {file, Garbled}
      BY <2>1
    <3> QED BY <3>1 DEF OnDisk, Readable, Garbled, InUse
  <2>4. CASE Ends(w)
    <3>1. Held(w)' = {}
      BY <2>4 DEF Ends, Idle, Held, Running
    <3>2. InUse' \subseteq InUse \cup {}
      BY <2>1, <2>3, <3>1, NamesOfOne
    <3> QED BY <3>2 DEF NewNames
  <2>5. CASE ~Ends(w)
    <3>1. PICK doc, next :
              writers'[w] = Operation(writers[w].kind, TRUE, writers[w].updated_at,
                                      writers[w].doc, doc, clock + 1, next, None)
      BY <2>1, <2>5
    <3>2. Held(w)' = {<<clock + 1, doc>>, <<writers[w].updated_at, writers[w].doc>>}
      BY <3>1 DEF Held, Running, Operation
    <3>3. Held(w)' \subseteq InUse \cup {<<clock + 1, doc>>}
      BY <2>2, <3>2
    <3>4. OnDisk' \subseteq InUse \cup {<<clock + 1, doc>>}
      BY <2>3
    <3>5. InUse' \subseteq InUse \cup {<<clock + 1, doc>>}
      BY <2>1, <3>3, <3>4, NamesOfOne
    <3> QED BY <3>5 DEF NewNames
  <2> QED BY <2>4, <2>5
<1>5. \A preview \in previews : preview.kind \in PreviewKinds
  BY DEF Shape
<1> QED BY <1>1, <1>2, <1>3, <1>4, <1>5, StepForms

LEMMA StepStamps == Shape /\ StampsNameDocuments /\ [Next]_vars => StampsNameDocuments'
<1> SUFFICES ASSUME Shape, StampsNameDocuments, [Next]_vars PROVE StampsNameDocuments'
  OBVIOUS
<1>1. \A p \in InUse : p[1] \in 0 .. clock
  <2>1. ASSUME NEW w \in Writers, NEW p \in Held(w) PROVE p[1] \in 0 .. clock
    BY <2>1 DEF Held, Shape, Shaped
  <2>2. ASSUME NEW p \in OnDisk PROVE p[1] \in 0 .. clock
    BY <2>2 DEF OnDisk, Shape
  <2> QED BY <2>1, <2>2 DEF InUse
<1>2. clock \in Nat
  BY DEF Shape
<1>3. CASE InUse' \subseteq InUse
  BY <1>3 DEF StampsNameDocuments
<1>4. ASSUME NEW doc, InUse' \subseteq InUse \cup {<<clock + 1, doc>>}
      PROVE  StampsNameDocuments'
  <2>1. \A p \in InUse : p[1] # clock + 1
    BY <1>1, <1>2
  <2> QED BY <1>4, <2>1 DEF StampsNameDocuments
<1> QED BY <1>3, <1>4, StepNames DEF NewNames
-----------------------------------------------------------------------------
(* The last write.                                                         *)

(* What LastWrite asks of w.                                               *)
LastOf(w) ==
    Running(w) /\ writers[w].leased /\ last.leased =>
        last.updated_at = IF writers[w].pc \in Saving THEN writers[w].base
                          ELSE writers[w].updated_at

LEMMA StepLast == Shape /\ LastWrite /\ [Next]_vars => LastWrite'
<1> SUFFICES ASSUME Shape, LastWrite, [Next]_vars PROVE LastWrite'
  OBVIOUS
<1>0. ASSUME NEW w \in Writers, Alone(w), UNCHANGED last, LastOf(w)',
             Readable' => Readable /\ file' = file
      PROVE  LastWrite'
  <2>1. ASSUME NEW v \in Writers, v # w PROVE LastOf(v)'
    <3>1. LastOf(v)
      BY DEF LastWrite, LastOf
    <3> QED BY <1>0, <2>1, <3>1 DEF Alone, LastOf, Running
  <2> QED BY <1>0, <2>1 DEF LastWrite, LastOf
<1>1. CASE Aside
  BY <1>1 DEF Aside, LastWrite, Running, Readable
<1>2. ASSUME NEW w \in Writers, NEW kind, NEW leased, NEW doc, NEW preview,
             BeginsSome(w, kind, leased, doc, preview)
      PROVE  LastWrite'
  <2>1. /\ Alone(w) /\ Readable /\ UNCHANGED <<file, last>>
        /\ writers'[w] = Operation(kind, leased, file.updated_at, file.doc, doc,
                  IF Refreshed(kind) THEN clock + 1 ELSE file.updated_at,
                  IF kind \in {"run", "fix"} THEN "accept" ELSE "end", preview)
    BY <1>2, BeginWrites
  <2>2. writers'[w].pc = "check" /\ writers'[w].base = file.updated_at
    BY <2>1 DEF Operation
  <2>3. LastOf(w)'
    BY <2>1, <2>2 DEF LastOf, LastWrite, Saving
  <2> QED BY <1>0, <2>1, <2>3 DEF Readable
<1>3. ASSUME NEW w \in Writers, SavesSome(w) PROVE LastWrite'
  <2>1. Alone(w) /\ Running(w) /\ Formed(writers[w]) /\ LastOf(w)
    BY <1>3, SavesWrite DEF Shape, Shaped, LastWrite, LastOf
  <2>2. CASE Ends(w) /\ UNCHANGED <<file, last>>
    <3>1. LastOf(w)'
      BY <2>2 DEF Ends, Idle, Running, LastOf
    <3> QED BY <1>0, <2>1, <2>2, <3>1 DEF Readable
  <2>3. ASSUME NEW pc \in Saving, UNCHANGED last, file' \in {file, Empty},
               \/ writers'[w] = [writers[w] EXCEPT !.pc = pc]
               \/ writers'[w] = [writers[w] EXCEPT !.pc = pc, !.read = None],
               writers[w].pc \in Saving
        PROVE  LastWrite'
    <3>0. pc \in Saving \cup AfterProvider
      OBVIOUS
    <3>1. Carries(writers'[w], writers[w]) /\ writers'[w].pc = pc
      BY <2>1, <2>3, <3>0, GoingOnIsFormed
    <3>2. LastOf(w)'
      BY <2>1, <2>3, <3>1 DEF LastOf, Carries
    <3>3. Readable' => Readable /\ file' = file
      BY <2>3 DEF Readable, Empty
    <3> QED BY <1>0, <2>1, <2>3, <3>2, <3>3
  <2>4. ASSUME /\ file' \in {Whole(writers[w].doc, writers[w].updated_at), Garbled}
               /\ last' = [updated_at |-> writers[w].updated_at, leased |-> writers[w].leased]
               /\ IF writers[w].next = "end" THEN Ends(w) ELSE GoesOn(w, writers[w].next)
        PROVE  LastWrite'
    <3>1. Readable' => file'.updated_at = last'.updated_at
      BY <2>4 DEF Readable, Whole, Garbled
    <3>2. last'.leased \in BOOLEAN /\ last'.leased = writers[w].leased
      BY <2>1, <2>4 DEF Formed
    <3>3. ASSUME NEW v \in Writers, v # w PROVE LastOf(v)'
      <4>1. writers'[v] = writers[v]
        BY <2>1, <3>3 DEF Alone
      <4>2. ~(Running(v) /\ writers[v].leased /\ writers[w].leased)
        BY <2>1, <3>3 DEF Shape, Leased
      <4> QED BY <3>2, <4>1, <4>2 DEF LastOf, Running
    <3>4. LastOf(w)'
      <4>1. CASE Ends(w)
        BY <4>1 DEF Ends, Idle, Running, LastOf
      <4>2. CASE ~Ends(w)
        <5>1. writers[w].next \in AfterProvider /\ writers[w].next \in Saving \cup AfterProvider
          BY <2>1, <2>4, <4>2 DEF Formed
        <5>2. writers'[w] = [writers[w] EXCEPT !.pc = writers[w].next]
          BY <2>4, <4>2 DEF GoesOn
        <5>3. Carries(writers'[w], writers[w]) /\ writers'[w].pc = writers[w].next
          <6>1. PICK pc \in Saving \cup AfterProvider : pc = writers[w].next
            BY <5>1
          <6>2. \/ writers'[w] = [writers[w] EXCEPT !.pc = pc]
                \/ writers'[w] = [writers[w] EXCEPT !.pc = pc, !.read = None]
            BY <5>2, <6>1
          <6>3. Carries(writers'[w], writers[w]) /\ writers'[w].pc = pc
            BY <2>1, <6>2, GoingOnIsFormed
          <6> QED BY <6>1, <6>3
        <5>4. writers'[w].updated_at = writers[w].updated_at
          BY <5>3 DEF Carries
        <5>5. last'.updated_at = writers[w].updated_at
          BY <2>4
        <5>6. writers'[w].pc \notin Saving
          BY <5>1, <5>3 DEF Saving, AfterProvider
        <5> QED BY <5>4, <5>5, <5>6 DEF LastOf
      <4> QED BY <4>1, <4>2
    <3> QED BY <3>1, <3>2, <3>3, <3>4 DEF LastWrite, LastOf
  <2>5. {"check", "open", "write"} \subseteq Saving
    BY DEF Saving
  <2>6. \/ Ends(w) /\ UNCHANGED <<file, last>>
        \/ /\ UNCHANGED last /\ file' = file /\ writers[w].pc = "check"
           /\ writers'[w] = [writers[w] EXCEPT !.pc = "open", !.read = None]
        \/ /\ UNCHANGED last /\ file' = Empty /\ writers[w].pc = "open"
           /\ writers'[w] = [writers[w] EXCEPT !.pc = "write"]
        \/ /\ file' \in {Whole(writers[w].doc, writers[w].updated_at), Garbled}
           /\ last' = [updated_at |-> writers[w].updated_at, leased |-> writers[w].leased]
           /\ IF writers[w].next = "end" THEN Ends(w) ELSE GoesOn(w, writers[w].next)
    BY <1>3, SavesWrite DEF GoesOn
  <2> QED BY <2>2, <2>3, <2>4, <2>5, <2>6
<1>4. ASSUME NEW w \in Writers, RunsOn(w) PROVE LastWrite'
  <2>1. /\ Alone(w) /\ Running(w) /\ UNCHANGED last
        /\ \/ /\ writers[w].pc \in AfterProvider /\ UNCHANGED file
              /\ \E doc : \E next \in {"evidence", "report"} :
                    writers'[w] = Operation(writers[w].kind, TRUE, writers[w].updated_at,
                                            writers[w].doc, doc, clock + 1, next, None)
           \/ /\ Ends(w)
              /\ file' = file \/ file' = Garbled
    BY <1>4, RunWrites
  <2>2. Readable' => Readable /\ file' = file
    <3>1. file' \in {file, Garbled}
      BY <2>1
    <3> QED BY <3>1 DEF Readable, Garbled
  <2>3. LastOf(w)'
    <3>1. CASE Ends(w)
      BY <3>1 DEF Ends, Idle, Running, LastOf
    <3>2. CASE ~Ends(w)
      <4>0. LastOf(w)
        BY DEF LastWrite, LastOf
      <4>1. PICK doc, next :
                writers'[w] = Operation(writers[w].kind, TRUE, writers[w].updated_at,
                                        writers[w].doc, doc, clock + 1, next, None)
        BY <2>1, <3>2
      <4>2. writers'[w].pc = "check" /\ writers'[w].base = writers[w].updated_at
        BY <4>1 DEF Operation
      <4>3. writers[w].leased /\ writers[w].pc \notin Saving
        BY <2>1, <3>2 DEF Shape, Leased, Saving, AfterProvider
      <4> QED BY <2>1, <4>0, <4>2, <4>3 DEF LastOf, Saving
    <3> QED BY <3>1, <3>2
  <2> QED BY <1>0, <2>1, <2>2, <2>3
<1>5. \A preview \in previews : preview.kind \in PreviewKinds
  BY DEF Shape
<1> QED BY <1>1, <1>2, <1>3, <1>4, <1>5, StepForms

LEMMA StampsInvariant == Spec => []StampInv
<1>1. StampInv /\ [Next]_vars => StampInv'
  BY StepShape, StepStamps, StepLast DEF StampInv
<1> QED BY <1>1, InitShape, PTL DEF Spec

(* UpdatedAtNamesTheDocument: an updated_at belongs to one document, so    *)
(* the comparison of _check_stale, whichever writes lie between the load   *)
(* and it, is one of documents.  That the save after the provider repeats  *)
(* the updated_at it loaded does no harm: it repeats the document too.     *)
THEOREM UpdatedAtAlwaysNamesTheDocument == Spec => []UpdatedAtNamesTheDocument
<1>1. StampInv => UpdatedAtNamesTheDocument
  <2> SUFFICES ASSUME StampInv, NEW w \in Writers, Running(w), writers[w].pc = "check",
                      Readable, file.updated_at = writers[w].base
               PROVE  file.doc = writers[w].read
    BY DEF UpdatedAtNamesTheDocument
  <2>1. <<file.updated_at, file.doc>> \in InUse
    BY DEF InUse, OnDisk
  <2>2. <<writers[w].base, writers[w].read>> \in InUse
    BY DEF InUse, Held
  <2> QED BY <2>1, <2>2 DEF StampInv, StampsNameDocuments
<1> QED BY <1>1, StampsInvariant, PTL

(* LeasedSavesCompose: a lost update that the stale-write check did not    *)
(* see has on one side of it an operation without the project lease        *)
(* (web_console._run_operation and executor runs take it; the MCP tools    *)
(* that reload, continue, record or apply do not).                         *)
THEOREM LeasedSavesAlwaysCompose == Spec => LeasedSavesCompose
<1>1. StampInv /\ [Next]_vars =>
          [\A w \in Writers :
              Running(w) /\ writers[w].pc = "write" /\ save_state(w)
                 /\ last.updated_at # writers[w].base
              => ~(writers[w].leased /\ last.leased)]_vars
  BY DEF StampInv, LastWrite, Saving
<1> QED BY <1>1, StampsInvariant, PTL DEF Spec, LeasedSavesCompose
-----------------------------------------------------------------------------
(* The documents, for plans that only grow (PlansGrow).                    *)

(* The versions of a document are the first of the plan.                   *)
Follows(doc, p) ==
    /\ DOMAIN doc.runtimes \subseteq DOMAIN p
    /\ \A i \in DOMAIN doc.runtimes : doc.runtimes[i] = p[i].version

Sound(doc, p) == WellFormed(doc) /\ Follows(doc, p)

DocumentsFollow ==
    /\ GoodPlan(plan)
    /\ Readable => Sound(file.doc, plan)
    /\ \A w \in Writers : Running(w) => Sound(writers[w].doc, plan)
    /\ reports \subseteq Versions
    /\ clock \in 0 .. MaxStamps
    /\ lease \in Writers \cup {None}

LEMMA FirstIsLeast ==
    ASSUME NEW S \in SUBSET Nat, S # {}
    PROVE  First(S) \in S /\ \A j \in S : First(S) <= j
<1>1. \E i \in S : \A j \in S : i <= j
  BY LeastNumber
<1> QED BY <1>1 DEF First

LEMMA PlansHaveNames ==
    ASSUME NEW p, GoodPlan(p)
    PROVE  /\ DOMAIN p \in SUBSET Nat /\ Names(p) \in Seq(Versions)
           /\ DOMAIN Names(p) = DOMAIN p
           /\ \A i \in DOMAIN p : Names(p)[i] = p[i].version /\ p[i].version \in Versions
           /\ \A i, j \in DOMAIN p : p[i].version = p[j].version => i = j
<1>1. p \in Seq(PlanVersions)
  BY DEF GoodPlan
<1>2. DOMAIN p = 1 .. Len(p) /\ Len(p) \in Nat
  BY <1>1
<1>3. \A i \in DOMAIN p : p[i] \in PlanVersions
  BY <1>1
<1>4. \A i \in DOMAIN p : p[i].version \in Versions
  BY <1>3 DEF PlanVersions
<1>5. DOMAIN Names(p) = DOMAIN p /\ \A i \in DOMAIN p : Names(p)[i] = p[i].version
  BY DEF Names
<1>6. Names(p) \in Seq(Versions)
  BY <1>2, <1>4 DEF Names
<1>7. \A i, j \in DOMAIN p : p[i].version = p[j].version => i = j
  BY <1>5 DEF GoodPlan, Ordered
<1> QED BY <1>2, <1>4, <1>5, <1>6, <1>7

(* What changes the statuses, or the attempt, of a sound document.         *)
LEMMA StatusesMayChange ==
    ASSUME NEW doc, NEW p, Sound(doc, p), NEW status \in RunnerStatuses,
           NEW at \in [Versions -> VersionStatuses], NEW attempt \in 1 .. AttemptCap,
           NEW new,
           new = [status |-> status, current |-> doc.current, index |-> doc.index,
                  attempt |-> attempt, runtimes |-> doc.runtimes, at |-> at]
    PROVE  Sound(new, p)
<1>1. /\ doc \in Documents /\ Ordered(doc.runtimes) /\ doc.index \in DOMAIN doc.runtimes
      /\ Current(doc) = doc.current
  BY DEF Sound, WellFormed
<1>2. Listed(doc.runtimes) \subseteq Versions
  BY <1>1 DEF Documents, Listed
<1>3. attempt \in Nat
  BY StateAssumption
<1>4. new \in Documents
  BY <1>1, <1>2, <1>3 DEF Documents
<1>5. Current(new) = doc.current
  BY <1>1 DEF Current
<1> QED BY <1>1, <1>4, <1>5 DEF Sound, WellFormed, Follows

(* A document of the whole plan, at one of its versions.                   *)
LEMMA SoundWhenAligned ==
    ASSUME NEW p, GoodPlan(p), NEW status \in RunnerStatuses, NEW i \in DOMAIN p,
           NEW at \in [Versions -> VersionStatuses], NEW attempt \in 1 .. AttemptCap,
           NEW new,
           new = [status |-> status, current |-> p[i].version, index |-> i,
                  attempt |-> attempt, runtimes |-> Names(p), at |-> at]
    PROVE  Sound(new, p)
<1>1. /\ DOMAIN p \in SUBSET Nat /\ Names(p) \in Seq(Versions)
      /\ DOMAIN Names(p) = DOMAIN p
      /\ \A j \in DOMAIN p : Names(p)[j] = p[j].version /\ p[j].version \in Versions
  BY PlansHaveNames
<1>2. Listed(Names(p)) \subseteq Versions
  BY <1>1 DEF Listed
<1>3. attempt \in Nat
  BY StateAssumption
<1>4. new \in Documents
  BY <1>1, <1>2, <1>3 DEF Documents
<1>5. Current(new) = new.current
  BY <1>1 DEF Current
<1>6. Ordered(new.runtimes)
  BY DEF GoodPlan
<1> QED BY <1>1, <1>4, <1>5, <1>6 DEF Sound, WellFormed, Follows

(* A sound document is at the version of the plan that it names.           *)
LEMMA SoundIsAtItsVersion ==
    ASSUME NEW doc, NEW p, Sound(doc, p), GoodPlan(p)
    PROVE  /\ doc.index \in DOMAIN p /\ doc.current = p[doc.index].version
           /\ Listed(doc.runtimes) \subseteq Listed(Names(p))
           /\ doc = [status |-> doc.status, current |-> doc.current, index |-> doc.index,
                     attempt |-> doc.attempt, runtimes |-> doc.runtimes, at |-> doc.at]
           /\ doc.status \in RunnerStatuses /\ doc.at \in [Versions -> VersionStatuses]
           /\ doc.attempt \in 1 .. AttemptCap
           /\ doc.current \in Versions /\ doc.current \in Listed(doc.runtimes)
<1>1. /\ doc \in Documents /\ doc.index \in DOMAIN doc.runtimes
      /\ doc.runtimes[doc.index] = doc.current
  BY DEF Sound, WellFormed, Current
<1>2. doc.index \in DOMAIN p /\ doc.current = p[doc.index].version
  BY <1>1 DEF Sound, Follows
<1>3. Listed(doc.runtimes) \subseteq Listed(Names(p))
  BY PlansHaveNames DEF Sound, Follows, Listed
<1>4. /\ doc = [status |-> doc.status, current |-> doc.current, index |-> doc.index,
                attempt |-> doc.attempt, runtimes |-> doc.runtimes, at |-> doc.at]
      /\ doc.status \in RunnerStatuses /\ doc.at \in [Versions -> VersionStatuses]
      /\ doc.current \in Versions
  BY <1>1 DEF Documents
<1>5. doc.attempt \in 1 .. AttemptCap
  BY DEF Sound, WellFormed
<1>6. doc.current \in Listed(doc.runtimes)
  BY <1>1 DEF Listed
<1> QED BY <1>1, <1>2, <1>3, <1>4, <1>5, <1>6

LEMMA InitSound ==
    ASSUME NEW p, GoodPlan(p)
    PROVE  Sound(initialize_state(p), p)
<1>1. FirstEnabled(p) \in DOMAIN p
  <2>1. {i \in DOMAIN p : p[i].enabled} \in SUBSET Nat /\ {i \in DOMAIN p : p[i].enabled} # {}
    BY PlansHaveNames DEF GoodPlan
  <2>2. First({i \in DOMAIN p : p[i].enabled}) \in {i \in DOMAIN p : p[i].enabled}
    BY <2>1, FirstIsLeast
  <2> QED BY <2>2 DEF FirstEnabled
<1>2. PICK i \in DOMAIN p : i = FirstEnabled(p)
  BY <1>1
<1>3. PICK at \in [Versions -> VersionStatuses] : at = [v \in Versions |-> "NOT_STARTED"]
  BY DEF VersionStatuses
<1>4. 1 \in 1 .. AttemptCap /\ "READY" \in RunnerStatuses
  BY StateAssumption DEF RunnerStatuses
<1>5. initialize_state(p) =
          [status |-> "READY", current |-> p[i].version, index |-> i, attempt |-> 1,
           runtimes |-> Names(p), at |-> at]
  BY <1>2, <1>3 DEF initialize_state
<1> QED BY <1>4, <1>5, SoundWhenAligned

(* Alignment keeps a sound document where it is.                           *)
Moves(new, doc, p, status, i) ==
    \E at \in [Versions -> VersionStatuses] :
        new = [status |-> status, current |-> p[i].version, index |-> i,
               attempt |-> doc.attempt, runtimes |-> Names(p), at |-> at]

LEMMA AlignmentStays ==
    ASSUME NEW doc, NEW p, Sound(doc, p), GoodPlan(p)
    PROVE  Moves(_ensure_state_versions_aligned(doc, p), doc, p, doc.status, doc.index)
<1> DEFINE kept == Listed(doc.runtimes) \cap Listed(Names(p))
           at == [v \in Versions |-> IF v \in kept THEN doc.at[v] ELSE "NOT_STARTED"]
           new == _ensure_state_versions_aligned(doc, p)
<1>1. PICK status, current, index, attempt, runtimes, at0 :
          /\ doc = [status |-> status, current |-> current, index |-> index,
                    attempt |-> attempt, runtimes |-> runtimes, at |-> at0]
          /\ at0 \in [Versions -> VersionStatuses]
          /\ current = p[index].version
  BY SoundIsAtItsVersion
<1>2. at \in [Versions -> VersionStatuses]
  BY <1>1 DEF VersionStatuses
<1>3. new = [doc EXCEPT !.runtimes = Names(p), !.at = at]
  BY DEF _ensure_state_versions_aligned
<1> HIDE DEF at, kept, new
<1>4. new = [status |-> status, current |-> current, index |-> index, attempt |-> attempt,
             runtimes |-> Names(p), at |-> at]
  BY <1>1, <1>3
<1>6. new = [status |-> doc.status, current |-> p[doc.index].version, index |-> doc.index,
             attempt |-> doc.attempt, runtimes |-> Names(p), at |-> at]
  BY <1>1, <1>4
<1> QED BY <1>2, <1>6 DEF Moves, new

LEMMA MovedIsSound ==
    ASSUME NEW doc, NEW p, Sound(doc, p), GoodPlan(p), NEW status \in RunnerStatuses,
           NEW i \in DOMAIN p, NEW new, Moves(new, doc, p, status, i)
    PROVE  Sound(new, p)
<1>1. PICK at \in [Versions -> VersionStatuses] :
          new = [status |-> status, current |-> p[i].version, index |-> i,
                 attempt |-> doc.attempt, runtimes |-> Names(p), at |-> at]
  BY DEF Moves
<1>2. PICK attempt \in 1 .. AttemptCap : attempt = doc.attempt
  BY SoundIsAtItsVersion
<1>3. new = [status |-> status, current |-> p[i].version, index |-> i,
             attempt |-> attempt, runtimes |-> Names(p), at |-> at]
  BY <1>1, <1>2
<1> QED BY <1>3, SoundWhenAligned

(* Only the status of a document is reopened or normalised.                *)
LEMMA ReopeningIsOfStatus ==
    ASSUME NEW doc, NEW p,
           doc = [status |-> doc.status, current |-> doc.current, index |-> doc.index,
                  attempt |-> doc.attempt, runtimes |-> doc.runtimes, at |-> doc.at],
           NEW new, new \in {reopen_completed_state_if_pending(doc, p),
                             normalize_passed_current_version_status(doc)}
    PROVE  \E status \in {doc.status, "VERSION_PASSED"} :
              new = [status |-> status, current |-> doc.current, index |-> doc.index,
                     attempt |-> doc.attempt, runtimes |-> doc.runtimes, at |-> doc.at]
<1>1. new = doc \/ new = [doc EXCEPT !.status = "VERSION_PASSED"]
  BY DEF reopen_completed_state_if_pending, normalize_passed_current_version_status
<1>2. PICK status, current, index, attempt, runtimes, at :
          doc = [status |-> status, current |-> current, index |-> index,
                 attempt |-> attempt, runtimes |-> runtimes, at |-> at]
  OBVIOUS
<1>3. PICK s \in {status, "VERSION_PASSED"} :
          new = [status |-> s, current |-> current, index |-> index,
                 attempt |-> attempt, runtimes |-> runtimes, at |-> at]
  BY <1>1, <1>2
<1> QED BY <1>2, <1>3

LEMMA ReopenedIsSound ==
    ASSUME NEW doc, NEW p, NEW q, Sound(doc, q), GoodPlan(q),
           NEW new, new \in {reopen_completed_state_if_pending(doc, p),
                             normalize_passed_current_version_status(doc)}
    PROVE  Sound(new, q)
<1>1. PICK status \in {doc.status, "VERSION_PASSED"} :
          new = [status |-> status, current |-> doc.current, index |-> doc.index,
                 attempt |-> doc.attempt, runtimes |-> doc.runtimes, at |-> doc.at]
  BY SoundIsAtItsVersion, ReopeningIsOfStatus
<1>2. status \in RunnerStatuses
  BY <1>1, SoundIsAtItsVersion DEF RunnerStatuses
<1>3. PICK at \in [Versions -> VersionStatuses], attempt \in 1 .. AttemptCap :
          at = doc.at /\ attempt = doc.attempt
  BY SoundIsAtItsVersion
<1>4. new = [status |-> status, current |-> doc.current, index |-> doc.index,
             attempt |-> attempt, runtimes |-> doc.runtimes, at |-> at]
  BY <1>1, <1>3
<1> QED BY <1>2, <1>4, StatusesMayChange

(* LeavesNothingPending, for any plan.                                     *)
NothingPending(doc, p) ==
    doc.status = "COMPLETED" /\ doc.at[Current(doc)] = "PASSED" => Pending(doc, p) = {}

LEMMA ReloadIsSound ==
    ASSUME NEW doc, NEW p, Sound(doc, p), GoodPlan(p)
    PROVE  /\ Sound(_reconcile_state_with_reloaded_plan(doc, p), p)
           /\ NothingPending(_reconcile_state_with_reloaded_plan(doc, p), p)
<1>1. PICK aligned : aligned = _ensure_state_versions_aligned(doc, p)
  OBVIOUS
<1>2. Moves(aligned, doc, p, doc.status, doc.index)
  BY <1>1, AlignmentStays
<1>3. doc.index \in DOMAIN p /\ doc.current = p[doc.index].version
      /\ doc.status \in RunnerStatuses
  BY SoundIsAtItsVersion
<1>4. PICK at \in [Versions -> VersionStatuses] :
          aligned = [status |-> doc.status, current |-> p[doc.index].version,
                     index |-> doc.index, attempt |-> doc.attempt, runtimes |-> Names(p),
                     at |-> at]
  BY <1>2 DEF Moves
<1>5. PICK reopened : reopened = reopen_completed_state_if_pending(aligned, p)
  OBVIOUS
<1>6. PICK status \in {doc.status, "VERSION_PASSED"} :
          reopened = [status |-> status, current |-> p[doc.index].version,
                      index |-> doc.index, attempt |-> doc.attempt, runtimes |-> Names(p),
                      at |-> at]
  <2>1. aligned = [status |-> aligned.status, current |-> aligned.current,
                   index |-> aligned.index, attempt |-> aligned.attempt,
                   runtimes |-> aligned.runtimes, at |-> aligned.at]
    BY <1>4
  <2>2. PICK status \in {aligned.status, "VERSION_PASSED"} :
            reopened = [status |-> status, current |-> aligned.current,
                        index |-> aligned.index, attempt |-> aligned.attempt,
                        runtimes |-> aligned.runtimes, at |-> aligned.at]
    BY <1>5, <2>1, ReopeningIsOfStatus
  <2> QED BY <1>4, <2>2
<1>7. First({i \in DOMAIN p : p[i].version = reopened.current}) = doc.index
  <2>1. \A i, j \in DOMAIN p : p[i].version = p[j].version => i = j
    BY PlansHaveNames
  <2>2. reopened.current = p[doc.index].version
    BY <1>6
  <2>3. {i \in DOMAIN p : p[i].version = reopened.current} = {doc.index}
    BY <1>3, <2>1, <2>2
  <2>4. {doc.index} \in SUBSET Nat
    BY <1>3, PlansHaveNames
  <2>5. First({doc.index}) \in {doc.index}
    BY <2>4, FirstIsLeast
  <2> QED BY <2>3, <2>5
<1>8. _reconcile_state_with_reloaded_plan(doc, p) = reopened
  <2>1. doc.current \in Listed(Names(p))
    BY SoundIsAtItsVersion
  <2>2. Renamed(doc, p) = doc
    BY <2>1 DEF Renamed
  <2>3. _reconcile_state_with_reloaded_plan(doc, p) =
            [reopened EXCEPT !.index =
                First({i \in DOMAIN p : p[i].version = reopened.current})]
    BY <1>1, <1>5, <2>2 DEF _reconcile_state_with_reloaded_plan
  <2>4. [reopened EXCEPT !.index = doc.index] = reopened
    BY <1>6
  <2> QED BY <1>7, <2>3, <2>4
<1>9. Sound(reopened, p)
  <2>1. status \in RunnerStatuses
    BY <1>3 DEF RunnerStatuses
  <2>2. Moves(reopened, doc, p, status, doc.index)
    BY <1>6 DEF Moves
  <2> QED BY <1>3, <2>1, <2>2, MovedIsSound
<1>10. NothingPending(reopened, p)
  <2> SUFFICES ASSUME reopened.status = "COMPLETED", reopened.at[Current(reopened)] = "PASSED",
                      NEW i \in Pending(reopened, p)
               PROVE  FALSE
    BY DEF NothingPending
  <2>1. i \in DOMAIN p /\ i > doc.index /\ p[i].enabled
    BY <1>6 DEF Pending
  <2>2. status = "COMPLETED"
    BY <1>6
  <2>3. aligned.status = "COMPLETED" /\ aligned = reopened
    BY <1>4, <1>6, <2>2
  <2>4. aligned.index = doc.index /\ doc.index \in DOMAIN aligned.runtimes
    BY <1>3, <1>4, PlansHaveNames
  <2>5. reopened = [aligned EXCEPT !.status = "VERSION_PASSED"]
    BY <1>5, <2>1, <2>3, <2>4 DEF reopen_completed_state_if_pending
  <2>6. [aligned EXCEPT !.status = "VERSION_PASSED"].status = "VERSION_PASSED"
    BY <1>4
  <2> QED BY <2>5, <2>6
<1> QED BY <1>8, <1>9, <1>10

LEMMA ContinueIsSound ==
    ASSUME NEW doc, NEW p, Sound(doc, p), GoodPlan(p)
    PROVE  /\ Sound(continue_next_version(doc, p), p)
           /\ NothingPending(continue_next_version(doc, p), p)
<1>1. PICK opened : opened = ContinuableDocument(doc, p)
  OBVIOUS
<1>2. Sound(opened, p)
  <2>1. PICK reopened : reopened = reopen_completed_state_if_pending(doc, p)
    OBVIOUS
  <2>2. Sound(reopened, p)
    BY <2>1, ReopenedIsSound
  <2>3. opened = normalize_passed_current_version_status(reopened)
    BY <1>1, <2>1 DEF ContinuableDocument
  <2> QED BY <2>2, <2>3, ReopenedIsSound
<1>3. PICK aligned : aligned = _ensure_state_versions_aligned(opened, p)
  OBVIOUS
<1>4. PICK at \in [Versions -> VersionStatuses] :
          aligned = [status |-> opened.status, current |-> p[opened.index].version,
                     index |-> opened.index, attempt |-> opened.attempt,
                     runtimes |-> Names(p), at |-> at]
  BY <1>2, <1>3, AlignmentStays DEF Moves
<1>5. opened.index \in DOMAIN p
  BY <1>2, SoundIsAtItsVersion
<1>6. continue_next_version(doc, p) =
          IF Pending(aligned, p) = {} THEN [aligned EXCEPT !.status = "COMPLETED"]
          ELSE Starting(aligned, p, First(Pending(aligned, p)))
  BY <1>1, <1>3 DEF continue_next_version
<1>7. CASE Pending(aligned, p) = {}
  <2>1. PICK new : new = [aligned EXCEPT !.status = "COMPLETED"]
    OBVIOUS
  <2>2. new = [status |-> "COMPLETED", current |-> p[opened.index].version,
               index |-> opened.index, attempt |-> opened.attempt,
               runtimes |-> Names(p), at |-> at]
    BY <1>4, <2>1
  <2>3. Sound(new, p)
    <3>1. "COMPLETED" \in RunnerStatuses
      BY DEF RunnerStatuses
    <3>2. Moves(new, opened, p, "COMPLETED", opened.index)
      BY <2>2 DEF Moves
    <3> QED BY <1>2, <1>5, <3>1, <3>2, MovedIsSound
  <2>4. Pending(new, p) = {}
    <3>1. new.index = aligned.index /\ new.at = aligned.at
      BY <1>4, <2>2
    <3> QED BY <1>7, <3>1 DEF Pending
  <2> QED BY <1>6, <1>7, <2>1, <2>3, <2>4 DEF NothingPending
<1>8. CASE Pending(aligned, p) # {}
  <2>1. PICK i \in DOMAIN p : i = First(Pending(aligned, p))
    <3>1. Pending(aligned, p) \subseteq DOMAIN p /\ DOMAIN p \in SUBSET Nat
      BY PlansHaveNames DEF Pending
    <3>2. First(Pending(aligned, p)) \in Pending(aligned, p)
      BY <1>8, <3>1, FirstIsLeast
    <3> QED BY <3>1, <3>2
  <2>2. PICK new : new = Starting(aligned, p, i)
    OBVIOUS
  <2>3. new = [status |-> "READY", current |-> p[i].version, index |-> i, attempt |-> 1,
               runtimes |-> Names(p), at |-> at]
    BY <1>4, <2>2 DEF Starting
  <2>4. 1 \in 1 .. AttemptCap /\ "READY" \in RunnerStatuses
    BY StateAssumption DEF RunnerStatuses
  <2>5. Sound(new, p)
    BY <2>3, <2>4, SoundWhenAligned
  <2>6. NothingPending(new, p)
    BY <2>3 DEF NothingPending
  <2> QED BY <1>6, <1>8, <2>1, <2>2, <2>5, <2>6
<1> QED BY <1>7, <1>8

(* The operators of the version flow that change statuses.                 *)
LEMMA StatusChangeIsSound ==
    ASSUME NEW doc, NEW p, Sound(doc, p), GoodPlan(p), NEW status \in RunnerStatuses,
           NEW v \in Versions, NEW s \in VersionStatuses
    PROVE  /\ Sound([doc EXCEPT !.status = status, !.at[v] = s], p)
           /\ Sound([doc EXCEPT !.at[v] = s], p)
           /\ doc.attempt < AttemptCap =>
                 Sound([doc EXCEPT !.status = status, !.at[v] = s, !.attempt = @ + 1], p)
<1>1. PICK st, at, attempt, current, index, runtimes :
          /\ doc = [status |-> st, current |-> current, index |-> index,
                    attempt |-> attempt, runtimes |-> runtimes, at |-> at]
          /\ st = doc.status /\ current = doc.current /\ index = doc.index
          /\ attempt = doc.attempt /\ runtimes = doc.runtimes /\ at = doc.at
  BY SoundIsAtItsVersion
<1>8. /\ st \in RunnerStatuses /\ at \in [Versions -> VersionStatuses]
      /\ attempt \in 1 .. AttemptCap
  BY <1>1, SoundIsAtItsVersion
<1>9. doc = [status |-> st, current |-> current, index |-> index, attempt |-> attempt,
             runtimes |-> runtimes, at |-> at]
  BY <1>1
<1>2. PICK at2 \in [Versions -> VersionStatuses] : at2 = [doc.at EXCEPT ![v] = s]
  BY <1>1, <1>8
<1>3. ASSUME NEW status2 \in RunnerStatuses, NEW attempt2 \in 1 .. AttemptCap,
             NEW new,
             new = [status |-> status2, current |-> current, index |-> index,
                    attempt |-> attempt2, runtimes |-> runtimes, at |-> at2]
      PROVE  Sound(new, p)
  <2>1. new = [status |-> status2, current |-> doc.current, index |-> doc.index,
               attempt |-> attempt2, runtimes |-> doc.runtimes, at |-> at2]
    BY <1>1, <1>3
  <2> QED BY <2>1, StatusesMayChange
<1>10. PICK one : one = [doc EXCEPT !.status = status]
  OBVIOUS
<1>11. one = [status |-> status, current |-> current, index |-> index, attempt |-> attempt,
              runtimes |-> runtimes, at |-> at]
  BY <1>9, <1>10
<1>12. PICK two : two = [one EXCEPT !.at = at2]
  OBVIOUS
<1>13. two = [status |-> status, current |-> current, index |-> index, attempt |-> attempt,
              runtimes |-> runtimes, at |-> at2]
  BY <1>11, <1>12
<1>4. Sound([doc EXCEPT !.status = status, !.at[v] = s], p)
  <2>1. [doc EXCEPT !.status = status, !.at[v] = s] =
            [doc EXCEPT !.status = status, !.at = at2]
    BY <1>2
  <2>2. [doc EXCEPT !.status = status, !.at = at2] = two
    BY <1>10, <1>12
  <2>3. Sound(two, p)
    BY <1>3, <1>8, <1>13
  <2> QED BY <2>1, <2>2, <2>3
<1>5. Sound([doc EXCEPT !.at[v] = s], p)
  <2>1. [doc EXCEPT !.at[v] = s] = [doc EXCEPT !.at = at2]
    BY <1>2
  <2>2. PICK new : new = [doc EXCEPT !.at = at2]
    OBVIOUS
  <2>3. new = [status |-> st, current |-> current, index |-> index, attempt |-> attempt,
               runtimes |-> runtimes, at |-> at2]
    BY <1>9, <2>2
  <2>4. Sound(new, p)
    BY <1>3, <1>8, <2>3
  <2> QED BY <2>1, <2>2, <2>4
<1>6. ASSUME doc.attempt < AttemptCap
      PROVE  Sound([doc EXCEPT !.status = status, !.at[v] = s, !.attempt = @ + 1], p)
  <2>1. attempt < AttemptCap
    BY <1>1, <1>6
  <2>2. PICK more \in 1 .. AttemptCap : more = attempt + 1
    BY <1>8, <2>1, StateAssumption
  <2>3. [doc EXCEPT !.status = status, !.at[v] = s, !.attempt = @ + 1] =
            [doc EXCEPT !.status = status, !.at = at2, !.attempt = doc.attempt + 1]
    BY <1>2
  <2>4. doc.attempt + 1 = more
    BY <1>1, <2>2
  <2>5. PICK new : new = [two EXCEPT !.attempt = more]
    OBVIOUS
  <2>6. [doc EXCEPT !.status = status, !.at = at2, !.attempt = more] = new
    BY <1>10, <1>12, <2>5
  <2>7. new = [status |-> status, current |-> current, index |-> index, attempt |-> more,
               runtimes |-> runtimes, at |-> at2]
    BY <1>13, <2>5
  <2>8. Sound(new, p)
    BY <1>3, <1>8, <2>7
  <2> QED BY <2>3, <2>4, <2>6, <2>8
<1> QED BY <1>4, <1>5, <1>6

LEMMA CurrentIsAVersion ==
    ASSUME NEW doc, NEW p, Sound(doc, p), GoodPlan(p)
    PROVE  Current(doc) \in Versions
BY SoundIsAtItsVersion DEF Sound, WellFormed

LEMMA AcceptanceIsSound ==
    ASSUME NEW doc, NEW p, Sound(doc, p), GoodPlan(p),
           NEW is_fix \in BOOLEAN, NEW result \in Results
    PROVE  Sound(_run_acceptance(doc, is_fix, result), p)
<1>1. PICK v \in Versions : v = Current(doc)
  BY CurrentIsAVersion
<1>2. PICK status \in RunnerStatuses, s \in VersionStatuses :
          _run_acceptance(doc, is_fix, result) = [doc EXCEPT !.status = status, !.at[v] = s]
  BY <1>1 DEF _run_acceptance, Results, RunnerStatuses, VersionStatuses
<1>3. Sound([doc EXCEPT !.status = status, !.at[v] = s], p)
  BY StatusChangeIsSound
<1> QED BY <1>2, <1>3

LEMMA RegistrationsAreSound ==
    ASSUME NEW doc, NEW p, Sound(doc, p), GoodPlan(p), NEW v \in Listed(doc.runtimes),
           NEW resolution \in Resolutions
    PROVE  /\ Sound(RegisteredPass(doc, v), p)
           /\ Sound(apply_scope_mismatch_resolution(doc, v, resolution), p)
           /\ Sound(record_commit_metadata(doc, v), p)
           /\ doc.attempt < AttemptCap => Sound(paste_manual_fix_prompt(doc), p)
           /\ Sound(mark_blocked_by_no_changes(doc), p)
<1>1. {"VERSION_PASSED", "BLOCKED_BY_SCOPE_VIOLATION", "FIX_PROMPT_READY",
       "BLOCKED_BY_MODEL_FAILURE"} \subseteq RunnerStatuses
      /\ {"PASSED", "BLOCKED", "FIX_PROMPT_READY", "FAILED_BLOCKED"} \subseteq VersionStatuses
  BY DEF RunnerStatuses, VersionStatuses
<1>2. v \in Versions
  BY DEF Sound, WellFormed, Documents, Listed
<1>3. PICK c \in Versions : c = Current(doc)
  BY CurrentIsAVersion
<1>4. Sound(RegisteredPass(doc, v), p)
  BY <1>1, <1>2, StatusChangeIsSound DEF RegisteredPass
<1>5. Sound(record_commit_metadata(doc, v), p)
  BY <1>1, <1>2, StatusChangeIsSound DEF record_commit_metadata
<1>6. doc.attempt < AttemptCap => Sound(paste_manual_fix_prompt(doc), p)
  BY <1>1, <1>3, StatusChangeIsSound DEF paste_manual_fix_prompt
<1>7. Sound(mark_blocked_by_no_changes(doc), p)
  BY <1>1, <1>3, StatusChangeIsSound DEF mark_blocked_by_no_changes
<1>8. Sound(apply_scope_mismatch_resolution(doc, v, resolution), p)
  BY <1>1, <1>2, <1>4, StatusChangeIsSound DEF apply_scope_mismatch_resolution
<1> QED BY <1>4, <1>5, <1>6, <1>7, <1>8

-----------------------------------------------------------------------------
(* The steps, as far as the documents are concerned.                       *)

LEMMA GrowthKeepsSound ==
    ASSUME NEW doc, NEW p, NEW q, Sound(doc, p), Grows(p, q)
    PROVE  Sound(doc, q)
BY DEF Sound, Follows, Grows

(* An operation begins with a sound document, and reloading or continuing  *)
(* with one that leaves nothing pending.                                   *)
BeginsSound(w, kind, leased, doc, preview) ==
    /\ BeginsSome(w, kind, leased, doc, preview)
    /\ Sound(doc, plan)
    /\ kind \in PlanOperations => NothingPending(doc, plan)

PlanGrows == plan' = plan \/ (GoodPlan(plan') /\ Grows(plan, plan'))

LEMMA BeginningsAreSound ==
    ASSUME Shape, DocumentsFollow, NEW w \in Writers,
           \/ \E leased \in BOOLEAN : reload_plan(w, leased) \/ ContinueVersion(w, leased)
           \/ rerun_acceptance(w)
           \/ \E mode \in {"run", "fix"} : run_once(w, mode)
           \/ \E v \in Versions : RecordCommit(w, v)
           \/ \E preview \in previews, resolution \in Resolutions :
                 Apply(w, preview, resolution)
    PROVE  \E kind, leased, doc, preview : BeginsSound(w, kind, leased, doc, preview)
<1>0. Readable => Sound(file.doc, plan) /\ GoodPlan(plan)
  BY DEF DocumentsFollow
<1>1. ASSUME NEW leased \in BOOLEAN, reload_plan(w, leased)
      PROVE  \E kind, l, doc, preview : BeginsSound(w, kind, l, doc, preview)
  <2>1. PICK doc : doc = _reconcile_state_with_reloaded_plan(file.doc, plan)
    OBVIOUS
  <2>2. Begin(w, "reload_plan", leased, doc, None) /\ Readable
    BY <1>1, <2>1 DEF reload_plan, Start
  <2>3. Sound(doc, plan) /\ NothingPending(doc, plan)
    BY <1>0, <2>1, <2>2, ReloadIsSound
  <2>4. BeginsSound(w, "reload_plan", leased, doc, None)
    BY <2>2, <2>3 DEF BeginsSound, BeginsSome, Kinds, PlanOperations
  <2> QED BY <2>4, Zenon
<1>2. ASSUME NEW leased \in BOOLEAN, ContinueVersion(w, leased)
      PROVE  \E kind, l, doc, preview : BeginsSound(w, kind, l, doc, preview)
  <2>1. PICK doc : doc = continue_next_version(file.doc, plan)
    OBVIOUS
  <2>2. Begin(w, "continue_next_version", leased, doc, None) /\ Readable
    BY <1>2, <2>1 DEF ContinueVersion, Start
  <2>3. Sound(doc, plan) /\ NothingPending(doc, plan)
    BY <1>0, <2>1, <2>2, ContinueIsSound
  <2>4. BeginsSound(w, "continue_next_version", leased, doc, None)
    BY <2>2, <2>3 DEF BeginsSound, BeginsSome, Kinds, PlanOperations
  <2> QED BY <2>4, Zenon
<1>3. ASSUME rerun_acceptance(w)
      PROVE  \E kind, l, doc, preview : BeginsSound(w, kind, l, doc, preview)
  <2>1. PICK result \in Results :
            Begin(w, "rerun_acceptance", TRUE, _run_acceptance(file.doc, FALSE, result), None)
    BY <1>3, Zenon DEF rerun_acceptance, Start
  <2>2. PICK doc : doc = _run_acceptance(file.doc, FALSE, result)
    OBVIOUS
  <2>3. Begin(w, "rerun_acceptance", TRUE, doc, None) /\ Readable
    BY <1>3, <2>1, <2>2 DEF rerun_acceptance
  <2>4. Sound(doc, plan)
    BY <1>0, <2>2, <2>3, AcceptanceIsSound
  <2>5. BeginsSound(w, "rerun_acceptance", TRUE, doc, None)
    BY <2>3, <2>4 DEF BeginsSound, BeginsSome, Kinds, PlanOperations
  <2> QED BY <2>5, Zenon
<1>4. ASSUME NEW mode \in {"run", "fix"}, run_once(w, mode)
      PROVE  \E kind, l, doc, preview : BeginsSound(w, kind, l, doc, preview)
  <2>1. Begin(w, mode, TRUE, file.doc, None) /\ Readable
    BY <1>4 DEF run_once, Start
  <2>2. BeginsSound(w, mode, TRUE, file.doc, None)
    BY <1>0, <2>1 DEF BeginsSound, BeginsSome, Kinds, PlanOperations
  <2> QED BY <2>2, Zenon
<1>5. ASSUME NEW v \in Versions, RecordCommit(w, v)
      PROVE  \E kind, l, doc, preview : BeginsSound(w, kind, l, doc, preview)
  <2>1. PICK doc : doc = record_commit_metadata(file.doc, v)
    OBVIOUS
  <2>2. Begin(w, "record_commit", FALSE, doc, None) /\ Readable
        /\ v \in Listed(file.doc.runtimes)
    BY <1>5, <2>1 DEF RecordCommit, Start
  <2>3. "abort_version" \in Resolutions
    BY DEF Resolutions
  <2>4. Sound(doc, plan)
    BY <1>0, <2>1, <2>2, <2>3, RegistrationsAreSound
  <2>5. BeginsSound(w, "record_commit", FALSE, doc, None)
    BY <2>2, <2>4 DEF BeginsSound, BeginsSome, Kinds, PlanOperations
  <2> QED BY <2>5, Zenon
<1>6. ASSUME NEW preview \in previews, NEW resolution \in Resolutions,
             Apply(w, preview, resolution)
      PROVE  \E kind, l, doc, p : BeginsSound(w, kind, l, doc, p)
  <2>1. preview.kind \in PreviewKinds
    BY DEF Shape
  <2>2. PICK doc : doc = Applied(preview.kind, file.doc, preview.version, resolution)
    OBVIOUS
  <2>3. /\ Begin(w, preview.kind, FALSE, doc, preview) /\ Readable
        /\ preview.version \in Listed(file.doc.runtimes)
        /\ preview.kind = "manual_fix_prompt" => file.doc.attempt < AttemptCap
    BY <1>6, <2>2 DEF Apply
  <2>4. PICK v \in Listed(file.doc.runtimes) : v = preview.version
    BY <2>3
  <2>5. /\ Sound(RegisteredPass(file.doc, v), plan)
        /\ Sound(apply_scope_mismatch_resolution(file.doc, v, resolution), plan)
        /\ file.doc.attempt < AttemptCap => Sound(paste_manual_fix_prompt(file.doc), plan)
    BY <1>0, <2>3, RegistrationsAreSound
  <2>6. Sound(doc, plan)
    BY <2>1, <2>2, <2>3, <2>4, <2>5 DEF Applied, PreviewKinds
  <2>7. BeginsSound(w, preview.kind, FALSE, doc, preview)
    BY <2>1, <2>3, <2>6 DEF BeginsSound, BeginsSome, Kinds, PreviewKinds, PlanOperations
  <2> QED BY <2>7, Zenon
<1> QED BY <1>1, <1>2, <1>3, <1>4, <1>5, <1>6

RunsSound(w) ==
    /\ RunsOn(w)
    /\ Running(w)' => Sound(writers'[w].doc, plan)
    /\ reports' \subseteq Versions
    /\ clock' \in 0 .. MaxStamps

LEMMA RunsAreSound ==
    ASSUME Shape, DocumentsFollow, NEW w \in Writers, RunsOn(w)
    PROVE  RunsSound(w)
<1>0. /\ writers = [v \in Writers |-> writers[v]] /\ clock \in Nat
      /\ reports \subseteq Versions /\ clock \in 0 .. MaxStamps /\ GoodPlan(plan)
  BY DEF Shape, DocumentsFollow
<1>1. ASSUME NEW doc, Sound(doc, plan), NEW next, SaveAgain(w, doc, next)
      PROVE  RunsSound(w)
  <2>1. writers'[w].doc = doc
    BY <1>0, <1>1 DEF SaveAgain, Operation
  <2>2. clock' \in 0 .. MaxStamps /\ reports' = reports
    BY <1>0, <1>1, StateAssumption DEF SaveAgain
  <2> QED BY <1>0, <1>1, <2>1, <2>2 DEF RunsSound
<1>2. CASE AcceptRun(w)
  <2>1. PICK result \in Results :
            SaveAgain(w, _run_acceptance(writers[w].doc, Kind(w) = "fix", result),
                      IF result = "passed" THEN "evidence" ELSE "report")
    BY <1>2, Zenon DEF AcceptRun
  <2>2. PICK is_fix \in BOOLEAN : is_fix = (Kind(w) = "fix")
    OBVIOUS
  <2>3. PICK doc : doc = writers[w].doc
    OBVIOUS
  <2>4. Sound(doc, plan)
    BY <1>2, <2>3 DEF AcceptRun, DocumentsFollow, Running
  <2>5. PICK new : new = _run_acceptance(doc, is_fix, result)
    OBVIOUS
  <2>6. Sound(new, plan)
    BY <1>0, <2>4, <2>5, AcceptanceIsSound
  <2>7. PICK next : next = IF result = "passed" THEN "evidence" ELSE "report"
    OBVIOUS
  <2>8. SaveAgain(w, new, next)
    BY <2>1, <2>2, <2>3, <2>5, <2>7, Zenon
  <2> QED BY <1>1, <2>6, <2>8
<1>3. CASE BlockUnchangedRun(w)
  <2>1. PICK doc : doc = writers[w].doc
    OBVIOUS
  <2>2. Sound(doc, plan)
    BY <1>3, <2>1 DEF BlockUnchangedRun, DocumentsFollow, Running
  <2>3. PICK new : new = mark_blocked_by_no_changes(doc)
    OBVIOUS
  <2>4. PICK v \in Listed(doc.runtimes) : v = doc.current
    BY <1>0, <2>2, SoundIsAtItsVersion
  <2>5. "abort_version" \in Resolutions
    BY DEF Resolutions
  <2>6. Sound(new, plan)
    BY <1>0, <2>2, <2>3, <2>4, <2>5, RegistrationsAreSound
  <2>7. SaveAgain(w, new, "report")
    BY <1>3, <2>1, <2>3, Zenon DEF BlockUnchangedRun
  <2> QED BY <1>1, <2>6, <2>7
<1>4. CASE EndRun(w)
  <2>1. ~Running(w)' /\ clock' = clock
    BY <1>0, <1>4 DEF EndRun, End, Running, Idle
  <2>2. Sound(writers[w].doc, plan)
    BY <1>4 DEF EndRun, DocumentsFollow, Running
  <2>3. writers[w].doc.current \in Versions
    BY <1>0, <2>2, SoundIsAtItsVersion
  <2>4. reports' \subseteq Versions
    BY <1>0, <1>4, <2>3 DEF EndRun
  <2> QED BY <1>0, <1>4, <2>1, <2>4 DEF RunsSound, RunsOn
<1>5. CASE Crash(w)
  BY <1>0, <1>5 DEF Crash, End, Running, Idle, RunsSound, RunsOn
<1> QED BY <1>2, <1>3, <1>4, <1>5 DEF RunsOn

LEMMA SoundStepForms ==
    ASSUME Shape, DocumentsFollow, PlansGrow, [Next]_vars
    PROVE  \/ Aside /\ PlanGrows
           \/ \E w \in Writers : \E kind, leased, doc, preview :
                 BeginsSound(w, kind, leased, doc, preview)
           \/ \E w \in Writers : SavesSome(w) \/ RunsSound(w)
<1>0. \A preview \in previews : preview.kind \in PreviewKinds
  BY DEF Shape
<1>1. CASE UNCHANGED vars
  BY <1>0, <1>1 DEF vars, Aside, PlanGrows
<1>2. CASE EditPlan
  BY <1>0, <1>2 DEF EditPlan, Aside, PlanGrows, PlansGrow
<1>3. ASSUME NEW kind \in PreviewKinds, NEW v \in Versions, Preview(kind, v)
      PROVE  Aside /\ PlanGrows
  BY <1>0, <1>3 DEF Preview, Aside, PlanGrows
<1>4. ASSUME NEW preview \in previews, DropPreview(preview)
      PROVE  Aside /\ PlanGrows
  BY <1>0, <1>4 DEF DropPreview, Aside, PlanGrows
<1>5. ASSUME NEW w \in Writers,
             \/ \E leased \in BOOLEAN : reload_plan(w, leased) \/ ContinueVersion(w, leased)
             \/ rerun_acceptance(w)
             \/ \E mode \in {"run", "fix"} : run_once(w, mode)
             \/ \E v \in Versions : RecordCommit(w, v)
             \/ \E preview \in previews, resolution \in Resolutions :
                   Apply(w, preview, resolution)
      PROVE  \E kind, leased, doc, preview : BeginsSound(w, kind, leased, doc, preview)
  BY <1>5, BeginningsAreSound
<1>6. ASSUME NEW w \in Writers, RunsOn(w)
      PROVE  RunsSound(w)
  BY <1>6, RunsAreSound
<1> QED BY <1>1, <1>2, <1>3, <1>4, <1>5, <1>6, Zenon DEF Next, SavesSome, RunsOn

(* Saving writes the document of the operation, and no other.              *)
LEMMA SavesKeepDocuments ==
    ASSUME Shape, NEW w \in Writers, SavesSome(w)
    PROVE  /\ Running(w)' => writers'[w].doc = writers[w].doc
           /\ Readable' => \/ Readable /\ file'.doc = file.doc
                           \/ file'.doc = writers[w].doc
<1>1. /\ Running(w)
      /\ \/ /\ writers[w].pc = "check" /\ file' = file
            /\ \/ writers'[w] = [writers[w] EXCEPT !.pc = "open", !.read = None]
               \/ Ends(w)
         \/ file' = Empty /\ GoesOn(w, "write")
         \/ /\ file' \in {Whole(writers[w].doc, writers[w].updated_at), Garbled}
            /\ IF writers[w].next = "end" THEN Ends(w) ELSE GoesOn(w, writers[w].next)
  BY SavesWrite
<1>2. Running(w)' => writers'[w].doc = writers[w].doc
  <2>1. Formed(writers[w])
    BY <1>1 DEF Shape, Shaped
  <2>2. CASE Ends(w)
    BY <2>2 DEF Ends, Running, Idle
  <2>3. ASSUME NEW pc \in Saving \cup AfterProvider,
               \/ writers'[w] = [writers[w] EXCEPT !.pc = pc]
               \/ writers'[w] = [writers[w] EXCEPT !.pc = pc, !.read = None]
        PROVE  writers'[w].doc = writers[w].doc
    <3>1. PICK o, n : o = writers[w] /\ n = writers'[w]
      OBVIOUS
    <3>2. Formed(o) /\ (n = [o EXCEPT !.pc = pc] \/ n = [o EXCEPT !.pc = pc, !.read = None])
      BY <2>1, <2>3, <3>1
    <3>3. CASE n = [o EXCEPT !.pc = pc]
      BY <3>1, <3>2, <3>3 DEF Formed
    <3>4. CASE n = [o EXCEPT !.pc = pc, !.read = None]
      BY <3>1, <3>2, <3>4 DEF Formed
    <3> QED BY <3>2, <3>3, <3>4
  <2>4. "open" \in Saving /\ "write" \in Saving
    BY DEF Saving
  <2>5. writers[w].next # "end" => writers[w].next \in AfterProvider
    BY <2>1 DEF Formed
  <2> QED BY <1>1, <2>2, <2>3, <2>4, <2>5 DEF GoesOn
<1>3. Readable' => \/ Readable /\ file'.doc = file.doc
                   \/ file'.doc = writers[w].doc
  <2>1. file' \in {file, Empty, Garbled, Whole(writers[w].doc, writers[w].updated_at)}
    BY <1>1
  <2> QED BY <2>1 DEF Readable, Empty, Garbled, Whole
<1> QED BY <1>2, <1>3

LEMMA StepDocuments == Shape /\ DocumentsFollow /\ PlansGrow /\ [Next]_vars => DocumentsFollow'
<1> SUFFICES ASSUME Shape, DocumentsFollow, PlansGrow, [Next]_vars
             PROVE  DocumentsFollow'
  OBVIOUS
<1>0. /\ GoodPlan(plan)
      /\ Readable => Sound(file.doc, plan)
      /\ \A w \in Writers : Running(w) => Sound(writers[w].doc, plan)
      /\ reports \subseteq Versions /\ clock \in 0 .. MaxStamps
      /\ lease \in Writers \cup {None}
  BY DEF DocumentsFollow
<1>1. ASSUME Aside, PlanGrows
      PROVE  DocumentsFollow'
  <2>1. /\ file' = file /\ writers' = writers /\ reports' = reports /\ clock' = clock
        /\ lease' = lease
    BY <1>1 DEF Aside
  <2>2. GoodPlan(plan') /\ \A doc : Sound(doc, plan) => Sound(doc, plan')
    <3>1. PICK q : q = plan'
      OBVIOUS
    <3>2. q = plan \/ (GoodPlan(q) /\ Grows(plan, q))
      BY <1>1, <3>1, Zenon DEF PlanGrows
    <3>3. GoodPlan(q) /\ \A doc : Sound(doc, plan) => Sound(doc, q)
      BY <1>0, <3>2, GrowthKeepsSound
    <3> QED BY <3>1, <3>3, Zenon
  <2> QED BY <1>0, <2>1, <2>2 DEF DocumentsFollow, Running, Readable
<1>2. ASSUME NEW w \in Writers, NEW kind, NEW leased, NEW doc, NEW preview,
             BeginsSound(w, kind, leased, doc, preview)
      PROVE  DocumentsFollow'
  <2>1. BeginsSome(w, kind, leased, doc, preview)
    BY <1>2 DEF BeginsSound
  <2>2. /\ Alone(w)
        /\ writers'[w] = Operation(kind, leased, file.updated_at, file.doc, doc,
                  IF Refreshed(kind) THEN clock + 1 ELSE file.updated_at,
                  IF kind \in {"run", "fix"} THEN "accept" ELSE "end", preview)
        /\ clock' = IF Refreshed(kind) THEN clock + 1 ELSE clock
        /\ IF leased THEN lease = None /\ lease' = w ELSE UNCHANGED lease
        /\ UNCHANGED <<file, plan, previews, reports, last>>
    BY <2>1, BeginWrites
  <2>3. clock' \in 0 .. MaxStamps
    <3>1. clock < MaxStamps
      BY <2>1 DEF BeginsSome, Begin
    <3> QED BY <1>0, <2>2, <3>1, StateAssumption
  <2>4. lease' \in Writers \cup {None}
    BY <1>0, <2>2
  <2>5. writers'[w].doc = doc
    BY <2>2 DEF Operation
  <2>6. \A v \in Writers : Running(v)' => Sound(writers'[v].doc, plan)
    BY <1>0, <1>2, <2>2, <2>5 DEF Alone, Running, BeginsSound
  <2> QED BY <1>0, <2>2, <2>3, <2>4, <2>6 DEF DocumentsFollow, Readable
<1>3. ASSUME NEW w \in Writers, SavesSome(w)
      PROVE  DocumentsFollow'
  <2>1. /\ Alone(w) /\ Running(w) /\ UNCHANGED <<plan, reports, clock>>
        /\ \/ /\ writers[w].pc = "check" /\ UNCHANGED <<file, previews, last>>
              /\ \/ /\ writers'[w] = [writers[w] EXCEPT !.pc = "open", !.read = None]
                    /\ UNCHANGED lease
                 \/ Ends(w)
           \/ /\ writers[w].pc = "open" /\ UNCHANGED <<previews, last>>
              /\ file' = Empty /\ GoesOn(w, "write")
           \/ /\ writers[w].pc = "write" /\ previews' \subseteq previews
              /\ file' \in {Whole(writers[w].doc, writers[w].updated_at), Garbled}
              /\ last' = [updated_at |-> writers[w].updated_at,
                          leased |-> writers[w].leased]
              /\ IF writers[w].next = "end" THEN Ends(w) ELSE GoesOn(w, writers[w].next)
    BY <1>3, SavesWrite
  <2>2. lease' \in Writers \cup {None}
    BY <1>0, <2>1 DEF Ends, GoesOn
  <2>3. Running(w)' => writers'[w].doc = writers[w].doc
    BY <1>3, SavesKeepDocuments
  <2>4. \A v \in Writers : Running(v)' => Sound(writers'[v].doc, plan)
    BY <1>0, <2>1, <2>3 DEF Alone, Running
  <2>5. Readable' => Sound(file'.doc, plan)
    BY <1>0, <1>3, <2>1, SavesKeepDocuments
  <2> QED BY <1>0, <2>1, <2>2, <2>4, <2>5 DEF DocumentsFollow
<1>4. ASSUME NEW w \in Writers, RunsSound(w)
      PROVE  DocumentsFollow'
  <2>1. /\ Alone(w) /\ UNCHANGED <<plan, previews, last>>
        /\ lease' = lease \/ Ends(w)
        /\ file' = file \/ file' = Garbled
    BY <1>4, RunWrites DEF RunsSound
  <2>2. lease' \in Writers \cup {None}
    BY <1>0, <2>1 DEF Ends
  <2>3. Readable' => Sound(file'.doc, plan)
    <3>1. Readable' => file'.doc = file.doc /\ Readable
      BY <2>1 DEF Readable, Garbled
    <3> QED BY <1>0, <3>1
  <2>4. \A v \in Writers : Running(v)' => Sound(writers'[v].doc, plan)
    BY <1>0, <1>4, <2>1 DEF Alone, Running, RunsSound
  <2> QED BY <1>0, <1>4, <2>1, <2>2, <2>3, <2>4 DEF DocumentsFollow, RunsSound
<1> QED BY <1>1, <1>2, <1>3, <1>4, SoundStepForms

LEMMA DocumentsInvariant ==
    ASSUME PlansGrow
    PROVE  Spec => [](Shape /\ DocumentsFollow)
<1>1. Init => Shape /\ DocumentsFollow
  <2> SUFFICES ASSUME Init PROVE DocumentsFollow
    BY InitShape DEF StampInv
  <2>1. /\ GoodPlan(plan) /\ file.doc = initialize_state(plan)
        /\ clock = 0 /\ lease = None /\ reports = OldReports
        /\ writers = [w \in Writers |-> Idle]
    BY DEF Init, Whole, PlansGrow
  <2>2. Sound(file.doc, plan)
    BY <2>1, InitSound
  <2>3. \A w \in Writers : ~Running(w)
    BY <2>1 DEF Running, Idle
  <2>4. clock \in 0 .. MaxStamps /\ reports \subseteq Versions
    BY <2>1, StateAssumption
  <2> QED BY <2>1, <2>2, <2>3, <2>4 DEF DocumentsFollow
<1>2. Shape /\ DocumentsFollow /\ [Next]_vars => (Shape /\ DocumentsFollow)'
  BY StepShape, StepDocuments
<1> QED BY <1>1, <1>2, PTL DEF Spec

(* TypeOK: whatever runs, crashes or is saved over, a readable state file  *)
(* and every document on its way to it name one current version, by name   *)
(* and by index alike, among the versions of the plan; and the lease is    *)
(* held by exactly the operation that took it (state_store.py,             *)
(* state_mutation_gateway.py, state_machine.py).                           *)
THEOREM TypeCorrect ==
    ASSUME PlansGrow
    PROVE  Spec => []TypeOK
<1>1. Shape /\ DocumentsFollow => TypeOK
  <2> SUFFICES ASSUME Shape, DocumentsFollow PROVE TypeOK
    OBVIOUS
  <2>1. Readable => WellFormed(file.doc) /\ file.updated_at \in 0 .. clock
    BY DEF Shape, DocumentsFollow, Sound
  <2>2. ASSUME NEW w \in Writers, Running(w)
        PROVE  /\ Kind(w) \in Kinds /\ WellFormed(writers[w].doc)
               /\ {writers[w].base, writers[w].updated_at} \subseteq 0 .. clock
               /\ lease = w <=> writers[w].leased
    BY <2>2 DEF Shape, Shaped, Formed, Leased, DocumentsFollow, Sound, Kind
  <2> QED BY <2>1, <2>2 DEF TypeOK, DocumentsFollow, GoodPlan
<1> QED BY <1>1, DocumentsInvariant, PTL

(* CompletedHasNothingPending: whatever document an operation finds, also  *)
(* one that an operation without the lease has just put in the place of    *)
(* another, reloading or continuing with it leaves no enabled version      *)
(* pending behind COMPLETED (plan_reload_workflow.py:183).                 *)
THEOREM CompletedAlwaysHasNothingPending ==
    ASSUME PlansGrow
    PROVE  Spec => CompletedHasNothingPending
<1>1. Shape /\ DocumentsFollow /\ [Next]_vars =>
          [\A w \in Writers, kind \in PlanOperations :
              Begins(w, kind) => LeavesNothingPending(writers'[w].doc)]_vars
  <2> SUFFICES ASSUME Shape, DocumentsFollow, [Next]_vars, NEW w \in Writers,
                      NEW kind \in PlanOperations, ~Running(w), Running(w)', Kind(w)' = kind
               PROVE  NothingPending(writers'[w].doc, plan)
    BY DEF Begins, LeavesNothingPending, NothingPending
  <2>1. ~(Aside /\ PlanGrows)
    BY DEF Aside, Running
  <2>2. ASSUME NEW v \in Writers, SavesSome(v) \/ RunsSound(v)
        PROVE  FALSE
    <3>1. Alone(v) /\ Running(v)
      BY <2>2, SavesWrite, RunWrites DEF RunsSound
    <3> QED BY <3>1 DEF Alone, Running
  <2>3. PICK v \in Writers : \E k, leased, doc, preview :
            BeginsSound(v, k, leased, doc, preview)
    BY <2>1, <2>2, SoundStepForms
  <2>4. PICK k, leased, doc, preview : BeginsSound(v, k, leased, doc, preview)
    BY <2>3
  <2>5. /\ Alone(v)
        /\ writers'[v] = Operation(k, leased, file.updated_at, file.doc, doc,
                  IF Refreshed(k) THEN clock + 1 ELSE file.updated_at,
                  IF k \in {"run", "fix"} THEN "accept" ELSE "end", preview)
    BY <2>4, BeginWrites DEF BeginsSound
  <2>6. w = v
    BY <2>5 DEF Alone, Running
  <2>7. k = kind /\ writers'[w].doc = doc
    BY <2>5, <2>6 DEF Operation, Kind
  <2> QED BY <2>4, <2>7 DEF BeginsSound
<1> QED BY <1>1, DocumentsInvariant, PTL DEF Spec, CompletedHasNothingPending
-----------------------------------------------------------------------------
(* What continue_next_version leaves, as long as no scope resolution has   *)
(* been applied to another version than the current one: only the current  *)
(* version can be failed or blocked, a runner whose status is passed or    *)
(* out of scope says so of its current version, and a preview that         *)
(* registers a pass saw a failed or blocked version, hence the current one *)
(* of whichever document it is applied to.                                 *)
Straight(doc) ==
    /\ \A v \in Versions : v # doc.current => doc.at[v] \in {"NOT_STARTED", "PASSED"}
    /\ doc.status = "VERSION_PASSED" => doc.at[doc.current] = "PASSED"
    /\ doc.status = "BLOCKED_BY_SCOPE_VIOLATION" => doc.at[doc.current] = "BLOCKED"

SawItsVersion(preview) ==
    /\ preview.kind = "manual_validation" => preview.at \in {"FAILED_BLOCKED", "FIX_PROMPT_READY"}
    /\ preview.kind = "recheck_report" => preview.at = "BLOCKED"

DocumentsStraight ==
    ~strayed =>
        /\ Readable => Straight(file.doc)
        /\ \A w \in Writers : Running(w) => Straight(writers[w].doc)
        /\ \A preview \in previews : SawItsVersion(preview)

(* The fields of a sound document, some of its statuses changed.           *)
Changed(doc, status, v, s) == [doc EXCEPT !.status = status, !.at[v] = s]
Attempted(doc, status, v, s) ==
    [doc EXCEPT !.status = status, !.at[v] = s, !.attempt = @ + 1]
ChangedOnly(doc, v, s) == [doc EXCEPT !.at[v] = s]

LEMMA ChangedFields ==
    ASSUME NEW doc, NEW p, Sound(doc, p), GoodPlan(p), NEW status, NEW v, NEW s
    PROVE  /\ \A new \in {Changed(doc, status, v, s), Attempted(doc, status, v, s)} :
                 /\ new.status = status /\ new.current = doc.current
                 /\ new.at = [doc.at EXCEPT ![v] = s]
           /\ \A new : new = ChangedOnly(doc, v, s)
                 => /\ new.status = doc.status /\ new.current = doc.current
                    /\ new.at = [doc.at EXCEPT ![v] = s]
<1>1. PICK st, at, attempt, current, index, runtimes :
          /\ doc = [status |-> st, current |-> current, index |-> index,
                    attempt |-> attempt, runtimes |-> runtimes, at |-> at]
          /\ current = doc.current /\ at = doc.at /\ st = doc.status
  BY SoundIsAtItsVersion
<1>2. PICK at2 : at2 = [doc.at EXCEPT ![v] = s]
  OBVIOUS
<1>3. doc = [status |-> st, current |-> current, index |-> index,
             attempt |-> attempt, runtimes |-> runtimes, at |-> at]
  BY <1>1
<1>4. ASSUME NEW new, new = [doc EXCEPT !.status = status, !.at[v] = s]
      PROVE  new.status = status /\ new.current = doc.current /\ new.at = at2
  <2>1. PICK one : one = [doc EXCEPT !.status = status]
    OBVIOUS
  <2>2. new = [one EXCEPT !.at = at2]
    BY <1>2, <1>4, <2>1
  <2>3. one = [status |-> status, current |-> current, index |-> index,
               attempt |-> attempt, runtimes |-> runtimes, at |-> at]
    BY <1>3, <2>1
  <2>4. new = [status |-> status, current |-> current, index |-> index,
               attempt |-> attempt, runtimes |-> runtimes, at |-> at2]
    BY <2>2, <2>3
  <2> QED BY <1>1, <2>4
<1>5. ASSUME NEW new, new = [doc EXCEPT !.status = status, !.at[v] = s, !.attempt = @ + 1]
      PROVE  new.status = status /\ new.current = doc.current /\ new.at = at2
  <2>1. PICK one : one = [doc EXCEPT !.status = status, !.at[v] = s]
    OBVIOUS
  <2>2. one.status = status /\ one.current = doc.current /\ one.at = at2
    BY <1>4, <2>1
  <2>3. PICK more : more = doc.attempt + 1
    OBVIOUS
  <2>4. new = [one EXCEPT !.attempt = more]
    BY <1>5, <2>1, <2>3
  <2> QED BY <2>2, <2>4
<1>6. ASSUME NEW new, new = [doc EXCEPT !.at[v] = s]
      PROVE  new.status = doc.status /\ new.current = doc.current /\ new.at = at2
  <2>1. new = [doc EXCEPT !.at = at2]
    BY <1>2, <1>6
  <2>2. new = [status |-> st, current |-> current, index |-> index,
               attempt |-> attempt, runtimes |-> runtimes, at |-> at2]
    BY <1>3, <2>1
  <2> QED BY <1>1, <2>2
<1> QED BY <1>2, <1>4, <1>5, <1>6 DEF Changed, Attempted, ChangedOnly

LEMMA CurrentMayChange ==
    ASSUME NEW doc, NEW p, Sound(doc, p), GoodPlan(p), Straight(doc),
           NEW status, NEW s,
           status = "VERSION_PASSED" => s = "PASSED",
           status = "BLOCKED_BY_SCOPE_VIOLATION" => s = "BLOCKED",
           NEW new, \/ new = [doc EXCEPT !.status = status, !.at[doc.current] = s]
                    \/ new = [doc EXCEPT !.status = status, !.at[doc.current] = s,
                                         !.attempt = @ + 1]
    PROVE  Straight(new)
<1>1. new.status = status /\ new.current = doc.current
      /\ new.at = [doc.at EXCEPT ![doc.current] = s]
  <2>1. PICK c : c = doc.current
    OBVIOUS
  <2>2. new \in {Changed(doc, status, c, s), Attempted(doc, status, c, s)}
    BY <2>1 DEF Changed, Attempted
  <2>3. new.status = status /\ new.current = doc.current
        /\ new.at = [doc.at EXCEPT ![c] = s]
    BY <2>2, ChangedFields
  <2> QED BY <2>1, <2>3
<1>2. doc.at \in [Versions -> VersionStatuses] /\ doc.current \in Versions
  BY SoundIsAtItsVersion
<1>3. new.at[doc.current] = s /\ \A v \in Versions : v # doc.current => new.at[v] = doc.at[v]
  BY <1>1, <1>2
<1> QED BY <1>1, <1>3 DEF Straight

LEMMA CurrentIsNamed ==
    ASSUME NEW doc, NEW p, Sound(doc, p)
    PROVE  Current(doc) = doc.current
BY DEF Sound, WellFormed

LEMMA AcceptanceIsStraight ==
    ASSUME NEW doc, NEW p, Sound(doc, p), GoodPlan(p), Straight(doc),
           NEW is_fix \in BOOLEAN, NEW result \in Results
    PROVE  Straight(_run_acceptance(doc, is_fix, result))
<1>1. Current(doc) = doc.current
  BY CurrentIsNamed
<1>2. PICK status, s :
          /\ _run_acceptance(doc, is_fix, result) =
                 [doc EXCEPT !.status = status, !.at[doc.current] = s]
          /\ status = "VERSION_PASSED" => s = "PASSED"
          /\ status = "BLOCKED_BY_SCOPE_VIOLATION" => s = "BLOCKED"
  BY <1>1 DEF _run_acceptance, Results
<1> QED BY <1>2, CurrentMayChange

LEMMA BlockingIsStraight ==
    ASSUME NEW doc, NEW p, Sound(doc, p), GoodPlan(p), Straight(doc)
    PROVE  /\ Straight(mark_blocked_by_no_changes(doc))
           /\ Straight(paste_manual_fix_prompt(doc))
<1>1. Current(doc) = doc.current
  BY CurrentIsNamed
<1>2. mark_blocked_by_no_changes(doc) =
          [doc EXCEPT !.status = "BLOCKED_BY_MODEL_FAILURE", !.at[doc.current] = "FAILED_BLOCKED"]
  BY <1>1 DEF mark_blocked_by_no_changes
<1>3. paste_manual_fix_prompt(doc) =
          [doc EXCEPT !.status = "FIX_PROMPT_READY", !.at[doc.current] = "FIX_PROMPT_READY",
                      !.attempt = @ + 1]
  BY <1>1 DEF paste_manual_fix_prompt
<1> QED BY <1>2, <1>3, CurrentMayChange

(* Resolving the scope of the current version, and registering its pass.   *)
LEMMA ResolvingIsStraight ==
    ASSUME NEW doc, NEW p, Sound(doc, p), GoodPlan(p), Straight(doc), NEW resolution
    PROVE  /\ Straight(RegisteredPass(doc, doc.current))
           /\ Straight(apply_scope_mismatch_resolution(doc, doc.current, resolution))
<1>1. Straight(RegisteredPass(doc, doc.current))
  BY CurrentMayChange DEF RegisteredPass
<1>2. PICK new : new = [doc EXCEPT !.status = "BLOCKED_BY_SCOPE_VIOLATION",
                                   !.at[doc.current] = "BLOCKED"]
  OBVIOUS
<1>3. Straight(new)
  BY <1>2, CurrentMayChange
<1> QED BY <1>1, <1>2, <1>3 DEF apply_scope_mismatch_resolution

LEMMA RecordingIsStraight ==
    ASSUME NEW doc, NEW p, Sound(doc, p), GoodPlan(p), Straight(doc), NEW v \in Versions
    PROVE  Straight(record_commit_metadata(doc, v))
<1>1. PICK new : new = [doc EXCEPT !.at[v] = "PASSED"]
  OBVIOUS
<1>2. new.status = doc.status /\ new.current = doc.current
      /\ new.at = [doc.at EXCEPT ![v] = "PASSED"]
  <2>1. new = ChangedOnly(doc, v, "PASSED")
    BY <1>1 DEF ChangedOnly
  <2> QED BY <2>1, ChangedFields
<1>3. doc.at \in [Versions -> VersionStatuses]
  BY SoundIsAtItsVersion
<1>4. new.at[v] = "PASSED" /\ \A u \in Versions : u # v => new.at[u] = doc.at[u]
  BY <1>2, <1>3
<1>5. doc.current \in Versions
  BY SoundIsAtItsVersion
<1>6. doc.at[v] = "NOT_STARTED" => Straight(new)
  BY <1>2, <1>4, <1>5 DEF Straight
<1> QED BY <1>1, <1>6 DEF record_commit_metadata

LEMMA AlignmentIsStraight ==
    ASSUME NEW doc, NEW p, Sound(doc, p), GoodPlan(p), Straight(doc), NEW new,
           new = _ensure_state_versions_aligned(doc, p)
    PROVE  /\ Straight(new) /\ Sound(new, p)
           /\ new.status = doc.status /\ new.current = doc.current
           /\ new.at[doc.current] = doc.at[doc.current]
<1> DEFINE kept == Listed(doc.runtimes) \cap Listed(Names(p))
           at == [v \in Versions |-> IF v \in kept THEN doc.at[v] ELSE "NOT_STARTED"]
<1>1. PICK status, current, index, attempt, runtimes, at0 :
          /\ doc = [status |-> status, current |-> current, index |-> index,
                    attempt |-> attempt, runtimes |-> runtimes, at |-> at0]
          /\ current = doc.current /\ status = doc.status
  BY SoundIsAtItsVersion
<1>2. new = [doc EXCEPT !.runtimes = Names(p), !.at = at]
  BY DEF _ensure_state_versions_aligned
<1>3. doc.current \in kept /\ doc.current \in Versions
  BY SoundIsAtItsVersion
<1>4. \A v \in Versions : at[v] \in {doc.at[v], "NOT_STARTED"}
  OBVIOUS
<1>5. at[doc.current] = doc.at[doc.current]
  BY <1>3
<1> HIDE DEF at, kept
<1>6. new.status = status /\ new.current = current /\ new.at = at
  BY <1>1, <1>2
<1>7. Straight(new)
  BY <1>1, <1>4, <1>5, <1>6 DEF Straight
<1>8. Sound(new, p)
  <2>1. Moves(new, doc, p, doc.status, doc.index)
    BY AlignmentStays
  <2>2. doc.status \in RunnerStatuses /\ doc.index \in DOMAIN p
    BY SoundIsAtItsVersion
  <2> QED BY <2>1, <2>2, MovedIsSound
<1> QED BY <1>1, <1>5, <1>6, <1>7, <1>8

LEMMA ReopenedIsStraight ==
    ASSUME NEW doc, NEW p, NEW q, Sound(doc, q), GoodPlan(q), Straight(doc),
           NEW new, new \in {reopen_completed_state_if_pending(doc, p),
                             normalize_passed_current_version_status(doc)}
    PROVE  /\ Straight(new) /\ Sound(new, q)
           /\ new.current = doc.current /\ new.at = doc.at
<1>1. Current(doc) = doc.current
  BY CurrentIsNamed
<1>2. \/ new = doc
      \/ new = [doc EXCEPT !.status = "VERSION_PASSED"] /\ doc.at[doc.current] = "PASSED"
  BY <1>1 DEF reopen_completed_state_if_pending, normalize_passed_current_version_status
<1>3. PICK status, current, index, attempt, runtimes, at :
          doc = [status |-> status, current |-> current, index |-> index,
                 attempt |-> attempt, runtimes |-> runtimes, at |-> at]
  BY SoundIsAtItsVersion
<1>4. CASE new = [doc EXCEPT !.status = "VERSION_PASSED"] /\ doc.at[doc.current] = "PASSED"
  <2>1. new.status = "VERSION_PASSED" /\ new.current = doc.current /\ new.at = doc.at
    BY <1>3, <1>4
  <2>2. Straight(new)
    BY <1>4, <2>1 DEF Straight
  <2> QED BY <2>1, <2>2, ReopenedIsSound
<1> QED BY <1>2, <1>4, ReopenedIsSound

LEMMA ReloadIsStraight ==
    ASSUME NEW doc, NEW p, Sound(doc, p), GoodPlan(p), Straight(doc)
    PROVE  Straight(_reconcile_state_with_reloaded_plan(doc, p))
<1>1. Renamed(doc, p) = doc
  BY SoundIsAtItsVersion DEF Renamed
<1>2. PICK aligned : aligned = _ensure_state_versions_aligned(doc, p)
  OBVIOUS
<1>3. Straight(aligned) /\ Sound(aligned, p)
  BY <1>2, AlignmentIsStraight
<1>4. PICK reopened : reopened = reopen_completed_state_if_pending(aligned, p)
  OBVIOUS
<1>5. Straight(reopened) /\ Sound(reopened, p)
  BY <1>3, <1>4, ReopenedIsStraight
<1>6. PICK i : i = First({j \in DOMAIN p : p[j].version = reopened.current})
  OBVIOUS
<1>7. PICK new : new = [reopened EXCEPT !.index = i]
  OBVIOUS
<1>8. _reconcile_state_with_reloaded_plan(doc, p) = new
  BY <1>1, <1>2, <1>4, <1>6, <1>7 DEF _reconcile_state_with_reloaded_plan
<1>9. new.status = reopened.status /\ new.current = reopened.current /\ new.at = reopened.at
  <2>1. PICK status, current, index, attempt, runtimes, at :
            reopened = [status |-> status, current |-> current, index |-> index,
                        attempt |-> attempt, runtimes |-> runtimes, at |-> at]
    BY <1>5, SoundIsAtItsVersion
  <2> QED BY <1>7, <2>1
<1>10. Straight(new)
  BY <1>5, <1>9 DEF Straight
<1> QED BY <1>8, <1>10

LEMMA ContinueIsStraight ==
    ASSUME NEW doc, NEW p, Sound(doc, p), GoodPlan(p), Straight(doc), CanContinue(doc, p)
    PROVE  /\ Straight(continue_next_version(doc, p))
           /\ doc.at[Current(doc)] = "PASSED"
<1>1. PICK reopened : reopened = reopen_completed_state_if_pending(doc, p)
  OBVIOUS
<1>2. /\ Straight(reopened) /\ Sound(reopened, p)
      /\ reopened.current = doc.current /\ reopened.at = doc.at
  BY <1>1, ReopenedIsStraight
<1>3. PICK opened : opened = normalize_passed_current_version_status(reopened)
  OBVIOUS
<1>4. /\ Straight(opened) /\ Sound(opened, p)
      /\ opened.current = doc.current /\ opened.at = doc.at
  BY <1>2, <1>3, ReopenedIsStraight
<1>5. opened = ContinuableDocument(doc, p)
  BY <1>1, <1>3 DEF ContinuableDocument
<1>6. opened.status = "VERSION_PASSED"
  BY <1>5 DEF CanContinue
<1>7. doc.at[doc.current] = "PASSED"
  BY <1>4, <1>6 DEF Straight
<1>8. PICK aligned : aligned = _ensure_state_versions_aligned(opened, p)
  OBVIOUS
<1>9. /\ Straight(aligned) /\ Sound(aligned, p) /\ aligned.current = doc.current
      /\ aligned.at[doc.current] = "PASSED"
  <2>1. /\ Straight(aligned) /\ Sound(aligned, p) /\ aligned.current = opened.current
        /\ aligned.at[opened.current] = opened.at[opened.current]
    BY <1>4, <1>8, AlignmentIsStraight
  <2> QED BY <1>4, <1>7, <2>1
<1>10. PICK status, current, index, attempt, runtimes, at :
           aligned = [status |-> status, current |-> current, index |-> index,
                      attempt |-> attempt, runtimes |-> runtimes, at |-> at]
  BY <1>9, SoundIsAtItsVersion
<1>11. PICK first : first = First(Pending(aligned, p))
  OBVIOUS
<1>12. PICK ended : ended = [aligned EXCEPT !.status = "COMPLETED"]
  OBVIOUS
<1>13. PICK started : started = Starting(aligned, p, first)
  OBVIOUS
<1>14. continue_next_version(doc, p) \in {ended, started}
  BY <1>5, <1>8, <1>11, <1>12, <1>13 DEF continue_next_version
<1>15. Straight(ended)
  <2>1. ended.status = "COMPLETED" /\ ended.current = aligned.current /\ ended.at = aligned.at
    BY <1>10, <1>12
  <2> QED BY <1>9, <2>1 DEF Straight
<1>16. Straight(started)
  <2>1. started.status = "READY" /\ started.at = aligned.at
    BY <1>10, <1>13 DEF Starting
  <2>2. \A v \in Versions : aligned.at[v] \in {"NOT_STARTED", "PASSED"}
    BY <1>9 DEF Straight
  <2> QED BY <2>1, <2>2 DEF Straight
<1>17. Current(doc) = doc.current
  BY CurrentIsNamed
<1> QED BY <1>7, <1>14, <1>15, <1>16, <1>17

(* The steps.                                                              *)
BeginsStraight(w, kind, leased, doc, preview) ==
    /\ BeginsSome(w, kind, leased, doc, preview)
    /\ strayed => strayed'
    /\ ~strayed' => Straight(doc)
    /\ kind = "continue_next_version" => PassedWhenLeft \/ strayed

LEMMA AppliesStraight ==
    ASSUME Shape, DocumentsFollow, DocumentsStraight, NEW w \in Writers,
           NEW preview \in previews, NEW resolution \in Resolutions,
           Apply(w, preview, resolution)
    PROVE  \E kind, l, doc, p : BeginsStraight(w, kind, l, doc, p)
<1>1. preview.kind \in PreviewKinds
  BY DEF Shape
<1>2. PICK doc : doc = Applied(preview.kind, file.doc, preview.version, resolution)
  OBVIOUS
<1>3. /\ Begin(w, preview.kind, FALSE, doc, preview) /\ Readable
      /\ preview.version \in Listed(file.doc.runtimes)
      /\ preview.at = file.doc.at[preview.version]
      /\ strayed' = (strayed \/ (preview.kind = "scope_mismatch"
                                    /\ preview.version # file.doc.current))
  BY <1>2 DEF Apply, Unchanged
<1>4. Sound(file.doc, plan) /\ GoodPlan(plan)
  BY <1>3 DEF DocumentsFollow
<1>5. ASSUME ~strayed'
      PROVE  Straight(doc)
  <2>1. Straight(file.doc) /\ SawItsVersion(preview)
    BY <1>3, <1>5 DEF DocumentsStraight
  <2>2. PICK v \in Versions : v = preview.version
    BY <1>3, <1>4 DEF Sound, WellFormed, Documents, Listed
  <2>3. CASE preview.kind = "manual_fix_prompt"
    <3>1. doc = paste_manual_fix_prompt(file.doc)
      BY <1>2, <2>3 DEF Applied
    <3> QED BY <1>4, <2>1, <3>1, BlockingIsStraight
  <2>4. CASE preview.kind \in {"manual_validation", "recheck_report"}
    <3>1. v = file.doc.current
      BY <1>3, <2>1, <2>2, <2>4 DEF SawItsVersion, Straight
    <3>2. doc = RegisteredPass(file.doc, file.doc.current)
      BY <1>2, <2>2, <2>4, <3>1 DEF Applied
    <3> QED BY <1>4, <2>1, <3>2, ResolvingIsStraight
  <2>5. CASE preview.kind = "scope_mismatch"
    <3>1. preview.version = file.doc.current
      BY <1>3, <1>5, <2>5
    <3>2. doc = apply_scope_mismatch_resolution(file.doc, file.doc.current, resolution)
      BY <1>2, <2>5, <3>1 DEF Applied
    <3> QED BY <1>4, <2>1, <3>2, ResolvingIsStraight
  <2> QED BY <1>1, <2>3, <2>4, <2>5 DEF PreviewKinds
<1>6. preview.kind # "continue_next_version"
  BY <1>1 DEF PreviewKinds
<1>7. strayed => strayed'
  BY <1>3
<1>8. BeginsSome(w, preview.kind, FALSE, doc, preview)
  BY <1>1, <1>3 DEF BeginsSome, Kinds, PreviewKinds
<1>9. BeginsStraight(w, preview.kind, FALSE, doc, preview)
  BY <1>5, <1>6, <1>7, <1>8 DEF BeginsStraight
<1> QED BY <1>9, Zenon

LEMMA BeginningsAreStraight ==
    ASSUME Shape, DocumentsFollow, DocumentsStraight, NEW w \in Writers,
           \/ \E leased \in BOOLEAN : reload_plan(w, leased) \/ ContinueVersion(w, leased)
           \/ rerun_acceptance(w)
           \/ \E mode \in {"run", "fix"} : run_once(w, mode)
           \/ \E v \in Versions : RecordCommit(w, v)
           \/ \E preview \in previews, resolution \in Resolutions :
                 Apply(w, preview, resolution)
    PROVE  \E kind, leased, doc, preview : BeginsStraight(w, kind, leased, doc, preview)
<1>0. Readable => /\ Sound(file.doc, plan) /\ GoodPlan(plan)
                  /\ ~strayed => Straight(file.doc)
  BY DEF DocumentsFollow, DocumentsStraight
<1>1. ASSUME NEW leased \in BOOLEAN, reload_plan(w, leased)
      PROVE  \E kind, l, doc, preview : BeginsStraight(w, kind, l, doc, preview)
  <2>1. PICK doc : doc = _reconcile_state_with_reloaded_plan(file.doc, plan)
    OBVIOUS
  <2>2. Begin(w, "reload_plan", leased, doc, None) /\ Readable /\ strayed' = strayed
    BY <1>1, <2>1 DEF reload_plan, Start
  <2>3. ~strayed => Straight(doc)
    BY <1>0, <2>1, <2>2, ReloadIsStraight
  <2>4. BeginsStraight(w, "reload_plan", leased, doc, None)
    BY <2>2, <2>3 DEF BeginsStraight, BeginsSome, Kinds, PlanOperations
  <2> QED BY <2>4, Zenon
<1>2. ASSUME NEW leased \in BOOLEAN, ContinueVersion(w, leased)
      PROVE  \E kind, l, doc, preview : BeginsStraight(w, kind, l, doc, preview)
  <2>1. PICK doc : doc = continue_next_version(file.doc, plan)
    OBVIOUS
  <2>2. /\ Begin(w, "continue_next_version", leased, doc, None) /\ Readable
        /\ strayed' = strayed /\ CanContinue(file.doc, plan)
    BY <1>2, <2>1 DEF ContinueVersion, Start
  <2>3. ~strayed => Straight(doc) /\ PassedWhenLeft
    BY <1>0, <2>1, <2>2, ContinueIsStraight DEF PassedWhenLeft
  <2>4. BeginsStraight(w, "continue_next_version", leased, doc, None)
    BY <2>2, <2>3 DEF BeginsStraight, BeginsSome, Kinds, PlanOperations
  <2> QED BY <2>4, Zenon
<1>3. ASSUME rerun_acceptance(w)
      PROVE  \E kind, l, doc, preview : BeginsStraight(w, kind, l, doc, preview)
  <2>1. PICK result \in Results :
            Start(w, "rerun_acceptance", TRUE, _run_acceptance(file.doc, FALSE, result))
    BY <1>3, Zenon DEF rerun_acceptance
  <2>2. PICK doc : doc = _run_acceptance(file.doc, FALSE, result)
    OBVIOUS
  <2>3. Begin(w, "rerun_acceptance", TRUE, doc, None) /\ Readable /\ strayed' = strayed
    BY <1>3, <2>1, <2>2 DEF rerun_acceptance, Start
  <2>4. ~strayed => Straight(doc)
    BY <1>0, <2>2, <2>3, AcceptanceIsStraight
  <2>5. BeginsStraight(w, "rerun_acceptance", TRUE, doc, None)
    BY <2>3, <2>4 DEF BeginsStraight, BeginsSome, Kinds, PlanOperations
  <2> QED BY <2>5, Zenon
<1>4. ASSUME NEW mode \in {"run", "fix"}, run_once(w, mode)
      PROVE  \E kind, l, doc, preview : BeginsStraight(w, kind, l, doc, preview)
  <2>1. Begin(w, mode, TRUE, file.doc, None) /\ Readable /\ strayed' = strayed
    BY <1>4 DEF run_once, Start
  <2>2. BeginsStraight(w, mode, TRUE, file.doc, None)
    BY <1>0, <2>1 DEF BeginsStraight, BeginsSome, Kinds, PlanOperations
  <2> QED BY <2>2, Zenon
<1>5. ASSUME NEW v \in Versions, RecordCommit(w, v)
      PROVE  \E kind, l, doc, preview : BeginsStraight(w, kind, l, doc, preview)
  <2>1. PICK doc : doc = record_commit_metadata(file.doc, v)
    OBVIOUS
  <2>2. Begin(w, "record_commit", FALSE, doc, None) /\ Readable /\ strayed' = strayed
    BY <1>5, <2>1 DEF RecordCommit, Start
  <2>3. ~strayed => Straight(doc)
    BY <1>0, <2>1, <2>2, RecordingIsStraight
  <2>4. BeginsStraight(w, "record_commit", FALSE, doc, None)
    BY <2>2, <2>3 DEF BeginsStraight, BeginsSome, Kinds, PlanOperations
  <2> QED BY <2>4, Zenon
<1>6. ASSUME NEW preview \in previews, NEW resolution \in Resolutions,
             Apply(w, preview, resolution)
      PROVE  \E kind, l, doc, p : BeginsStraight(w, kind, l, doc, p)
  BY <1>6, AppliesStraight
<1> QED BY <1>1, <1>2, <1>3, <1>4, <1>5, <1>6

RunsStraight(w) ==
    /\ RunsOn(w) /\ UNCHANGED strayed
    /\ ~strayed /\ Running(w)' => Straight(writers'[w].doc)

LEMMA RunsAreStraight ==
    ASSUME Shape, DocumentsFollow, DocumentsStraight, NEW w \in Writers, RunsOn(w)
    PROVE  RunsStraight(w)
<1>0. writers = [v \in Writers |-> writers[v]] /\ GoodPlan(plan)
  BY DEF Shape, DocumentsFollow
<1>1. ASSUME NEW doc, ~strayed => Straight(doc), NEW next, SaveAgain(w, doc, next)
      PROVE  RunsStraight(w)
  <2>1. writers'[w].doc = doc /\ strayed' = strayed
    BY <1>0, <1>1 DEF SaveAgain, Operation
  <2> QED BY <1>1, <2>1 DEF RunsStraight
<1>2. PICK doc : doc = writers[w].doc
  OBVIOUS
<1>3. Running(w) => Sound(doc, plan) /\ (~strayed => Straight(doc))
  BY <1>2 DEF DocumentsFollow, DocumentsStraight
<1>4. CASE AcceptRun(w)
  <2>1. PICK result \in Results :
            SaveAgain(w, _run_acceptance(writers[w].doc, Kind(w) = "fix", result),
                      IF result = "passed" THEN "evidence" ELSE "report")
    BY <1>4, Zenon DEF AcceptRun
  <2>2. PICK is_fix \in BOOLEAN : is_fix = (Kind(w) = "fix")
    OBVIOUS
  <2>3. Running(w)
    BY <1>4 DEF AcceptRun, Running
  <2>4. PICK new : new = _run_acceptance(doc, is_fix, result)
    OBVIOUS
  <2>5. ~strayed => Straight(new)
    BY <1>0, <1>3, <2>3, <2>4, AcceptanceIsStraight
  <2>6. PICK next : next = IF result = "passed" THEN "evidence" ELSE "report"
    OBVIOUS
  <2>7. SaveAgain(w, new, next)
    BY <1>2, <2>1, <2>2, <2>4, <2>6, Zenon
  <2> QED BY <1>1, <2>5, <2>7
<1>5. CASE BlockUnchangedRun(w)
  <2>1. Running(w)
    BY <1>5 DEF BlockUnchangedRun, Running
  <2>2. PICK new : new = mark_blocked_by_no_changes(doc)
    OBVIOUS
  <2>3. ~strayed => Straight(new)
    BY <1>0, <1>3, <2>1, <2>2, BlockingIsStraight
  <2>4. SaveAgain(w, new, "report")
    BY <1>2, <1>5, <2>2, Zenon DEF BlockUnchangedRun
  <2> QED BY <1>1, <2>3, <2>4
<1>6. CASE EndRun(w)
  BY <1>0, <1>6 DEF EndRun, End, Running, Idle, RunsStraight, RunsOn
<1>7. CASE Crash(w)
  BY <1>0, <1>7 DEF Crash, End, Running, Idle, RunsStraight, RunsOn
<1> QED BY <1>4, <1>5, <1>6, <1>7 DEF RunsOn

AsideStraight ==
    /\ Aside /\ UNCHANGED strayed
    /\ ~strayed => \A preview \in previews' : SawItsVersion(preview)

LEMMA StraightStepForms ==
    ASSUME Shape, DocumentsFollow, DocumentsStraight, [Next]_vars
    PROVE  \/ AsideStraight
           \/ \E w \in Writers : \E kind, leased, doc, preview :
                 BeginsStraight(w, kind, leased, doc, preview)
           \/ \E w \in Writers : (SavesSome(w) /\ UNCHANGED strayed) \/ RunsStraight(w)
<1>0. /\ \A preview \in previews : preview.kind \in PreviewKinds
      /\ ~strayed => \A preview \in previews : SawItsVersion(preview)
  BY DEF Shape, DocumentsStraight
<1>1. CASE UNCHANGED vars
  BY <1>0, <1>1 DEF vars, Aside, AsideStraight
<1>2. CASE EditPlan
  BY <1>0, <1>2 DEF EditPlan, Aside, AsideStraight
<1>3. ASSUME NEW kind \in PreviewKinds, NEW v \in Versions, Preview(kind, v)
      PROVE  AsideStraight
  <2>1. PICK new : new = [kind |-> kind, version |-> v, status |-> file.doc.status,
                          at |-> file.doc.at[v], index |-> file.doc.index,
                          attempt |-> file.doc.attempt]
    OBVIOUS
  <2>2. previews' = previews \cup {new} /\ Readable /\ PreviewAllows(kind, file.doc, v)
        /\ UNCHANGED <<file, lease, writers, reports, clock, last, strayed>>
    BY <1>3, <2>1 DEF Preview
  <2>3. new.kind = kind /\ new.at = file.doc.at[v]
    BY <2>1
  <2>4. ASSUME kind = "manual_validation"
        PROVE  SawItsVersion(new)
    BY <2>2, <2>3, <2>4 DEF PreviewAllows, SawItsVersion
  <2>5. ASSUME kind = "recheck_report", ~strayed
        PROVE  SawItsVersion(new)
    BY <2>2, <2>3, <2>5 DEF PreviewAllows, IsCurrent, SawItsVersion, DocumentsStraight, Straight
  <2>6. ~strayed => SawItsVersion(new)
    BY <2>3, <2>4, <2>5 DEF SawItsVersion
  <2> QED BY <1>0, <2>2, <2>3, <2>6 DEF Aside, AsideStraight
<1>4. ASSUME NEW preview \in previews, DropPreview(preview)
      PROVE  AsideStraight
  BY <1>0, <1>4 DEF DropPreview, Aside, AsideStraight
<1>5. ASSUME NEW w \in Writers,
             \/ \E leased \in BOOLEAN : reload_plan(w, leased) \/ ContinueVersion(w, leased)
             \/ rerun_acceptance(w)
             \/ \E mode \in {"run", "fix"} : run_once(w, mode)
             \/ \E v \in Versions : RecordCommit(w, v)
             \/ \E preview \in previews, resolution \in Resolutions :
                   Apply(w, preview, resolution)
      PROVE  \E kind, leased, doc, preview : BeginsStraight(w, kind, leased, doc, preview)
  BY <1>5, BeginningsAreStraight
<1>6. ASSUME NEW w \in Writers, RunsOn(w)
      PROVE  RunsStraight(w)
  BY <1>6, RunsAreStraight
<1>7. ASSUME NEW w \in Writers, SavesSome(w)
      PROVE  UNCHANGED strayed
  BY <1>7 DEF SavesSome, _check_stale, OpenStateFile, save_state
<1> QED BY <1>1, <1>2, <1>3, <1>4, <1>5, <1>6, <1>7, Zenon DEF Next, SavesSome, RunsOn

LEMMA StepStraight ==
    Shape /\ DocumentsFollow /\ DocumentsStraight /\ [Next]_vars => DocumentsStraight'
<1> SUFFICES ASSUME Shape, DocumentsFollow, DocumentsStraight, [Next]_vars, ~strayed'
             PROVE  /\ Readable' => Straight(file'.doc)
                    /\ \A w \in Writers : Running(w)' => Straight(writers'[w].doc)
                    /\ \A preview \in previews' : SawItsVersion(preview)
  BY DEF DocumentsStraight
<1>0. ~strayed => /\ Readable => Straight(file.doc)
                  /\ \A w \in Writers : Running(w) => Straight(writers[w].doc)
                  /\ \A preview \in previews : SawItsVersion(preview)
  BY DEF DocumentsStraight
<1>1. CASE AsideStraight
  BY <1>0, <1>1 DEF AsideStraight, Aside, Readable, Running
<1>2. ASSUME NEW w \in Writers, NEW kind, NEW leased, NEW doc, NEW preview,
             BeginsStraight(w, kind, leased, doc, preview)
      PROVE  /\ Readable' => Straight(file'.doc)
             /\ \A v \in Writers : Running(v)' => Straight(writers'[v].doc)
             /\ \A p \in previews' : SawItsVersion(p)
  <2>1. BeginsSome(w, kind, leased, doc, preview) /\ ~strayed /\ Straight(doc)
    BY <1>2 DEF BeginsStraight
  <2>2. /\ Alone(w)
        /\ writers'[w] = Operation(kind, leased, file.updated_at, file.doc, doc,
                  IF Refreshed(kind) THEN clock + 1 ELSE file.updated_at,
                  IF kind \in {"run", "fix"} THEN "accept" ELSE "end", preview)
        /\ UNCHANGED <<file, previews>>
    BY <2>1, BeginWrites
  <2>3. writers'[w].doc = doc
    BY <2>2 DEF Operation
  <2> QED BY <1>0, <2>1, <2>2, <2>3 DEF Alone, Running, Readable
<1>3. ASSUME NEW w \in Writers, SavesSome(w), UNCHANGED strayed
      PROVE  /\ Readable' => Straight(file'.doc)
             /\ \A v \in Writers : Running(v)' => Straight(writers'[v].doc)
             /\ \A p \in previews' : SawItsVersion(p)
  <2>1. Alone(w) /\ Running(w) /\ previews' \subseteq previews
    BY <1>3, SavesWrite
  <2>2. /\ Running(w)' => writers'[w].doc = writers[w].doc
        /\ Readable' => \/ Readable /\ file'.doc = file.doc
                        \/ file'.doc = writers[w].doc
    BY <1>3, SavesKeepDocuments
  <2> QED BY <1>0, <1>3, <2>1, <2>2 DEF Alone, Running
<1>4. ASSUME NEW w \in Writers, RunsStraight(w)
      PROVE  /\ Readable' => Straight(file'.doc)
             /\ \A v \in Writers : Running(v)' => Straight(writers'[v].doc)
             /\ \A p \in previews' : SawItsVersion(p)
  <2>1. Alone(w) /\ UNCHANGED previews /\ file' \in {file, Garbled}
    BY <1>4, RunWrites DEF RunsStraight
  <2>2. Readable' => file'.doc = file.doc /\ Readable
    BY <2>1 DEF Readable, Garbled
  <2> QED BY <1>0, <1>4, <2>1, <2>2 DEF Alone, Running, RunsStraight
<1> QED BY <1>1, <1>2, <1>3, <1>4, StraightStepForms

LEMMA StraightInvariant ==
    ASSUME PlansGrow
    PROVE  Spec => [](Shape /\ DocumentsFollow /\ DocumentsStraight)
<1>1. Init => DocumentsStraight
  <2> SUFFICES ASSUME Init PROVE DocumentsStraight
    OBVIOUS
  <2>1. /\ file.doc = initialize_state(plan) /\ previews = {}
        /\ writers = [w \in Writers |-> Idle]
    BY DEF Init, Whole
  <2>2. Straight(file.doc)
    <3>1. Sound(file.doc, plan) /\ GoodPlan(plan)
      BY <2>1, InitSound DEF Init, PlansGrow
    <3>2. file.doc.status = "READY" /\ file.doc.at = [v \in Versions |-> "NOT_STARTED"]
      BY <2>1 DEF initialize_state
    <3> QED BY <3>2 DEF Straight
  <2>3. \A w \in Writers : ~Running(w)
    BY <2>1 DEF Running, Idle
  <2> QED BY <2>1, <2>2, <2>3 DEF DocumentsStraight
<1>2. Shape /\ DocumentsFollow /\ DocumentsStraight /\ [Next]_vars => DocumentsStraight'
  BY StepStraight
<1> QED BY <1>1, <1>2, DocumentsInvariant, PTL DEF Spec

(* OnlyStrayRefreshSkipsVersions: no order of runs, reruns, registrations, *)
(* reloads and continuations, crashed or saved over one another, makes     *)
(* continue_next_version leave a version that has not passed, unless a     *)
(* scope_mismatch_apply was for another version than the current one       *)
(* (mcp_executor_workflow.py, apply_scope_mismatch_resolution compares no  *)
(* current version).                                                       *)
THEOREM SkippingNeedsAStrayResolution ==
    ASSUME PlansGrow
    PROVE  Spec => OnlyStrayRefreshSkipsVersions
<1>1. Shape /\ DocumentsFollow /\ DocumentsStraight /\ [Next]_vars =>
          [\A w \in Writers :
              Begins(w, "continue_next_version") => PassedWhenLeft \/ strayed]_vars
  <2> SUFFICES ASSUME Shape, DocumentsFollow, DocumentsStraight, [Next]_vars,
                      NEW w \in Writers,
                      ~Running(w), Running(w)', Kind(w)' = "continue_next_version"
               PROVE  PassedWhenLeft \/ strayed
    BY DEF Begins
  <2>1. ~AsideStraight
    BY DEF AsideStraight, Aside, Running
  <2>2. ASSUME NEW v \in Writers, SavesSome(v) \/ RunsStraight(v)
        PROVE  FALSE
    <3>1. Alone(v) /\ Running(v)
      BY <2>2, SavesWrite, RunWrites DEF RunsStraight
    <3> QED BY <3>1 DEF Alone, Running
  <2>3. PICK v \in Writers : \E k, leased, doc, preview :
            BeginsStraight(v, k, leased, doc, preview)
    BY <2>1, <2>2, StraightStepForms
  <2>4. PICK k, leased, doc, preview : BeginsStraight(v, k, leased, doc, preview)
    BY <2>3
  <2>5. /\ Alone(v)
        /\ writers'[v] = Operation(k, leased, file.updated_at, file.doc, doc,
                  IF Refreshed(k) THEN clock + 1 ELSE file.updated_at,
                  IF k \in {"run", "fix"} THEN "accept" ELSE "end", preview)
    BY <2>4, BeginWrites DEF BeginsStraight
  <2>6. w = v
    BY <2>5 DEF Alone, Running
  <2>7. k = "continue_next_version"
    BY <2>5, <2>6 DEF Operation, Kind
  <2> QED BY <2>4, <2>7 DEF BeginsStraight
<1> QED BY <1>1, StraightInvariant, PTL DEF Spec, OnlyStrayRefreshSkipsVersions
==============================================================================
