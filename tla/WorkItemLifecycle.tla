-------------------------- MODULE WorkItemLifecycle --------------------------
(***************************************************************************)
(* What the Work Item ledger promises to its readers, with no previews,    *)
(* Decisions, Gates or versions of rows: each Work Item walks the          *)
(* lifecycle graph; its contract (the revision) may be replaced only while *)
(* nothing is submitted; and acceptance, which happens to a submission,    *)
(* freezes a non-empty set of evidence.  Abstract specification of         *)
(* WorkItemLedger, which is shown to implement it.                         *)
(***************************************************************************)
EXTENDS Naturals

CONSTANTS Items, Evidence

VARIABLES phase, revision, accepted_evidence

lvars == <<phase, revision, accepted_evidence>>

LInit ==
    /\ phase = [i \in Items |-> "absent"]
    /\ revision = [i \in Items |-> 0]
    /\ accepted_evidence = [i \in Items |-> {}]

Open(i) ==
    /\ phase[i] = "absent"
    /\ phase' = [phase EXCEPT ![i] = "proposed"]
    /\ revision' = [revision EXCEPT ![i] = 1]
    /\ UNCHANGED accepted_evidence

Revise(i) ==
    /\ phase[i] \in {"proposed", "ready", "in_delivery"}
    /\ revision' = [revision EXCEPT ![i] = revision[i] + 1]
    /\ UNCHANGED <<phase, accepted_evidence>>

Move(i, from, to) ==
    /\ phase[i] = from
    /\ phase' = [phase EXCEPT ![i] = to]
    /\ UNCHANGED <<revision, accepted_evidence>>

Cancel(i) ==
    \E from \in {"proposed", "ready", "in_delivery", "submitted"} :
        Move(i, from, "cancelled")

Accept(i, es) ==
    /\ phase[i] = "submitted"
    /\ es # {}
    /\ phase' = [phase EXCEPT ![i] = "accepted"]
    /\ accepted_evidence' = [accepted_evidence EXCEPT ![i] = es]
    /\ UNCHANGED revision

LNext ==
    \E i \in Items :
        \/ Open(i)
        \/ Revise(i)
        \/ Move(i, "proposed", "ready")
        \/ Move(i, "ready", "in_delivery")
        \/ Move(i, "in_delivery", "submitted")
        \/ Move(i, "submitted", "in_delivery")
        \/ Cancel(i)
        \/ \E es \in SUBSET Evidence : Accept(i, es)

LSpec == LInit /\ [][LNext]_lvars
==============================================================================
