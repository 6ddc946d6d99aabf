\* One Work Item through submission, return, revision and acceptance, with an
\* Attempt, an Artifact and two Decisions; one preview in flight.
CONSTANTS
    owner = owner
    reviewer = reviewer
    Absent = Absent
    WorkItems = {w1}
    Origins = {o1}
    Attempts = {a1}
    Artifacts = {x1}
    Decisions = {d1, d2}
    Blockers = {}
    Previews = {p1, p2, p3, p4, p5, p6}
    Keys = {}
    Principals = {owner}
    Granted <- SoleOwner
    Actions = {"approve", "reject"}
    MaxTaskVersion = 2
    MaxInFlight = 1
    MaxCited = 1
    MaxRejected = 0
    AheadTask = 1
    AheadState = 0
SPECIFICATION Spec
INVARIANTS
    TypeOK
    AcceptanceSound
    SubmissionPinned
    NoLiveAttemptOnAcceptedVersion
PROPERTIES
    ImplementsLifecycle
    TerminalFrozen
    RowChangesAreVersioned
CHECK_DEADLOCK FALSE
