\* Two previews in flight for one Work Item that is also being revised and
\* blocked, by two principals with disjoint permissions, clients that guess
\* ahead of the row, and retries under one idempotency key.
CONSTANTS
    owner = owner
    reviewer = reviewer
    Absent = Absent
    WorkItems = {w1}
    Origins = {o1}
    Attempts = {}
    Artifacts = {}
    Decisions = {}
    Blockers = {b1}
    Previews = {p1, p2, p3, p4}
    Keys = {k1}
    Principals = {owner, reviewer}
    Granted <- DeliveryAndReturn
    Actions = {"approve", "reject"}
    MaxTaskVersion = 2
    MaxInFlight = 2
    MaxCited = 1
    MaxRejected = 1
    AheadTask = 0
    AheadState = 1
SPECIFICATION Spec
INVARIANTS
    
    OneApplyPerStateVersion
    OneGatePerKey
PROPERTIES
    BlockersHold
CHECK_DEADLOCK FALSE
