\* Two writers, a plan of two versions or one that grows to two, and one
\* preview waiting to be applied.
CONSTANTS
    None = None
    a = a
    b = b
    Versions = {a, b}
    Writers = {w1, w2}
    Plans <- ShortOrLong
    PlanEdits <- Growth
    OldReports = {b}
    MaxFixAttempts = 2
    MaxStamps = 3
    MaxPreviews = 1
    AttemptCap = 2
SPECIFICATION Spec
INVARIANTS
    TypeOK
    UpdatedAtNamesTheDocument
PROPERTIES
    CompletedHasNothingPending
    OnlyStrayRefreshSkipsVersions
    LeasedSavesCompose
SYMMETRY WriterSymmetry
CHECK_DEADLOCK FALSE
