\* One writer and a plan that does not change.
CONSTANTS
    None = None
    a = a
    b = b
    Versions = {a, b}
    Writers = {w1}
    Plans <- TwoVersions
    PlanEdits = {}
    OldReports = {}
    MaxFixAttempts = 2
    MaxStamps = 4
    MaxPreviews = 1
    AttemptCap = 2
SPECIFICATION Spec
PROPERTY ContinueLeavesPassedVersions
CHECK_DEADLOCK FALSE
