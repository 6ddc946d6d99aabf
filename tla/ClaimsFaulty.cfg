SPECIFICATION Spec
CONSTANTS
    c1 = c1
    c2 = c2
    c3 = c3
    once = once
    bounded = bounded
    s1 = s1
    s2 = s2
    Other = Other
    None = None
    Calls = {c1, c2, c3}
    Previews = {once, bounded}
    Servers = {s1, s2}
    PreviewOf <- Requests
    ServerOf <- Processes
    Bounded = {bounded}
    FaultModes <- AllFaultsOrNone
    MaxCrashes = 1
INVARIANTS TypeOK ProviderExclusive RunsOncePerPreview EndedRunsAreReported RunningClaimsHoldLease
CHECK_DEADLOCK FALSE
