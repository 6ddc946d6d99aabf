SPECIFICATION Spec
CONSTANTS
    Leases = {l1, l2}
    Processes = {p1, p2}
    None = None
    MaxLeaseEvents = 7
    MaxFacts = 3
    MaxPlain = 1
    MaxRestores = 1
SYMMETRY LeaseSymmetry
INVARIANTS
    TypeOK
    RowFollowsItsEvents
    FactsAreAccountedFor
    OneLiveLease
    
    CloseoutHasRoom
    EndedServersHoldNoLease
PROPERTIES
    NothingAfterFreeze
CHECK_DEADLOCK FALSE
