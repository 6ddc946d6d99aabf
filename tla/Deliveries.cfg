SPECIFICATION Spec
CONSTANTS
    Receipts = {r1, r2}
    Keys = {k1, k2}
    AckSources <- AckSourcesDef
    None = None
    DelayCap = 3
    ExponentCap = 2
SYMMETRY DeliverySymmetry
INVARIANTS
    TypeOK
    AttemptsMatchInbox
    AcknowledgedWasDelivered
    DueIffScheduled
PROPERTIES
    KeepsPromise
CHECK_DEADLOCK FALSE
