CONSTANTS
    Task = {t1, t2}
    Door = {d1}
    OtherDoor = dx
    VisitId = {v1, v2}
    None = None
    Minute = 2
    Grace = 1
    Retention = 1
    MaxActiveVisits = 1
    MaxRedemptionsPerCode = 2
    MaxDelay = 1
    MaxClock = 4
SPECIFICATION Spec
SYMMETRY VisitorSymmetry
INVARIANTS
    ActiveWithinCapacity
    UndeliveredStaysOpen
    LogReconciles
    LogOrdered
PROPERTIES
    VisitLifecycle
    ImplementsRegister
