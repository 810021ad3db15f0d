CONSTANTS
    Task = {t1, t2}
    Door = {d1}
    OtherDoor = dx
    VisitId = {v1, v2, v3}
    None = None
    Minute = 1
    Grace = 0
    Retention = 1
    MaxActiveVisits = 1
    MaxRedemptionsPerCode = 1
    MaxDelay = 1
    MaxClock = 3
SPECIFICATION Spec
SYMMETRY VisitorSymmetry
INVARIANTS
    TypeOK
    CheckInLimit
    CountersExact
