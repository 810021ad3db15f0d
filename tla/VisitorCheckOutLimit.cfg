CONSTANTS
    Task = {t1, t2}
    Door = {d1}
    OtherDoor = dx
    VisitId = {v1, v2}
    None = None
    Minute = 2
    Grace = 1
    Retention = 2
    MaxActiveVisits = 2
    MaxRedemptionsPerCode = 1
    MaxDelay = 1
    MaxClock = 2
SPECIFICATION Spec
INVARIANTS
    RedemptionLimit
