CONSTANTS
    QrTask = {q1}
    VisitTask = {t1}
    Identity = {i1, i2}
    Malformed = {i2}
    AuthVar = {supabase_url}
    SupabaseUrl = supabase_url
    VisitorVar = {key}
    ListedDoor = {d1}
    OtherDoor = dx
    VisitId = {v1}
    Retention = 1
    MaxActiveVisits = 1
    MaxRedemptionsPerCode = 1
    MaxDelay = 1
    MaxClock = 6
    Minute = 3
    Grace = 1
    None = None
SPECIFICATION Spec
INVARIANTS
    StoppedIsReconciled
    HandedAreHonoured
PROPERTIES
    EntryIsAccountedFor
    DrainCompletes
CHECK_DEADLOCK FALSE
