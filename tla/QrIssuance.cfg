CONSTANTS
    Task = {t1, t2}
    Identity = {i1, i2, ix}
    Malformed = {ix}
    AuthVar = {supabase_url, issuer}
    SupabaseUrl = supabase_url
    VisitorVar = {key, doors}
    Door = {d1, d2, dx}
    BadDoor = {dx}
    Minute = 2
    Grace = 1
    MaxClock = 4
    None = None
SPECIFICATION Spec
SYMMETRY QrSymmetry
INVARIANTS
    ConfigurationIsComplete
    IssuedToListed
    IssuedIsFresh
CHECK_DEADLOCK FALSE
