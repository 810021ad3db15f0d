CONSTANTS
    t1 = t1
    t2 = t2
    p1 = p1
    p2 = p2
    h1 = h1
    h2 = h2
    n1 = n1
    n2 = n2
    nx = nx
    o1 = o1
    o2 = o2
    c1 = c1
    c2 = c2
    e1 = e1
    e2 = e2
    None = None
    Task = {t1, t2}
    ForeignNonce = {nx}
    ObservationId = {o1, o2}
    Challenge = {c1, c2}
    Evidence = {e1, e2}
    Principal = {p1}
    House = {h1}
    Nonce = {n1, n2, nx}
    Observation <- ReplayObservations
    NonceTtl = 2
    MaxPendingNonces = 2
    MaxRecordedObservations = 2
    MaxSequence = 2
    MaxClock = 2
SPECIFICATION Spec
SYMMETRY TaskSymmetry
INVARIANTS
    LedgerCoherent
    SpentOnce
    AnswersAgreeWithRecord
PROPERTIES
    DecisionsAreFinal
    NoncesNotLost
    ReplayedIsJustified
    ImplementsLog
