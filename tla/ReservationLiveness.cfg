CONSTANTS
    Task = {t1, t2}
    Client = {c1}
    Id = {i1,i2,i3}
    Input <- ManyInputs
    RequiredField <- Field
    MaxChars <- Limits
    MaxNotesChars = 1
    MaxStay = 2
    ReservationStatus = {"confirmed", "cancelled"}
    MaxDemoReservations = 2
    RingCapacity = 1
    None = None
SPECIFICATION Spec
INVARIANTS
    StoredAreValid
    CapacityHolds
PROPERTIES
    StoredIsAnnounced
    StreamKeepsUp
