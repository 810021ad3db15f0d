CONSTANTS
    Task = {t1, t2}
    Client = {c1, c2}
    Id = {i1, i2, i3, i4}
    Input <- OneInput
    RequiredField <- Field
    MaxChars <- Limits
    MaxNotesChars = 1
    MaxStay = 2
    ReservationStatus = {"confirmed", "cancelled"}
    MaxDemoReservations = 4
    RingCapacity = 2
    None = None
SPECIFICATION Spec
SYMMETRY ReservationSymmetry
INVARIANTS
    TypeOK
    AnnouncedIsReadable
    StreamIntact
    SnapshotPlusStream
