CONSTANTS
    app = app
    admin = admin
    Authority = {app, admin}
    Entry <- Entries
    MaxEntries = 4
    Blank = Blank
    Wildcard = Wildcard
    NotUri = NotUri
    None = None
SPECIFICATION Spec
INVARIANTS
    ListedIsAllowed
CHECK_DEADLOCK FALSE
