CONSTANTS
    app = app
    admin = admin
    Authority = {app, admin}
    Entry <- SlashEntries
    MaxEntries = 2
    Blank = Blank
    Wildcard = Wildcard
    NotUri = NotUri
    None = None
SPECIFICATION Spec
INVARIANTS
    OnlyExactOrigins
CHECK_DEADLOCK FALSE
