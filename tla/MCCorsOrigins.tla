---------------------------- MODULE MCCorsOrigins ----------------------------
(* Small instances of CorsOrigins for TLC. *)
EXTENDS CorsOrigins

CONSTANTS app, admin

MarkOf(mark) == [padding |-> 0, text |-> mark]

UriEntry(padding, scheme, authority, path, query) ==
    [padding |-> padding,
     text |-> [scheme |-> scheme, authority |-> authority, path |-> path,
               query |-> query]]

\* Two exact origins, one of them also padded, with the other scheme and with
\* a slash, an empty entry, and everything the parser refuses.
Entries ==
    {UriEntry(0, "https", app, "", FALSE), UriEntry(1, "https", app, "", FALSE),
     UriEntry(0, "http", app, "", FALSE), UriEntry(0, "https", admin, "", FALSE),
     UriEntry(0, "https", app, "/", FALSE),
     UriEntry(0, "https", app, "/path", FALSE),
     UriEntry(0, "https", app, "", TRUE), UriEntry(0, "other", None, "", FALSE),
     UriEntry(0, "other", app, "", FALSE), MarkOf(Blank), MarkOf(Wildcard),
     MarkOf(NotUri)}

\* The same origin written with and without its slash.
SlashEntries ==
    {UriEntry(0, "https", app, "", FALSE), UriEntry(0, "https", app, "/", FALSE)}
=============================================================================
