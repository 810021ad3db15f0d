----------------------------- MODULE CorsOrigins -----------------------------
(***************************************************************************)
(* CORS_ORIGINS of src/main.rs: the list that cors_layer parses when the   *)
(* process starts, and which cross-origin requests the layer then allows.  *)
(*                                                                         *)
(* Abstracted data: the variable is the sequence of its comma-separated    *)
(* entries, an entry its surrounding white space and its text, a text a    *)
(* mark (Blank, Wildcard, NotUri) or the parts a URI is written with.  The *)
(* two passes of parse_cors_origins are iterators: they take one entry at  *)
(* a time, and so does the model.  The layer itself is external: it echoes *)
(* the Origin of a request that equals a listed header value.              *)
(***************************************************************************)
EXTENDS Naturals, Sequences, Functions

CONSTANTS
    Authority,  \* hosts
    Entry,      \* the entries that CORS_ORIGINS may hold
    MaxEntries, \* bound of the model: how many of them
    Blank, Wildcard, NotUri, None

Uri ==
    [scheme: {"http", "https", "other"}, authority: Authority \cup {None},
     path: {"", "/", "/path"}, query: BOOLEAN]

ASSUME CorsAssumption ==
    /\ Entry \subseteq [padding: Nat, text: Uri \cup {Blank, Wildcard, NotUri}]
    /\ {Blank, Wildcard, NotUri} \cap Uri = {}
    /\ Blank \notin {Wildcard, NotUri}
    /\ MaxEntries \in Nat

VARIABLES
    raw,      \* CORS_ORIGINS, split at its commas
    phase,    \* of the process
    read,     \* how many items the pass under way has taken
    origins,  \* the entries parsed so far
    allowed,  \* the list for the layer, as far as it is built
    echoed    \* the last cross-origin request, and whether it was allowed

vars == <<raw, phase, read, origins, allowed, echoed>>

\* What a browser sends as Origin: never a path, not even "/".
BrowserOrigin ==
    [scheme: {"http", "https"}, authority: Authority, path: {""}, query: {FALSE}]

Init ==
    /\ raw \in UNION {[1..n -> Entry] : n \in 0..MaxEntries}
    /\ phase = "parsing"
    /\ read = 0
    /\ origins = <<>>
    /\ allowed = <<>>
    /\ echoed = None

\* Uri::path gives "/" for a URI with an authority and nothing after it.
uri_path(uri) == IF uri.path = "" THEN "/" ELSE uri.path

parse_cors_origin_fails(text) ==
    ~ /\ text \notin {Wildcard, NotUri}
      /\ text.scheme \in {"http", "https"}
      /\ text.authority # None
      /\ uri_path(text) = "/"
      /\ ~text.query

\* The next entry: a blank one is passed over, a bad one ends the process, and
\* the header value of a good one is its text as written.
parse_cors_origin ==
    LET text == raw[read + 1].text
    IN  /\ phase = "parsing"
        /\ read < Len(raw)
        /\ read' = read + 1
        /\ \/ /\ text = Blank
              /\ UNCHANGED <<phase, origins>>
           \/ /\ text # Blank
              /\ parse_cors_origin_fails(text)
              /\ phase' = "failed"
              /\ origins' = origins
           \/ /\ text # Blank
              /\ ~parse_cors_origin_fails(text)
              /\ origins' = Append(origins, text)
              /\ phase' = phase
        /\ UNCHANGED <<raw, allowed, echoed>>

\* collect, and the second pass begins.
Collect ==
    /\ phase = "parsing"
    /\ read = Len(raw)
    /\ phase' = "filtering"
    /\ read' = 0
    /\ UNCHANGED <<raw, origins, allowed, echoed>>

\* Mutant: an origin that occurs again is dropped altogether.
OccursElsewhere(k) == \E j \in DOMAIN origins : j # k /\ origins[j] = origins[k]

OccursBefore(k) == \E j \in 1..(k - 1) : origins[j] = origins[k]

\* Of equal origins the first stays.
KeepFirst ==
    /\ phase = "filtering"
    /\ read < Len(origins)
    /\ read' = read + 1
    /\ allowed' = IF OccursBefore(read + 1) THEN allowed
                  ELSE Append(allowed, origins[read + 1])
    /\ UNCHANGED <<raw, phase, origins, echoed>>

cors_layer ==
    /\ phase = "filtering"
    /\ read = Len(origins)
    /\ phase' = "serving"
    /\ UNCHANGED <<raw, read, origins, allowed, echoed>>

CrossOriginRequest(origin) ==
    /\ phase = "serving"
    /\ echoed' = [origin |-> origin, allow |-> origin \in Range(allowed)]
    /\ UNCHANGED <<raw, phase, read, origins, allowed>>

Next ==
    \/ parse_cors_origin \/ Collect \/ KeepFirst \/ cors_layer
    \/ \E origin \in BrowserOrigin : CrossOriginRequest(origin)

Spec == Init /\ [][Next]_vars

(***************************************************************************)
(* Properties.                                                             *)
(***************************************************************************)
Listed == {raw[k].text : k \in DOMAIN raw} \ {Blank}

\* One text is written in CORS_ORIGINS before the other is for the first time.
WrittenBefore(text, other) ==
    \E j \in DOMAIN raw :
        /\ raw[j].text = text
        /\ \A k \in 1..j : raw[k].text # other

\* Whatever CORS_ORIGINS repeats, pads or leaves blank, the layer is given
\* each entry once, in the order of first occurrence, all of them good, and
\* allows exactly the browser origins that are listed as they are sent.
ListedIsAllowed ==
    /\ phase = "serving" =>
          /\ Range(allowed) = Listed
          /\ \A text \in Listed : ~parse_cors_origin_fails(text)
          /\ \A m, n \in DOMAIN allowed :
                m < n => WrittenBefore(allowed[m], allowed[n])
    /\ echoed # None =>
          (echoed.allow <=> \E k \in DOMAIN raw : raw[k].text = echoed.origin)

\* A process that serves was given exact origins only (README.md: "Wildcards,
\* paths, and query strings are rejected at startup").
OnlyExactOrigins ==
    phase = "serving" =>
        \A origin \in Range(allowed) : origin.path = "" /\ ~origin.query
=============================================================================
