------------------------------ MODULE QrIssuance ------------------------------
(***************************************************************************)
(* Start-up and the issuance of door codes: the configuration that main,   *)
(* DualAuth::from_environment (src/auth.rs) and                            *)
(* VisitorService::from_environment (src/visitor.rs) accept, and the       *)
(* handler issue_visitor_qr with the dual-auth guard it waits for.         *)
(*                                                                         *)
(* The guard races two remote authorities and is external: it may give any *)
(* outcome, and time passes while it does.  An identity is a verified      *)
(* (provider, tenant, subject) tuple.  Allowlists are sets of identities   *)
(* and doors, some of them malformed; any other value is well formed or    *)
(* not: URLs and identifiers of the first group of variables, key and      *)
(* notice version of the second.                                           *)
(***************************************************************************)
EXTENDS QrWindow

CONSTANTS
    Task,         \* concurrent issuance requests
    Identity,     \* what the guard may verify a caller to be
    Malformed,    \* identities with a component that is blank or too long
    AuthVar,      \* REQUIRED_CONFIGURATION
    SupabaseUrl,  \* the one of them that health reports by itself
    VisitorVar,   \* signing key, door list, notice version
    Door,         \* doors that VISITOR_DOOR_IDS may list
    BadDoor,      \* those too long, or with a character that is not allowed
    MaxClock,     \* bound of the model: the clock stops here
    None

ASSUME IssuanceAssumption ==
    /\ Minute \in Nat \ {0}
    /\ Grace \in Nat
    /\ MaxClock \in Nat
    /\ Malformed \subseteq Identity
    /\ BadDoor \subseteq Door
    /\ SupabaseUrl \in AuthVar
    /\ VisitorVar # {} /\ AuthVar \cap VisitorVar = {}
    /\ None \notin Identity /\ \A issuers \in SUBSET Identity : None # issuers
    /\ None \notin Door /\ \A doors \in SUBSET Door : None # doors

VARIABLES
    now,       \* the wall clock
    env,       \* the environment the process was started in
    phase,     \* of the process
    auth,      \* AppState.auth: the allowlist of issuers, or None
    visitors,  \* AppState.visitors: the allowlist of doors, or None
    requests   \* the issuance requests in progress, or answered, by task

vars == <<now, env, phase, auth, visitors, requests>>

\* Which variables are set, to what lists, and which have an ill-formed value.
Environment ==
    {e \in [auth_vars: SUBSET AuthVar, issuers: SUBSET Identity,
            visitor_vars: SUBSET VisitorVar, doors: SUBSET Door,
            ill_formed: SUBSET (AuthVar \cup VisitorVar)] :
        e.ill_formed \subseteq e.auth_vars \cup e.visitor_vars}

\* A request that is over, without a code.
Over(stage, answer) ==
    [pc |-> stage, action |-> "none", door_id |-> None, begun |-> 0,
     answer |-> answer, identity |-> None, code |-> None, at |-> 0,
     expires_at |-> 0]

\* One that waits for the guard.
Authorizing(action, door) ==
    [pc |-> "authorizing", action |-> action, door_id |-> door, begun |-> now,
     answer |-> "none", identity |-> None, code |-> None, at |-> 0,
     expires_at |-> 0]

\* One that handed i, now, the code of door and action at an instant.
Issuing(i, door, action, instant) ==
    [pc |-> "done", action |-> "none", door_id |-> None, begun |-> 0,
     answer |-> "Issued", identity |-> i, code |-> Issue(door, action, instant),
     at |-> now, expires_at |-> ExpiresAt(instant)]

Idle == Over("idle", "none")

Init ==
    /\ now = 0
    /\ env \in Environment
    /\ phase = "starting"
    /\ auth = None
    /\ visitors = None
    /\ requests = [t \in Task |-> Idle]

(***************************************************************************)
(* Start-up.                                                               *)
(***************************************************************************)
\* The allowlist must name at least one identity, and only well formed ones.
parse_identity_allowlist_fails ==
    env.issuers = {} \/ env.issuers \cap Malformed # {}

\* The door list, likewise.
parse_door_ids_fails == env.doors = {} \/ env.doors \cap BadDoor # {}

\* A URL that is not HTTPS nor loopback, or an identifier that is not one.
ValuesInvalid == env.ill_formed \cap AuthVar # {}

\* DualAuth::from_environment: none of its variables, or all of them and well
\* formed.
AuthError ==
    /\ env.auth_vars # {}
    /\ \/ env.auth_vars # AuthVar
       \/ parse_identity_allowlist_fails
       \/ ValuesInvalid

\* VisitorService::from_environment, likewise.
VisitorConfigError ==
    /\ env.visitor_vars # {}
    /\ \/ env.visitor_vars # VisitorVar
       \/ env.ill_formed \cap VisitorVar # {}
       \/ parse_door_ids_fails

\* Mutant: visitor access comes up without dual authentication.
NothingUnguarded == FALSE

Unguarded == env.visitor_vars # {} /\ env.auth_vars = {}

main ==
    /\ phase = "starting"
    /\ IF AuthError \/ VisitorConfigError \/ Unguarded
       THEN /\ phase' = "failed"
            /\ UNCHANGED <<auth, visitors>>
       ELSE /\ phase' = "serving"
            /\ auth' = IF env.auth_vars = {} THEN None ELSE env.issuers
            /\ visitors' = IF env.visitor_vars = {} THEN None ELSE env.doors
    /\ UNCHANGED <<now, env, requests>>

(***************************************************************************)
(* issue_visitor_qr.                                                       *)
(***************************************************************************)
Free(t) == requests[t].pc \in {"idle", "done"}

Refuse(t, answer) ==
    requests' = [requests EXCEPT ![t] = Over("done", answer)]

\* Up to the guard: the action, then whether there is a guard at all.
issue_visitor_qr(t, action, door) ==
    /\ Free(t)
    /\ \/ /\ action \notin VisitorAction
          /\ Refuse(t, visitor_error("InvalidAction"))
       \/ /\ action \in VisitorAction
          /\ auth = None
          /\ Refuse(t, "service_not_configured")
       \/ /\ action \in VisitorAction
          /\ auth # None
          /\ requests' = [requests EXCEPT ![t] = Authorizing(action, door)]
    /\ UNCHANGED <<now, env, phase, auth, visitors>>

\* Mutant: any authenticated caller may issue.
AuthenticatedIsEnough(i) == "Authorized"

\* authorize_qr_issuer, for a caller the guard verified to be i.
authorize_qr_issuer(i) ==
    IF i \notin Malformed /\ i \in auth THEN "Authorized" ELSE "Forbidden"

\* Mutant: the clock is read before the guard is asked.
IssueAtArrival(t, i) ==
    LET r == requests[t]
    IN  requests' = [requests EXCEPT ![t] =
                        Issuing(i, r.door_id, r.action, r.begun)]

\* The clock is read once the caller is authorised.
IssueCode(t, i) ==
    LET r == requests[t]
    IN  requests' = [requests EXCEPT ![t] =
                        Issuing(i, r.door_id, r.action, now)]

\* The guard has verified the caller to be i.
Verified(t, i) ==
    /\ requests[t].pc = "authorizing"
    /\ \/ /\ authorize_qr_issuer(i) # "Authorized"
          /\ Refuse(t, "forbidden")
       \/ /\ authorize_qr_issuer(i) = "Authorized"
          /\ visitors = None
          /\ Refuse(t, "service_not_configured")
       \/ /\ authorize_qr_issuer(i) = "Authorized"
          /\ visitors # None
          /\ requests[t].door_id \notin visitors
          /\ Refuse(t, visitor_error("InvalidDoor"))
       \/ /\ authorize_qr_issuer(i) = "Authorized"
          /\ visitors # None
          /\ requests[t].door_id \in visitors
          /\ IssueCode(t, i)
    /\ UNCHANGED <<now, env, phase, auth, visitors>>

\* The guard has found nobody, or could not reach its authorities.
Unverified(t) ==
    /\ requests[t].pc = "authorizing"
    /\ \E answer \in {"unauthorized", "authentication_unavailable"} : Refuse(t, answer)
    /\ UNCHANGED <<now, env, phase, auth, visitors>>

\* The client goes away while the guard is asked.
Abandon(t) ==
    /\ requests[t].pc = "authorizing"
    /\ requests' = [requests EXCEPT ![t] = Idle]
    /\ UNCHANGED <<now, env, phase, auth, visitors>>

Tick ==
    /\ phase = "serving"
    /\ now < MaxClock
    /\ now' = now + 1
    /\ UNCHANGED <<env, phase, auth, visitors, requests>>

\* The router takes requests, for any action and door, once it serves.
Arrive(t) ==
    /\ phase = "serving"
    /\ \E action \in VisitorAction \cup {"other"}, door \in Door :
          issue_visitor_qr(t, action, door)

Next ==
    \/ main
    \/ Tick
    \/ \E t \in Task :
          \/ Arrive(t)
          \/ \E i \in Identity : Verified(t, i)
          \/ Unverified(t)
          \/ Abandon(t)

Spec == Init /\ [][Next]_vars

(***************************************************************************)
(* Properties.                                                             *)
(***************************************************************************)
\* A process that serves visitor codes has dual authentication, every group of
\* variables is complete or absent (README: "either all dual-auth variables
\* are supplied or none are"), and health's separate reports of Supabase and
\* of dual authentication cannot disagree.
ConfigurationIsComplete ==
    phase = "serving" =>
        /\ visitors # None => auth # None
        /\ auth # None <=> env.auth_vars = AuthVar
        /\ auth # None <=> SupabaseUrl \in env.auth_vars
        /\ visitors # None <=> env.visitor_vars = VisitorVar

Answered(t) == requests[t].answer = "Issued"

\* Codes are issued only to an identity that the operator listed, for a door
\* that the operator listed, whatever the guard answers.
IssuedToListed ==
    \A t \in Task : Answered(t) =>
        /\ requests[t].identity \in env.issuers \ Malformed
        /\ requests[t].code.door_id \in env.doors \ BadDoor

\* However long the guard took, the code handed out is good when it is handed
\* out and for the grace period after it, and it dies right after the expiry
\* shown with it.
IssuedIsFresh ==
    \A t \in Task : Answered(t) =>
        LET r == requests[t]
        IN  /\ \A s \in r.at .. r.at + Grace + 1 : InWindow(r.code, s)
            /\ InWindow(r.code, r.expires_at)
            /\ ~InWindow(r.code, r.expires_at + 1)
=============================================================================
