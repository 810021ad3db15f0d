---------------------------- MODULE VisitorSystem ----------------------------
(***************************************************************************)
(* The visitor side of one hhm-api process, from start-up to shutdown:     *)
(* issuance (QrIssuance) and redemption (VisitorAccess) on one clock.      *)
(* Visitors hold only codes that an issuer was handed, visits are served   *)
(* only by a process that is configured for them, and on ctrl-c the server *)
(* takes no new connection and waits for the requests of those it has.     *)
(***************************************************************************)
EXTENDS QrWindow, FiniteSets

CONSTANTS
    QrTask, VisitTask,    \* concurrent requests of issuers and of visitors
    Identity, Malformed, AuthVar, SupabaseUrl, VisitorVar,
    ListedDoor,           \* VISITOR_DOOR_IDS
    OtherDoor,            \* a door that is not listed
    VisitId, Retention, MaxActiveVisits, MaxRedemptionsPerCode,
    MaxDelay, MaxClock, None

VARIABLES
    now, env, phase, auth, visitors, issuing,
    visits, redemptions, requests, audit, created, redeemed, known,
    unserved, \* the tasks whose last visitor found no service configured
    arriving, \* the tasks whose request was still on its way, over an open
              \* connection, when the signal came
    handed    \* history: the codes handed out, the first issuer to get each,
              \* and the expiry it was shown

issuance == <<env, auth, visitors, issuing, handed>>
access == <<visits, redemptions, requests, audit, created, redeemed, known>>
vars == <<now, phase, issuance, access, unserved, arriving>>

Issuance == INSTANCE QrIssuance WITH
    Task <- QrTask, Door <- ListedDoor \cup {OtherDoor}, BadDoor <- {},
    requests <- issuing
Access == INSTANCE VisitorAccess WITH Task <- VisitTask, Door <- ListedDoor

ASSUME SystemBounds ==
    /\ Minute \in Nat \ {0}
    /\ Grace \in Nat
    /\ Retention \in Nat
    /\ MaxActiveVisits \in Nat \ {0}
    /\ MaxRedemptionsPerCode \in Nat \ {0}
    /\ MaxDelay \in Nat
    /\ MaxClock \in Nat
    /\ OtherDoor \notin ListedDoor
    /\ QrTask \cap VisitTask = {}
ASSUME SystemNone ==
    /\ None \notin Access!Code \cup Access!Visit \cup Access!Redemption
    /\ None # "name"
    /\ None \notin VisitId
    /\ None \notin Nat
ASSUME SystemFinite == IsFiniteSet(VisitId) /\ IsFiniteSet(VisitTask)

Init ==
    /\ Issuance!Init
    /\ env.doors = ListedDoor
    /\ Access!Init
    /\ unserved = {}
    /\ arriving = {}
    /\ handed = {}

main == Issuance!main /\ UNCHANGED <<handed, access, unserved, arriving>>

\* The request of task t reaches its handler: at any time while the process
\* serves, and then only if its connection was there before the signal.
Arrives(t) ==
    /\ phase = "serving" \/ (phase = "draining" /\ t \in arriving)
    /\ arriving' = arriving \ {t}

(***************************************************************************)
(* Issuers.                                                                *)
(***************************************************************************)
RequestCode(t) ==
    /\ Arrives(t)
    /\ \E action \in VisitorAction \cup {"other"},
          door \in ListedDoor \cup {OtherDoor} :
             Issuance!issue_visitor_qr(t, action, door)
    /\ UNCHANGED <<handed, access, unserved>>

\* The guard answers, and an issuer may be handed a code.
GuardAnswers(t) ==
    /\ \/ \E i \in Identity : Issuance!Verified(t, i)
       \/ Issuance!Unverified(t)
    /\ handed' = handed \cup
          {h \in {[code |-> issuing'[t].code, identity |-> issuing'[t].identity,
                  expires_at |-> issuing'[t].expires_at]} :
              /\ issuing'[t].answer = "Issued"
              /\ \A g \in handed : g.code # h.code}
    /\ UNCHANGED <<access, unserved, arriving>>

AbandonIssuance(t) ==
    Issuance!Abandon(t) /\ UNCHANGED <<handed, access, unserved, arriving>>

(***************************************************************************)
(* Visitors.                                                               *)
(***************************************************************************)
\* visitor_check_in and visitor_check_out: without a VisitorService the
\* handler says so; with one, the visitor shows a code some issuer was handed.
BeginVisitRequest(t) ==
    /\ Arrives(t)
    /\ \/ /\ visitors = None
          /\ Access!Free(t)
          /\ unserved' = unserved \cup {t}
          /\ UNCHANGED <<now, access>>
       \/ /\ visitors # None
          /\ Access!Begin(t)
          /\ Access!Free(t)' \/ \E h \in handed : h.code = requests'[t].code
          /\ unserved' = unserved
    /\ UNCHANGED <<phase, issuance>>

VisitStep(t) == Access!Step(t) /\ UNCHANGED <<phase, issuance, unserved, arriving>>

AbandonVisit(t) ==
    Access!Abandon(t) /\ UNCHANGED <<phase, issuance, unserved, arriving>>

\* What /healthz reports of the visitor side.
health ==
    [supabase_configured |-> SupabaseUrl \in env.auth_vars,
     dual_auth_configured |-> auth # None,
     visitor_qr_configured |-> visitors # None,
     active_visits |-> IF visitors = None THEN 0 ELSE Access!active_visit_count]

(***************************************************************************)
(* The process.                                                            *)
(***************************************************************************)
Tick ==
    /\ phase \in {"serving", "draining"}
    /\ Access!Tick
    /\ UNCHANGED <<phase, issuance, unserved, arriving>>

\* Mutant: the server stops without waiting for the requests it has.
NothingInProgress == TRUE

Drained ==
    /\ arriving = {}
    /\ \A t \in QrTask : Issuance!Free(t)
    /\ \A t \in VisitTask : Access!Free(t)

\* shutdown_signal resolves.  Over some of the open connections a request is
\* on its way: accepted, and not yet read to its end.
Shutdown ==
    /\ phase = "serving"
    /\ phase' = "draining"
    /\ arriving' \in SUBSET ({t \in QrTask : Issuance!Free(t)}
                                \cup {t \in VisitTask : Access!Free(t)})
    /\ UNCHANGED <<now, issuance, access, unserved>>

\* A connection closes before its request has arrived.
Hangup(t) ==
    /\ t \in arriving
    /\ arriving' = arriving \ {t}
    /\ UNCHANGED <<now, phase, issuance, access, unserved>>

\* axum::serve returns once every connection is done with its request.
Stop ==
    /\ phase = "draining"
    /\ Drained
    /\ phase' = "stopped"
    /\ UNCHANGED <<now, issuance, access, unserved, arriving>>

Next ==
    \/ main \/ Tick \/ Shutdown \/ Stop
    \/ \E t \in QrTask \cup VisitTask : Hangup(t)
    \/ \E t \in QrTask :
          RequestCode(t) \/ GuardAnswers(t) \/ AbandonIssuance(t)
    \/ \E t \in VisitTask :
          BeginVisitRequest(t) \/ VisitStep(t) \/ AbandonVisit(t)

\* The guard's race has a deadline of its own; tokio's RwLock queues fairly,
\* and what follows it is straight-line code.  Nothing makes a client finish
\* a request that it has begun to send.
Fairness ==
    /\ WF_vars(Stop)
    /\ \A t \in QrTask : WF_vars(GuardAnswers(t))
    /\ \A t \in VisitTask : WF_vars(VisitStep(t))

Spec == Init /\ [][Next]_vars /\ Fairness

(***************************************************************************)
(* Properties.                                                             *)
(***************************************************************************)
\* Whoever gets in does so with a check-in code of a listed door that an issuer
\* on the allowlist was handed, no later than the lock's delay after the
\* expiry that issuer was shown.
EntryIsAccountedFor ==
    [][\A c \in Access!CheckInCode : redeemed'[c] > redeemed[c] =>
          \E h \in handed :
              /\ h.code = c
              /\ h.identity \in env.issuers
              /\ c.door_id \in env.doors
              /\ now <= h.expires_at + MaxDelay]_vars

\* A process that stopped on ctrl-c had logged every visit it opened and
\* closed: the log's difference is the number of open visits it lost.
StoppedIsReconciled ==
    phase = "stopped" =>
        audit["CheckedIn"] - audit["CheckedOut"] = health.active_visits

\* A code that was handed out is what its door accepts, for its action, up to
\* the very second that its issuer was shown, and then it is told expired:
\* issue and verify compute that second each in its own way.
HandedAreHonoured ==
    \A h \in handed :
        Access!VerifyError(h.code, h.code.door_id, h.code.action, now)
            = IF now <= h.expires_at THEN "none" ELSE "ExpiredQr"

\* Shutdown ends, once no client has a request left to send: every request that
\* reached a handler, before the signal or after it, is let go of by the guard
\* and by the lock.
DrainCompletes == (phase = "draining" /\ arriving = {}) ~> phase = "stopped"
=============================================================================
