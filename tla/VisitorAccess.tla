---------------------------- MODULE VisitorAccess ----------------------------
(***************************************************************************)
(* The visitor service of src/visitor.rs as the handlers of src/main.rs    *)
(* call it: rotating door codes, check-in, check-out, the redemption       *)
(* counters and the visit records behind one tokio RwLock.                 *)
(*                                                                         *)
(* A handler reads the clock, verifies the code against that reading, and  *)
(* only then waits for the write lock; the stretch under the lock is one   *)
(* atomic step.  When it has let go of the lock it logs what it did and    *)
(* answers.  Other calls, and the clock, move on in between.               *)
(*                                                                         *)
(* Abstracted data: a code is the triple its claims carry.  Claims are     *)
(* signed with a keyed hash of their canonical encoding, so a client holds *)
(* exactly the codes that were issued, or something that fails             *)
(* verification (None), and the signature that keys the redemption table   *)
(* stands for the code.  A checkout receipt is random and travels in one   *)
(* response only: the receipt of a visit is named by the visit's           *)
(* identifier, and None is a string that is nobody's receipt.              *)
(* Instants are whole seconds, as in timestamp().                          *)
(***************************************************************************)
EXTENDS QrWindow, FiniteSets

CONSTANTS
    Task,             \* concurrent requests
    Door,             \* the allowlist VISITOR_DOOR_IDS
    OtherDoor,        \* a door identifier outside the allowlist
    VisitId,
    Retention,        \* CLOSED_VISIT_RETENTION_HOURS, in seconds
    MaxActiveVisits, MaxRedemptionsPerCode,
    MaxDelay,         \* longest wait between reading the clock and the lock
    MaxClock,         \* bound of the model: the clock stops here
    None

ASSUME VisitorBounds ==
    /\ Minute \in Nat \ {0}
    /\ Grace \in Nat
    /\ Retention \in Nat
    /\ MaxActiveVisits \in Nat \ {0}
    /\ MaxRedemptionsPerCode \in Nat \ {0}
    /\ MaxDelay \in Nat
    /\ MaxClock \in Nat
    /\ OtherDoor \notin Door

Minutes == 0..MinuteOf(MaxClock)

Code == [door_id: Door, action: VisitorAction, issued_minute: Minutes]

Visit ==
    [display_name: {"name", None}, checked_out_at: 0..MaxClock \cup {None}]

Redemption == [minute: Minutes, count: Nat]

ASSUME VisitorNone ==
    /\ None \notin Code \cup Visit \cup Redemption
    /\ None # "name"
    /\ None \notin VisitId
    /\ None \notin Nat

ASSUME VisitorFinite == IsFiniteSet(VisitId) /\ IsFiniteSet(Task)

VARIABLES
    now,          \* the wall clock
    visits,       \* VisitorState.visits by identifier, or None
    redemptions,  \* VisitorState.redemptions by code, or None
    requests,     \* the requests in progress, or last answered, by task
    audit,        \* the events that visitor_event has logged, by outcome
    created,      \* history: identifiers ever given to a visit
    redeemed,     \* history: successful redemptions of each code
    known         \* history: visits whose receipt reached their visitor

state == <<visits, redemptions>>
history == <<created, redeemed, known>>
vars == <<now, state, requests, audit, history>>

Accepted == {"CheckedIn", "CheckedOut"}

\* A request that waits for the lock, has its outcome and is yet to log it, or
\* is over, with the answer it gave.
Request ==
    [pc: {"idle", "check_in_lock", "check_out_lock", "respond"},
     now: 0..MaxClock, code: Code \cup {None},
     visit_id: VisitId \cup {None}, receipt: VisitId \cup {None},
     answer: {visitor_error(e) : e \in VisitorError} \cup Accepted \cup {"none"}]

Answered(stage, v, answer) ==
    [pc |-> stage, now |-> 0, code |-> None, visit_id |-> v,
     receipt |-> None, answer |-> answer]

Queued(stage, c, v, receipt) ==
    [pc |-> stage, now |-> now, code |-> c, visit_id |-> v,
     receipt |-> receipt, answer |-> "none"]

IdleRequest == Answered("idle", None, "none")

Free(t) == requests[t].pc = "idle"
Waiting(t) == requests[t].pc \in {"check_in_lock", "check_out_lock"}

\* An early return of the service, which the handler maps to its answer.
Refuse(t, error) ==
    requests' = [requests EXCEPT ![t] =
                    Answered("idle", None, visitor_error(error))]

\* What was checked so far is good: wait for the lock.
Await(t, request) == requests' = [requests EXCEPT ![t] = request]

\* The lock is let go of with a receipt to return.
Accept(t, answer, v) ==
    requests' = [requests EXCEPT ![t] = Answered("respond", v, answer)]

Init ==
    /\ now = 0
    /\ visits = [v \in VisitId |-> None]
    /\ redemptions = [c \in Code |-> None]
    /\ requests = [t \in Task |-> IdleRequest]
    /\ audit = [a \in Accepted |-> 0]
    /\ created = {}
    /\ redeemed = [c \in Code |-> 0]
    /\ known = {}

(***************************************************************************)
(* Codes.                                                                  *)
(***************************************************************************)
\* Everything issued up to now may be in a client's hands.
Issued == {Issue(d, a, at) : d \in Door, a \in VisitorAction, at \in 0..now}

validate_door(d) == d \in Door

\* verify, for a request that names door d; "none" when the code is good.
VerifyError(c, d, a, at) ==
    IF ~ validate_door(d) THEN "InvalidDoor"
    ELSE IF c = None THEN "InvalidQr"
    ELSE IF c.door_id # d \/ c.action # a THEN "InvalidQr"
    ELSE IF ~ InWindow(c, at) THEN "ExpiredQr"
    ELSE "none"

\* A handler's call of verify: how it may fail, over the codes and doors that
\* a request may name, and the codes that pass.
VerifyErrors(a, at) ==
    {VerifyError(c, d, a, at) : c \in Issued \cup {None},
                                d \in Door \cup {OtherDoor}} \ {"none"}
GoodCodes(a, at) == {c \in Issued : VerifyError(c, c.door_id, a, at) = "none"}

(***************************************************************************)
(* check_in.                                                               *)
(***************************************************************************)
\* Bound of the model: identifiers are random, and enough of them are left.
VisitSupply ==
    Cardinality(VisitId \ created)
        > Cardinality({t \in Task : requests[t].pc = "check_in_lock"})

\* Up to the write lock: the code, then the privacy notice and the name.
CheckIn(t) ==
    /\ Free(t)
    /\ VisitSupply
    /\ \/ \E e \in VerifyErrors("check-in", now) : Refuse(t, e)
       \/ \E c \in GoodCodes("check-in", now) :
             \/ \E e \in {"NoticeNotAccepted", "InvalidVisitorName"} :
                   Refuse(t, e)
             \/ Await(t, Queued("check_in_lock", c, None, None))
    /\ UNCHANGED <<now, state, audit, history>>

\* Mutant: counters are kept for one previous minute only.
LastMinuteRedemptions(at) ==
    [c \in Code |-> IF /\ redemptions[c] # None
                       /\ redemptions[c].minute >= MinuteOf(at) - 1
                    THEN redemptions[c] ELSE None]

\* redemptions.retain(...): counters of the current and two previous minutes.
RecentRedemptions(at) ==
    [c \in Code |-> IF /\ redemptions[c] # None
                       /\ redemptions[c].minute >= MinuteOf(at) - 2
                    THEN redemptions[c] ELSE None]

\* Mutant: visits without a closing time are not retained.
RetainedClosedVisits(at) ==
    [v \in VisitId |-> IF /\ visits[v] # None
                          /\ visits[v].checked_out_at # None
                          /\ visits[v].checked_out_at >= at - Retention
                       THEN visits[v] ELSE None]

\* visits.retain(...): open visits, and closed ones still within retention.
RetainedVisits(at) ==
    [v \in VisitId |-> IF /\ visits[v] # None
                          /\ \/ visits[v].checked_out_at = None
                             \/ visits[v].checked_out_at >= at - Retention
                       THEN visits[v] ELSE None]

Active(table) ==
    {v \in VisitId : table[v] # None /\ table[v].checked_out_at = None}

active_visit_count == Cardinality(Active(visits))

Exhausted(table, c) ==
    table[c] # None /\ table[c].count >= MaxRedemptionsPerCode

\* Mutant: the cap is off by one.
OverCapacity(table) == Cardinality(Active(table)) > MaxActiveVisits

AtCapacity(table) == Cardinality(Active(table)) >= MaxActiveVisits

Counted(table, c, at) ==
    [table EXCEPT ![c] =
        IF table[c] = None THEN [minute |-> MinuteOf(at), count |-> 1]
        ELSE [minute |-> table[c].minute, count |-> table[c].count + 1]]

\* Mutant: the attempt is counted before there is known to be room.
CountThenRefuse(t, recent, retained) ==
    /\ Refuse(t, "CapacityReached")
    /\ redemptions' = Counted(recent, requests[t].code, requests[t].now)
    /\ visits' = retained

RefuseAtCapacity(t, recent, retained) ==
    /\ Refuse(t, "CapacityReached")
    /\ redemptions' = recent
    /\ visits' = retained

\* Under the write lock.  What was purged stays purged when the check-in is
\* then refused.
AdmitVisitor(t) ==
    LET r == requests[t]
        recent == RecentRedemptions(r.now)
        retained == RetainedVisits(r.now)
    IN  /\ r.pc = "check_in_lock"
        /\ \/ /\ Exhausted(recent, r.code)
              /\ Refuse(t, "RateLimited")
              /\ redemptions' = recent
              /\ UNCHANGED <<visits, created, redeemed>>
           \/ /\ ~ Exhausted(recent, r.code)
              /\ AtCapacity(retained)
              /\ RefuseAtCapacity(t, recent, retained)
              /\ UNCHANGED <<created, redeemed>>
           \/ /\ ~ Exhausted(recent, r.code)
              /\ ~ AtCapacity(retained)
              /\ redemptions' = Counted(recent, r.code, r.now)
              /\ \E v \in VisitId \ created :
                    /\ visits' = [retained EXCEPT ![v] =
                                     [display_name |-> "name",
                                      checked_out_at |-> None]]
                    /\ created' = created \cup {v}
                    /\ Accept(t, "CheckedIn", v)
              /\ redeemed' = [redeemed EXCEPT ![r.code] = @ + 1]
        /\ UNCHANGED <<now, audit, known>>

(***************************************************************************)
(* check_out.                                                              *)
(***************************************************************************)
\* Up to the write lock: the code, then the size of the receipt.  A client
\* may name any visit, and presents a receipt that reached a visitor, or a
\* made-up one.
CheckOut(t) ==
    /\ Free(t)
    /\ \/ \E e \in VerifyErrors("check-out", now) : Refuse(t, e)
       \/ \E c \in GoodCodes("check-out", now), v \in created :
             \/ Refuse(t, "InvalidReceipt")
             \/ \E receipt \in known \cup {None} :
                   Await(t, Queued("check_out_lock", c, v, receipt))
    /\ UNCHANGED <<now, state, audit, history>>

\* Mutant: a second check-out closes the visit again.
CheckOutErrorReopened(v, receipt) ==
    IF visits[v] = None THEN "VisitNotFound"
    ELSE IF receipt # v THEN "InvalidReceipt"
    ELSE "none"

\* Mutant: knowing the identifier of a visit is enough to close it.
CheckOutErrorAnyReceipt(v, receipt) ==
    IF visits[v] = None THEN "VisitNotFound"
    ELSE IF visits[v].checked_out_at # None THEN "AlreadyCheckedOut"
    ELSE "none"

\* The checks under the write lock, in the code's order.
CheckOutError(v, receipt) ==
    IF visits[v] = None THEN "VisitNotFound"
    ELSE IF visits[v].checked_out_at # None THEN "AlreadyCheckedOut"
    ELSE IF receipt # v THEN "InvalidReceipt"
    ELSE "none"

\* Mutant: the name is not erased.
ClosedWithName(at) == [display_name |-> "name", checked_out_at |-> at]

Closed(at) == [display_name |-> None, checked_out_at |-> at]

\* Mutant: the request goes on waiting for a visit it could close.
WaitForVisit(t, e) == FALSE

RefuseCheckOut(t, e) ==
    /\ Refuse(t, e)
    /\ UNCHANGED <<visits, redeemed>>

CloseVisit(t) ==
    LET r == requests[t]
        refusal == CheckOutError(r.visit_id, r.receipt)
    IN  /\ r.pc = "check_out_lock"
        /\ \/ /\ refusal # "none"
              /\ RefuseCheckOut(t, refusal)
           \/ /\ refusal = "none"
              /\ visits' = [visits EXCEPT ![r.visit_id] = Closed(r.now)]
              /\ redeemed' = [redeemed EXCEPT ![r.code] = @ + 1]
              /\ Accept(t, "CheckedOut", r.visit_id)
        /\ UNCHANGED <<now, redemptions, audit, created, known>>

\* Mutant: the answer goes out first, and the event is logged behind it.
RespondThenLog(t) ==
    LET r == requests[t]
    IN  /\ \/ /\ r.pc = "respond"
              /\ known' = known \cup {r.visit_id}
              /\ requests' = [requests EXCEPT ![t].pc = "log"]
              /\ audit' = audit
           \/ /\ r.pc = "log"
              /\ audit' = [audit EXCEPT ![r.answer] = @ + 1]
              /\ requests' = [requests EXCEPT ![t] = IdleRequest]
              /\ known' = known
        /\ UNCHANGED <<now, state, created, redeemed>>

\* visitor_event, then the answer, which may be lost on its way.  No await
\* separates them from the lock, so the handler cannot be dropped here; the
\* only transport of the log is a closure that writes and always succeeds.
Respond(t) ==
    LET r == requests[t]
    IN  /\ r.pc = "respond"
        /\ audit' = [audit EXCEPT ![r.answer] = @ + 1]
        /\ \/ known' = known \cup {r.visit_id}
           \/ known' = known
        /\ requests' = [requests EXCEPT ![t] = Answered("idle", None, r.answer)]
        /\ UNCHANGED <<now, state, created, redeemed>>

\* The client disconnects and the server drops a handler that awaits the
\* lock, the only await of either handler.
Abandon(t) ==
    /\ Waiting(t)
    /\ requests' = [requests EXCEPT ![t] = IdleRequest]
    /\ UNCHANGED <<now, state, audit, history>>

(***************************************************************************)
(* The service.                                                            *)
(***************************************************************************)
\* The lock is only ever held for a short computation: a request that waits
\* for it gets it within MaxDelay seconds of reading the clock.
Tick ==
    /\ now < MaxClock
    /\ \A t \in Task : Waiting(t) => now - requests[t].now < MaxDelay
    /\ now' = now + 1
    /\ UNCHANGED <<state, requests, audit, history>>

Begin(t) == CheckIn(t) \/ CheckOut(t)

Step(t) == AdmitVisitor(t) \/ CloseVisit(t) \/ Respond(t)

Next == Tick \/ \E t \in Task : Begin(t) \/ Step(t) \/ Abandon(t)

Spec == Init /\ [][Next]_vars

(***************************************************************************)
(* Properties.                                                             *)
(***************************************************************************)
\* Types; a display name is kept exactly as long as its visit is open.
TypeOK ==
    /\ now \in 0..MaxClock
    /\ visits \in [VisitId -> Visit \cup {None}]
    /\ \A v \in VisitId : visits[v] # None =>
          (visits[v].display_name = None <=> visits[v].checked_out_at # None)
    /\ redemptions \in [Code -> Redemption \cup {None}]
    /\ requests \in [Task -> Request]
    /\ created \subseteq VisitId
    /\ audit \in [Accepted -> Nat]
    /\ redeemed \in [Code -> Nat]
    /\ known \subseteq created

\* No more than MaxRedemptionsPerCode check-ins ever succeed with one code:
\* by the time its counter is purged, no request that read the clock inside
\* the code's window can still be waiting for the lock.
CheckInLimit ==
    \A c \in Code : c.action = "check-in" => redeemed[c] <= MaxRedemptionsPerCode

\* The counter of a code, while it is kept, equals the number of check-ins that
\* succeeded with it: refused attempts never use up redemptions, and no
\* counter is ever restarted.
CountersExact ==
    \A c \in Code : redemptions[c] # None => redemptions[c].count = redeemed[c]

\* At most MaxActiveVisits visitors are inside, by the count health reports.
ActiveWithinCapacity == active_visit_count <= MaxActiveVisits

\* What one step may do to visit v: nothing, open it, close it, or forget it.
LifecycleStep(v) ==
    \/ visits'[v] = visits[v]
    \/ /\ visits[v] = None
       /\ v \notin created
       /\ visits'[v] = [display_name |-> "name", checked_out_at |-> None]
    \/ /\ visits[v] # None
       /\ visits[v].checked_out_at = None
       /\ visits'[v] # None
       /\ visits'[v].display_name = None
       /\ visits'[v].checked_out_at # None
    \/ /\ visits[v] # None
       /\ visits[v].checked_out_at # None
       /\ visits'[v] = None
       /\ visits[v].checked_out_at + Retention < now

\* The life of a visit: it opens with a name, it may be closed once, which
\* erases the name and fixes the time, and it disappears only when it has been
\* closed for longer than the retention period.  No open visit is evicted.
VisitLifecycle == [][\A v \in VisitId : LifecycleStep(v)]_vars

\* A visit is closed only with the receipt its visitor was sent.  One whose
\* response was lost on the way is therefore never closed, nor evicted: it
\* holds its place for good.
UndeliveredStaysOpen == created \ known \subseteq Active(visits)

Unlogged(answer) ==
    Cardinality({t \in Task : requests[t].pc = "respond"
                                  /\ requests[t].answer = answer})

\* The log accounts for everyone inside: check-ins minus check-outs, those
\* between the lock and the log included, is the count health reports.
LogReconciles ==
    active_visit_count = (audit["CheckedIn"] + Unlogged("CheckedIn"))
                             - (audit["CheckedOut"] + Unlogged("CheckedOut"))

\* Although the event is logged after the lock is let go of, no prefix of the
\* log has more check-outs than check-ins: the receipt leaves after the log.
LogOrdered == audit["CheckedOut"] <= audit["CheckedIn"]

\* Every code is limited to MaxRedemptionsPerCode successful redemptions, for
\* either action.
RedemptionLimit == \A c \in Code : redeemed[c] <= MaxRedemptionsPerCode

CheckInCode == {c \in Code : c.action = "check-in"}

\* The abstract register: what is purged when, what is counted where and when
\* the clock was read do not show.
Register == INSTANCE VisitRegister WITH
    Code <- CheckInCode,
    open <- Active(visits),
    closed <- created \ Active(visits),
    held <- known,
    used <- [c \in CheckInCode |-> redeemed[c]]

\* The service implements the abstract register of visits.
ImplementsRegister == Register!Spec
=============================================================================
