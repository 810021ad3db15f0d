------------------------ MODULE VisitorAccessProofs ------------------------
(***************************************************************************)
(* Safety of the visitor service, for any number of requests, doors and    *)
(* visits and any values of the caps, of the retention and of the delay.   *)
(***************************************************************************)
EXTENDS VisitorAccess, FiniteSetTheorems, TLAPS

(***************************************************************************)
(* The inductive invariant.                                                *)
(***************************************************************************)
\* A request that waits for the lock read the clock at most MaxDelay ago.
InTime(r) == r.now <= now /\ now <= r.now + MaxDelay

\* What it was let through with.
CheckInReady(r) ==
    /\ r.code \in CheckInCode
    /\ InWindow(r.code, r.now)

CheckOutReady(r) ==
    /\ r.code \in Code /\ r.code.action = "check-out"
    /\ r.visit_id \in created
    /\ r.receipt \in known \cup {None}

\* What it is about to answer: a receipt on its way to the visitor is in
\* nobody's hands yet, and a visit is closed by a visitor who has it.
OutcomeSound(r) ==
    /\ r.answer \in Accepted
    /\ r.visit_id \in created
    /\ r.answer = "CheckedIn" <=> r.visit_id \notin known

Coherent(r) ==
    /\ r.pc = "check_in_lock" => InTime(r) /\ CheckInReady(r)
    /\ r.pc = "check_out_lock" => InTime(r) /\ CheckOutReady(r)
    /\ r.pc = "respond" => OutcomeSound(r)

Responders(answer) ==
    {t \in Task : requests[t].pc = "respond" /\ requests[t].answer = answer}

\* Two receipts on their way belong to different visits.
ReceiptsDistinct ==
    \A t, u \in Responders("CheckedIn") :
        requests[t].visit_id = requests[u].visit_id => t = u

VisitsCreated == \A v \in VisitId : visits[v] # None => v \in created

VisitInv ==
    /\ TypeOK
    /\ \A t \in Task : Coherent(requests[t])
    /\ ReceiptsDistinct
    /\ VisitsCreated
    /\ UndeliveredStaysOpen

\* The books: every check-in is logged or about to be, and a receipt reaches
\* its visitor only after its event was logged.
LogInv ==
    /\ LogReconciles
    /\ Cardinality(created) = audit["CheckedIn"] + Unlogged("CheckedIn")
    /\ Cardinality(known) <= audit["CheckedIn"]

\* A request that read the clock inside the window of its code gets the lock
\* before two full minutes have passed since the code's own minute.
DelayBounded == Grace + MaxDelay < 2 * Minute

\* A counter that is kept is exact; one that is not was never started, or its
\* code is too old for any request that still waits for the lock.
CounterSound(c) ==
    /\ redemptions[c] # None =>
          /\ c.action = "check-in"
          /\ c.issued_minute <= redemptions[c].minute
          /\ redemptions[c].count = redeemed[c]
    /\ redemptions[c] = None /\ c.action = "check-in" =>
          redeemed[c] = 0 \/ (c.issued_minute + 3) * Minute <= now
    /\ c.action = "check-in" => redeemed[c] <= MaxRedemptionsPerCode

CounterInv == \A c \in Code : CounterSound(c)

(***************************************************************************)
(* Minutes.                                                                *)
(***************************************************************************)
\* Whole minutes: the one that at falls into, and those that have begun by at.
LEMMA MinuteBounds ==
    ASSUME NEW at \in Nat
    PROVE  /\ MinuteOf(at) \in Nat
           /\ MinuteOf(at) * Minute <= at
           /\ \A k \in Nat : k * Minute <= at => k <= MinuteOf(at)
           /\ \A k \in Nat : k <= MinuteOf(at) => k * Minute <= at
<1>1. Minute \in Nat \ {0}
  BY VisitorBounds
<1>2. MinuteOf(at) \in Nat /\ MinuteOf(at) * Minute <= at
  BY <1>1 DEF MinuteOf
<1>3. ASSUME NEW k \in Nat, k * Minute <= at PROVE k <= MinuteOf(at)
  BY <1>1, <1>3 DEF MinuteOf
<1>4. ASSUME NEW k \in Nat, k <= MinuteOf(at) PROVE k * Minute <= at
  BY <1>1, <1>4 DEF MinuteOf
<1> QED
  BY <1>2, <1>3, <1>4

\* The minute of an instant the clock can show.
LEMMA MinuteType ==
    ASSUME NEW at \in 0..MaxClock
    PROVE  MinuteOf(at) \in Minutes
<1>1. at \in Nat /\ MaxClock \in Nat /\ at <= MaxClock
  BY VisitorBounds
<1>2. MinuteOf(at) * Minute <= MaxClock /\ MinuteOf(at) \in Nat
  <2>1. MinuteOf(at) \in Nat /\ MinuteOf(at) * Minute <= at
    BY <1>1, MinuteBounds
  <2>2. MinuteOf(at) * Minute \in Nat
    BY <2>1, VisitorBounds
  <2> QED
    BY <1>1, <2>1, <2>2
<1>3. MinuteOf(at) <= MinuteOf(MaxClock) /\ MinuteOf(MaxClock) \in Nat
  BY <1>1, <1>2, MinuteBounds
<1> QED
  BY <1>2, <1>3 DEF Minutes

(***************************************************************************)
(* Codes and requests.                                                     *)
(***************************************************************************)
\* What verify refuses with is an error of the service.
LEMMA VerifyErrorsType ==
    ASSUME NEW a, NEW at
    PROVE  VerifyErrors(a, at) \subseteq VisitorError
BY DEF VerifyErrors, VerifyError, VisitorError

\* What verify lets through at the present instant is a code for the action,
\* inside its window.
LEMMA GoodCodesType ==
    ASSUME now \in 0..MaxClock, NEW a, NEW c \in GoodCodes(a, now)
    PROVE  c \in Code /\ c.action = a /\ InWindow(c, now)
<1>1. PICK d \in Door, b \in VisitorAction, at \in 0..now : c = Issue(d, b, at)
  BY DEF GoodCodes, Issued
<1>2. at \in 0..MaxClock
  BY VisitorBounds
<1>3. c \in Code
  BY <1>1, <1>2, MinuteType DEF Issue, Code
<1>4. VerifyError(c, c.door_id, a, now) = "none"
  BY DEF GoodCodes
<1> QED
  BY <1>3, <1>4 DEF VerifyError

\* The records that requests become.
LEMMA AnsweredType ==
    ASSUME NEW stage \in {"idle", "respond"}, NEW v \in VisitId \cup {None},
           NEW answer \in {visitor_error(e) : e \in VisitorError}
                              \cup Accepted \cup {"none"}
    PROVE  Answered(stage, v, answer) \in Request
BY VisitorBounds DEF Answered, Request

\* A request that waits for the lock.
LEMMA QueuedType ==
    ASSUME now \in 0..MaxClock,
           NEW stage \in {"check_in_lock", "check_out_lock"},
           NEW c \in Code, NEW v \in VisitId \cup {None},
           NEW receipt \in VisitId \cup {None}
    PROVE  Queued(stage, c, v, receipt) \in Request
BY DEF Queued, Request

\* One request becomes q; the others stay coherent as long as the clock
\* stands still and no receipt of theirs gets into anyone's hands.
LEMMA ReplaceRequest ==
    ASSUME VisitInv,
           NEW t \in Task, NEW q \in Request,
           requests' = [requests EXCEPT ![t] = q],
           now' = now, created \subseteq created', known \subseteq known',
           \A u \in Task \ {t} : requests[u].pc = "respond" =>
              /\ requests[u].visit_id \in known' => requests[u].visit_id \in known
              /\ q.pc = "respond" /\ q.answer = "CheckedIn"
                    => requests[u].visit_id # q.visit_id,
           Coherent(q)'
    PROVE  /\ requests' \in [Task -> Request]
           /\ (\A u \in Task : Coherent(requests[u]))'
           /\ ReceiptsDistinct'
<1>1. requests \in [Task -> Request]
  BY DEF VisitInv, TypeOK
<1>2. requests' \in [Task -> Request]
  BY <1>1
<1>3. \A u \in Task : requests'[u] = IF u = t THEN q ELSE requests[u]
  BY <1>1
<1>4. ASSUME NEW u \in Task PROVE Coherent(requests[u])'
  <2>1. CASE u = t
    BY <2>1, <1>3
       DEF Coherent, InTime, CheckInReady, CheckOutReady, OutcomeSound
  <2>2. CASE u # t
    <3>1. requests'[u] = requests[u] /\ Coherent(requests[u])
      BY <2>2, <1>3 DEF VisitInv
    <3> QED
      BY <3>1, <2>2
         DEF Coherent, InTime, CheckInReady, CheckOutReady, OutcomeSound
  <2> QED
    BY <2>1, <2>2
<1>5. ReceiptsDistinct'
  <2>1. ReceiptsDistinct
    BY DEF VisitInv
  <2> QED
    BY <2>1, <1>3 DEF ReceiptsDistinct, Responders
<1> QED
  BY <1>2, <1>4, <1>5

\* The invariant, of a step that refuses or drops request t and leaves the
\* records alone.
LEMMA OverStep ==
    ASSUME VisitInv, NEW t \in Task,
           NEW answer \in {visitor_error(e) : e \in VisitorError} \cup {"none"},
           requests' = [requests EXCEPT ![t] = Answered("idle", None, answer)],
           now' = now, created' = created, known' = known
    PROVE  /\ requests' \in [Task -> Request]
           /\ (\A u \in Task : Coherent(requests[u]))'
           /\ ReceiptsDistinct'
<1> DEFINE q == Answered("idle", None, answer)
<1>1. q \in Request
  BY AnsweredType
<1>2. q.pc = "idle"
  BY DEF Answered
<1>3. Coherent(q)'
  BY <1>2 DEF Coherent
<1>4. \A u \in Task \ {t} : requests[u].pc = "respond" =>
         /\ requests[u].visit_id \in known' => requests[u].visit_id \in known
         /\ q.pc = "respond" /\ q.answer = "CheckedIn"
               => requests[u].visit_id # q.visit_id
  BY <1>2
<1> HIDE DEF q
<1>5. requests' = [requests EXCEPT ![t] = q]
  BY DEF q
<1> QED
  BY <1>1, <1>3, <1>4, <1>5, ReplaceRequest

\* Refuse is such a step.
LEMMA RefuseStep ==
    ASSUME VisitInv, NEW t \in Task, NEW e \in VisitorError, Refuse(t, e),
           now' = now, created' = created, known' = known
    PROVE  /\ requests' \in [Task -> Request]
           /\ (\A u \in Task : Coherent(requests[u]))'
           /\ ReceiptsDistinct'
<1>1. visitor_error(e) \in {visitor_error(f) : f \in VisitorError} \cup {"none"}
  OBVIOUS
<1> QED
  BY <1>1, OverStep DEF Refuse

\* The parts of the invariant that do not mention requests follow their
\* variables.
LEMMA RecordsKept ==
    ASSUME VisitInv, visits' = visits, created' = created, known' = known
    PROVE  /\ VisitsCreated'
           /\ UndeliveredStaysOpen'
BY DEF VisitInv, VisitsCreated, UndeliveredStaysOpen, Active

\* A step that touches nothing but the requests.
LEMMA RequestsOnly ==
    ASSUME VisitInv, UNCHANGED <<now, state, audit, history>>,
           requests' \in [Task -> Request],
           (\A u \in Task : Coherent(requests[u]))',
           ReceiptsDistinct'
    PROVE  VisitInv'
<1>1. VisitsCreated' /\ UndeliveredStaysOpen'
  BY RecordsKept DEF state, history
<1>2. TypeOK'
  BY DEF VisitInv, TypeOK, state, history
<1> QED
  BY <1>1, <1>2 DEF VisitInv

\* A code let through at the present instant makes a coherent request.
LEMMA AwaitStep ==
    ASSUME VisitInv, NEW t \in Task, NEW q \in Request, Await(t, q),
           q.pc # "respond",
           now' = now, created' = created, known' = known, Coherent(q)
    PROVE  /\ requests' \in [Task -> Request]
           /\ (\A u \in Task : Coherent(requests[u]))'
           /\ ReceiptsDistinct'
<1>1. Coherent(q)'
  BY DEF Coherent, InTime, CheckInReady, CheckOutReady, OutcomeSound
<1> QED
  BY <1>1, ReplaceRequest DEF Await

(***************************************************************************)
(* The invariant, action by action.                                        *)
(***************************************************************************)
\* CheckIn, up to the lock.
LEMMA CheckInStep ==
    ASSUME VisitInv, NEW t \in Task, CheckIn(t)
    PROVE  VisitInv'
<1>1. now \in 0..MaxClock
  BY DEF VisitInv, TypeOK
<1>2. now' = now /\ created' = created /\ known' = known
      /\ UNCHANGED <<now, state, audit, history>>
  BY DEF CheckIn, history
<1>3. ASSUME NEW e \in VisitorError, Refuse(t, e) PROVE VisitInv'
  BY <1>2, <1>3, RefuseStep, RequestsOnly
<1>4. ASSUME NEW c \in GoodCodes("check-in", now),
             Await(t, Queued("check_in_lock", c, None, None))
      PROVE  VisitInv'
  <2> DEFINE q == Queued("check_in_lock", c, None, None)
  <2>1. c \in Code /\ c.action = "check-in" /\ InWindow(c, now)
    BY <1>1, GoodCodesType
  <2>2. q \in Request
    BY <1>1, <2>1, QueuedType
  <2>3. Coherent(q) /\ q.pc # "respond"
    BY <1>1, <2>1, VisitorBounds
       DEF Queued, Coherent, InTime, CheckInReady, CheckInCode
  <2> HIDE DEF q
  <2>4. Await(t, q)
    BY <1>4 DEF q
  <2> QED
    BY <1>2, <2>2, <2>3, <2>4, AwaitStep, RequestsOnly
<1>5. {"NoticeNotAccepted", "InvalidVisitorName"} \subseteq VisitorError
  BY DEF VisitorError
<1>6. \/ \E e \in VisitorError : Refuse(t, e)
      \/ \E c \in GoodCodes("check-in", now) :
            Await(t, Queued("check_in_lock", c, None, None))
  BY <1>5, VerifyErrorsType DEF CheckIn
<1> QED
  BY <1>3, <1>4, <1>6

\* CheckOut, up to the lock.
LEMMA CheckOutStep ==
    ASSUME VisitInv, NEW t \in Task, CheckOut(t)
    PROVE  VisitInv'
<1>1. now \in 0..MaxClock /\ created \subseteq VisitId /\ known \subseteq created
  BY DEF VisitInv, TypeOK
<1>2. now' = now /\ created' = created /\ known' = known
      /\ UNCHANGED <<now, state, audit, history>>
  BY DEF CheckOut, history
<1>3. ASSUME NEW e \in VisitorError, Refuse(t, e) PROVE VisitInv'
  BY <1>2, <1>3, RefuseStep, RequestsOnly
<1>4. ASSUME NEW c \in GoodCodes("check-out", now), NEW v \in created,
             NEW receipt \in known \cup {None},
             Await(t, Queued("check_out_lock", c, v, receipt))
      PROVE  VisitInv'
  <2> DEFINE q == Queued("check_out_lock", c, v, receipt)
  <2>1. c \in Code /\ c.action = "check-out" /\ InWindow(c, now)
    BY <1>1, GoodCodesType
  <2>2. q \in Request
    BY <1>1, <2>1, QueuedType
  <2>3. Coherent(q) /\ q.pc # "respond"
    BY <1>1, <2>1, VisitorBounds DEF Queued, Coherent, InTime, CheckOutReady
  <2> HIDE DEF q
  <2>4. Await(t, q)
    BY <1>4 DEF q
  <2> QED
    BY <1>2, <2>2, <2>3, <2>4, AwaitStep, RequestsOnly
<1>5. "InvalidReceipt" \in VisitorError
  BY DEF VisitorError
<1>6. \/ \E e \in VisitorError : Refuse(t, e)
      \/ \E c \in GoodCodes("check-out", now), v \in created,
            receipt \in known \cup {None} :
               Await(t, Queued("check_out_lock", c, v, receipt))
  BY <1>5, VerifyErrorsType DEF CheckOut
<1> QED
  BY <1>3, <1>4, <1>6

\* The two purges keep the types, drop nothing but what they may, and never
\* change who is inside.
LEMMA Purge ==
    ASSUME TypeOK, NEW at \in 0..MaxClock
    PROVE  /\ RecentRedemptions(at) \in [Code -> Redemption \cup {None}]
           /\ RetainedVisits(at) \in [VisitId -> Visit \cup {None}]
           /\ \A v \in VisitId :
                 \/ RetainedVisits(at)[v] = visits[v]
                 \/ /\ visits[v] # None
                    /\ visits[v].checked_out_at # None
                    /\ visits[v].checked_out_at + Retention < at
                    /\ RetainedVisits(at)[v] = None
           /\ Active(RetainedVisits(at)) = Active(visits)
<1>1. RecentRedemptions(at) \in [Code -> Redemption \cup {None}]
  BY DEF TypeOK, RecentRedemptions
<1>2. RetainedVisits(at) \in [VisitId -> Visit \cup {None}]
  BY DEF TypeOK, RetainedVisits
<1>3. ASSUME NEW v \in VisitId, RetainedVisits(at)[v] # visits[v]
      PROVE  /\ visits[v] # None
             /\ visits[v].checked_out_at # None
             /\ visits[v].checked_out_at + Retention < at
             /\ RetainedVisits(at)[v] = None
  <2>1. visits[v] # None /\ visits[v] \in Visit
    BY <1>3 DEF TypeOK, RetainedVisits
  <2>2. /\ visits[v].checked_out_at # None
        /\ ~ (visits[v].checked_out_at >= at - Retention)
        /\ RetainedVisits(at)[v] = None
    BY <1>3, <2>1 DEF RetainedVisits
  <2>3. visits[v].checked_out_at \in 0..MaxClock
    BY <2>1, <2>2 DEF Visit
  <2> QED
    BY <2>1, <2>2, <2>3, VisitorBounds
<1>4. Active(RetainedVisits(at)) = Active(visits)
  BY <1>3 DEF Active
<1> QED
  BY <1>1, <1>2, <1>3, <1>4

\* What happens under the lock, told apart by its outcome.
AdmitRefused(t) ==
    /\ requests[t].pc = "check_in_lock"
    /\ \E e \in VisitorError : Refuse(t, e)
    /\ redemptions' = RecentRedemptions(requests[t].now)
    /\ visits' = visits \/ visits' = RetainedVisits(requests[t].now)
    /\ UNCHANGED <<now, audit, history>>

Admitted(t, v) ==
    LET r == requests[t] IN
    /\ r.pc = "check_in_lock"
    /\ ~ Exhausted(RecentRedemptions(r.now), r.code)
    /\ ~ AtCapacity(RetainedVisits(r.now))
    /\ v \in VisitId \ created
    /\ redemptions' = Counted(RecentRedemptions(r.now), r.code, r.now)
    /\ visits' = [RetainedVisits(r.now) EXCEPT ![v] =
                     [display_name |-> "name", checked_out_at |-> None]]
    /\ created' = created \cup {v}
    /\ redeemed' = [redeemed EXCEPT ![r.code] = @ + 1]
    /\ requests' = [requests EXCEPT ![t] = Answered("respond", v, "CheckedIn")]
    /\ UNCHANGED <<now, audit, known>>

CloseRefused(t) ==
    /\ requests[t].pc = "check_out_lock"
    /\ \E e \in VisitorError : Refuse(t, e)
    /\ UNCHANGED <<now, state, audit, history>>

VisitClosed(t, v) ==
    LET r == requests[t] IN
    /\ r.pc = "check_out_lock"
    /\ v = r.visit_id
    /\ v \in Active(visits) \cap known
    /\ visits' = [visits EXCEPT ![v] = Closed(r.now)]
    /\ redeemed' = [redeemed EXCEPT ![r.code] = @ + 1]
    /\ requests' = [requests EXCEPT ![t] = Answered("respond", v, "CheckedOut")]
    /\ UNCHANGED <<now, redemptions, audit, created, known>>

\* AdmitVisitor refuses, or admits a visitor under a fresh identifier.
LEMMA AdmitForms ==
    ASSUME NEW t \in Task, AdmitVisitor(t)
    PROVE  AdmitRefused(t) \/ \E v \in VisitId \ created : Admitted(t, v)
<1>1. {"RateLimited", "CapacityReached"} \subseteq VisitorError
  BY DEF VisitorError
<1> QED
  BY <1>1
     DEF AdmitVisitor, RefuseAtCapacity, Accept, AdmitRefused, Admitted, history

\* CloseVisit refuses, or closes an open visit whose receipt is in its
\* visitor's hands.
LEMMA CloseForms ==
    ASSUME VisitInv, NEW t \in Task, CloseVisit(t)
    PROVE  CloseRefused(t) \/ \E v \in VisitId : VisitClosed(t, v)
<1> DEFINE r == requests[t]
           refusal == CheckOutError(r.visit_id, r.receipt)
<1>1. /\ r.pc = "check_out_lock"
      /\ r.visit_id \in created /\ r.visit_id \in VisitId
      /\ r.receipt \in known \cup {None}
  BY DEF CloseVisit, VisitInv, TypeOK, Coherent, CheckOutReady
<1>2. CASE refusal # "none"
  <2>1. refusal \in VisitorError
    BY <1>2 DEF CheckOutError, VisitorError
  <2> QED
    BY <1>2, <2>1 DEF CloseVisit, RefuseCheckOut, CloseRefused, state, history
<1>3. CASE refusal = "none"
  <2>1. /\ visits[r.visit_id] # None
        /\ visits[r.visit_id].checked_out_at = None
        /\ r.receipt = r.visit_id
    BY <1>3 DEF CheckOutError
  <2>2. r.visit_id \in Active(visits) \cap known
    BY <1>1, <2>1, VisitorNone DEF Active
  <2>3. VisitClosed(t, r.visit_id)
    BY <1>1, <1>3, <2>2 DEF CloseVisit, Accept, VisitClosed
  <2> QED
    BY <1>1, <2>3
<1> QED
  BY <1>2, <1>3

\* A refused check-in has purged.
LEMMA AdmitRefusedStep ==
    ASSUME VisitInv, NEW t \in Task, AdmitRefused(t)
    PROVE  VisitInv'
<1>1. /\ UNCHANGED <<now, audit, created, redeemed, known>>
      /\ TypeOK
  BY DEF AdmitRefused, VisitInv, history
<1>2. requests[t].now \in 0..MaxClock
  BY <1>1 DEF TypeOK, Request
<1>3. /\ requests' \in [Task -> Request]
      /\ (\A u \in Task : Coherent(requests[u]))'
      /\ ReceiptsDistinct'
  BY <1>1, RefuseStep DEF AdmitRefused
<1>4. /\ redemptions' \in [Code -> Redemption \cup {None}]
      /\ visits' \in [VisitId -> Visit \cup {None}]
      /\ \A v \in VisitId : visits'[v] = visits[v] \/ visits'[v] = None
      /\ Active(visits') = Active(visits)
  BY <1>1, <1>2, Purge DEF AdmitRefused, TypeOK
<1>5. TypeOK'
  BY <1>1, <1>3, <1>4 DEF TypeOK
<1>6. VisitsCreated'
  BY <1>1, <1>4 DEF VisitInv, VisitsCreated
<1>7. UndeliveredStaysOpen'
  BY <1>1, <1>4 DEF VisitInv, UndeliveredStaysOpen
<1> QED
  BY <1>3, <1>5, <1>6, <1>7 DEF VisitInv

\* A visitor is admitted: the receipt is on its way.
LEMMA AdmittedStep ==
    ASSUME VisitInv, NEW t \in Task, NEW v \in VisitId \ created, Admitted(t, v)
    PROVE  VisitInv'
<1> DEFINE r == requests[t]
           opened == [display_name |-> "name", checked_out_at |-> None]
           q == Answered("respond", v, "CheckedIn")
<1>1. /\ UNCHANGED <<now, audit, known>>
      /\ created' = created \cup {v}
      /\ TypeOK
  BY DEF Admitted, VisitInv
<1>2. r \in Request /\ r.now \in 0..MaxClock /\ r.code \in Code
  BY DEF Admitted, VisitInv, TypeOK, Request, Coherent, CheckInReady, CheckInCode
<1>3. /\ requests' \in [Task -> Request]
      /\ (\A u \in Task : Coherent(requests[u]))'
      /\ ReceiptsDistinct'
  <2>1. q \in Request
    BY AnsweredType DEF Accepted
  <2>2. q.pc = "respond" /\ q.answer = "CheckedIn" /\ q.visit_id = v
    BY DEF Answered
  <2>3. Coherent(q)'
    BY <1>1, <2>2 DEF Coherent, OutcomeSound, Accepted, TypeOK
  <2>4. \A u \in Task \ {t} : requests[u].pc = "respond" =>
           requests[u].visit_id \in created
    BY DEF VisitInv, Coherent, OutcomeSound
  <2> HIDE DEF q
  <2>5. requests' = [requests EXCEPT ![t] = q]
    BY DEF Admitted, q
  <2> QED
    BY <1>1, <2>1, <2>2, <2>3, <2>4, <2>5, ReplaceRequest
<1>4. /\ redemptions' \in [Code -> Redemption \cup {None}]
      /\ redeemed' \in [Code -> Nat]
  <2>1. RecentRedemptions(r.now) \in [Code -> Redemption \cup {None}]
    BY <1>1, <1>2, Purge
  <2>2. MinuteOf(r.now) \in Minutes
    BY <1>2, MinuteType
  <2>3. [minute |-> MinuteOf(r.now), count |-> 1] \in Redemption
    BY <2>2 DEF Redemption
  <2>4. ASSUME RecentRedemptions(r.now)[r.code] # None
        PROVE  [minute |-> RecentRedemptions(r.now)[r.code].minute,
                count |-> RecentRedemptions(r.now)[r.code].count + 1]
                   \in Redemption
    BY <1>2, <2>1, <2>4 DEF Redemption
  <2>5. Counted(RecentRedemptions(r.now), r.code, r.now)
            \in [Code -> Redemption \cup {None}]
    BY <2>1, <2>3, <2>4 DEF Counted
  <2> QED
    BY <1>1, <1>2, <2>5 DEF Admitted, TypeOK
<1>5. /\ visits' \in [VisitId -> Visit \cup {None}]
      /\ visits'[v] = opened
      /\ \A w \in VisitId \ {v} : visits'[w] = visits[w] \/ visits'[w] = None
      /\ Active(visits') = Active(visits) \cup {v}
  <2>1. opened \in Visit /\ opened # None
    BY VisitorNone DEF Visit
  <2> QED
    BY <1>1, <1>2, <2>1, Purge DEF Admitted, Active
<1>6. TypeOK'
  BY <1>1, <1>3, <1>4, <1>5, VisitorNone DEF TypeOK
<1>7. VisitsCreated'
  BY <1>1, <1>5 DEF VisitInv, VisitsCreated
<1>8. UndeliveredStaysOpen'
  BY <1>1, <1>5 DEF VisitInv, UndeliveredStaysOpen
<1> QED
  BY <1>3, <1>6, <1>7, <1>8 DEF VisitInv

\* A visitor leaves.
LEMMA VisitClosedStep ==
    ASSUME VisitInv, NEW t \in Task, NEW v \in VisitId, VisitClosed(t, v)
    PROVE  VisitInv'
<1> DEFINE r == requests[t]
           q == Answered("respond", v, "CheckedOut")
<1>1. /\ UNCHANGED <<now, redemptions, audit, created, known>>
      /\ TypeOK
      /\ v \in Active(visits) /\ v \in known /\ v \in created
  BY DEF VisitClosed, VisitInv, TypeOK
<1>2. r \in Request /\ r.now \in 0..MaxClock /\ r.code \in Code
  BY DEF VisitClosed, VisitInv, TypeOK, Request, Coherent, CheckOutReady
<1>3. /\ requests' \in [Task -> Request]
      /\ (\A u \in Task : Coherent(requests[u]))'
      /\ ReceiptsDistinct'
  <2>1. q \in Request
    BY AnsweredType DEF Accepted
  <2>2. q.pc = "respond" /\ q.answer = "CheckedOut" /\ q.visit_id = v
    BY DEF Answered
  <2>3. Coherent(q)'
    BY <1>1, <2>2 DEF Coherent, OutcomeSound, Accepted
  <2> HIDE DEF q
  <2>4. requests' = [requests EXCEPT ![t] = q]
    BY DEF VisitClosed, q
  <2> QED
    BY <1>1, <2>1, <2>2, <2>3, <2>4, ReplaceRequest
<1>4. redeemed' \in [Code -> Nat]
  BY <1>1, <1>2 DEF VisitClosed, TypeOK
<1>5. Closed(r.now) \in Visit /\ Closed(r.now) # None
  BY <1>2, VisitorNone DEF Closed, Visit
<1>6. /\ visits' \in [VisitId -> Visit \cup {None}]
      /\ \A w \in VisitId :
            visits'[w] = IF w = v THEN Closed(r.now) ELSE visits[w]
  BY <1>1, <1>5 DEF VisitClosed, TypeOK
<1>7. r.now # None
  BY <1>2, VisitorNone, VisitorBounds
<1>8. TypeOK'
  BY <1>1, <1>3, <1>4, <1>6, <1>7 DEF TypeOK, Closed
<1>9. VisitsCreated'
  BY <1>1, <1>6 DEF VisitInv, VisitsCreated
<1>10. UndeliveredStaysOpen'
  BY <1>1, <1>6 DEF VisitInv, UndeliveredStaysOpen, Active
<1> QED
  BY <1>3, <1>8, <1>9, <1>10 DEF VisitInv

\* The event is logged and the answer leaves.
LEMMA RespondStep ==
    ASSUME VisitInv, NEW t \in Task, Respond(t)
    PROVE  VisitInv'
<1> DEFINE r == requests[t]
<1>1. /\ UNCHANGED <<now, visits, redemptions, created, redeemed>>
      /\ TypeOK
      /\ r.pc = "respond"
      /\ r.answer \in Accepted /\ r.visit_id \in created
      /\ r.answer = "CheckedIn" <=> r.visit_id \notin known
  BY DEF Respond, state, VisitInv, Coherent, OutcomeSound
<1>2. /\ known \subseteq known' /\ known' \subseteq created
      /\ \A v \in known' : v \in known \/ v = r.visit_id
  BY <1>1 DEF Respond, TypeOK
<1>3. /\ requests' \in [Task -> Request]
      /\ (\A u \in Task : Coherent(requests[u]))'
      /\ ReceiptsDistinct'
  <2> PICK answer \in Accepted : answer = r.answer
    BY <1>1
  <2> DEFINE q == Answered("idle", None, answer)
  <2>1. q \in Request
    BY AnsweredType
  <2>2. q.pc = "idle"
    BY DEF Answered
  <2>3. Coherent(q)'
    BY <2>2 DEF Coherent
  <2>4. ASSUME NEW u \in Task \ {t}, requests[u].pc = "respond",
               requests[u].visit_id \in known'
        PROVE  requests[u].visit_id \in known
    <3>1. SUFFICES ASSUME requests[u].visit_id \notin known PROVE FALSE
      OBVIOUS
    <3>2. requests[u].visit_id = r.visit_id
      BY <1>2, <2>4, <3>1
    <3>3. requests[u].answer = "CheckedIn"
      BY <2>4, <3>1 DEF VisitInv, Coherent, OutcomeSound
    <3>4. r.answer = "CheckedIn"
      BY <1>1, <3>1, <3>2
    <3> QED
      BY <1>1, <2>4, <3>2, <3>3, <3>4 DEF VisitInv, ReceiptsDistinct, Responders
  <2> HIDE DEF q
  <2>5. requests' = [requests EXCEPT ![t] = q]
    BY DEF Respond, q
  <2> QED
    BY <1>1, <1>2, <2>1, <2>2, <2>3, <2>4, <2>5, ReplaceRequest
<1>4. audit' \in [Accepted -> Nat]
  BY <1>1 DEF Respond, TypeOK
<1>5. TypeOK'
  BY <1>1, <1>2, <1>3, <1>4 DEF TypeOK
<1>6. VisitsCreated'
  BY <1>1 DEF VisitInv, VisitsCreated
<1>7. UndeliveredStaysOpen'
  BY <1>1, <1>2 DEF VisitInv, UndeliveredStaysOpen, Active
<1> QED
  BY <1>3, <1>5, <1>6, <1>7 DEF VisitInv

\* A handler that waits for the lock is dropped.
LEMMA AbandonStep ==
    ASSUME VisitInv, NEW t \in Task, Abandon(t)
    PROVE  VisitInv'
<1>1. UNCHANGED <<now, state, audit, history>>
  BY DEF Abandon
<1>2. "none" \in {visitor_error(e) : e \in VisitorError} \cup {"none"}
  OBVIOUS
<1> QED
  BY <1>1, <1>2, OverStep, RequestsOnly DEF Abandon, IdleRequest, history

\* The clock ticks only while no request has waited for MaxDelay.
LEMMA TickStep ==
    ASSUME VisitInv, Tick
    PROVE  VisitInv'
<1>1. /\ UNCHANGED <<visits, redemptions, requests, audit>>
      /\ UNCHANGED <<created, redeemed, known>>
      /\ now' = now + 1
      /\ TypeOK
  BY DEF Tick, state, history, VisitInv
<1>2. TypeOK'
  BY <1>1, VisitorBounds DEF TypeOK, Tick
<1>3. ASSUME NEW u \in Task PROVE Coherent(requests[u])'
  <2>1. requests[u].now \in Nat /\ now \in Nat /\ MaxDelay \in Nat
    BY <1>1, VisitorBounds DEF TypeOK, Request
  <2>2. Coherent(requests[u])
    BY DEF VisitInv
  <2>3. Waiting(u) => now - requests[u].now < MaxDelay
    BY DEF Tick
  <2> QED
    BY <1>1, <2>1, <2>2, <2>3
       DEF Coherent, InTime, CheckInReady, CheckOutReady, OutcomeSound, Waiting
<1>4. ReceiptsDistinct'
  BY <1>1 DEF VisitInv, ReceiptsDistinct, Responders
<1>5. VisitsCreated' /\ UndeliveredStaysOpen'
  BY <1>1, RecordsKept
<1> QED
  BY <1>2, <1>3, <1>4, <1>5 DEF VisitInv

\* No visit, no request.
LEMMA VisitInit ==
    ASSUME Init
    PROVE  VisitInv
<1>1. \A t \in Task : requests[t] = IdleRequest
  BY DEF Init
<1>2. IdleRequest \in Request /\ IdleRequest.pc = "idle"
  BY AnsweredType DEF IdleRequest, Answered
<1>3. TypeOK
  BY <1>2, VisitorBounds DEF Init, TypeOK
<1>4. (\A t \in Task : Coherent(requests[t])) /\ ReceiptsDistinct
  BY <1>1, <1>2 DEF Coherent, ReceiptsDistinct, Responders
<1>5. VisitsCreated /\ UndeliveredStaysOpen
  BY DEF Init, VisitsCreated, UndeliveredStaysOpen
<1> QED
  BY <1>3, <1>4, <1>5 DEF VisitInv

\* One step of the service, told apart by what it does.
LEMMA StepForms ==
    ASSUME VisitInv, [Next]_vars
    PROVE  \/ UNCHANGED vars
           \/ Tick
           \/ \E t \in Task :
                 \/ CheckIn(t) \/ CheckOut(t) \/ Respond(t) \/ Abandon(t)
                 \/ AdmitRefused(t) \/ CloseRefused(t)
                 \/ \E v \in VisitId \ created : Admitted(t, v)
                 \/ \E v \in VisitId : VisitClosed(t, v)
BY AdmitForms, CloseForms DEF Next, Begin, Step

\* Every step keeps the invariant.
LEMMA VisitStep ==
    ASSUME VisitInv, [Next]_vars
    PROVE  VisitInv'
<1>1. CASE UNCHANGED vars
  <2>1. UNCHANGED <<now, state, audit, history, requests>>
    BY <1>1 DEF vars
  <2>2. /\ requests' \in [Task -> Request]
        /\ (\A u \in Task : Coherent(requests[u]))'
        /\ ReceiptsDistinct'
    BY <2>1 DEF VisitInv, TypeOK, history, Coherent, InTime, CheckInReady,
                CheckOutReady, OutcomeSound, ReceiptsDistinct, Responders
  <2> QED
    BY <2>1, <2>2, RequestsOnly
<1>2. ASSUME NEW t \in Task, CloseRefused(t) PROVE VisitInv'
  BY <1>2, RefuseStep, RequestsOnly DEF CloseRefused, history
<1> QED
  BY <1>1, <1>2, StepForms, TickStep, CheckInStep, CheckOutStep, RespondStep,
     AbandonStep, AdmitRefusedStep, AdmittedStep, VisitClosedStep

\* VisitInv is an invariant of the service.
LEMMA VisitInvariant == Spec => []VisitInv
<1>1. Init => VisitInv
  BY VisitInit
<1>2. VisitInv /\ [Next]_vars => VisitInv'
  BY VisitStep
<1> QED
  BY <1>1, <1>2, PTL DEF Spec

\* Types hold throughout, and a display name is kept exactly as long as its
\* visit is open.
THEOREM VisitTypes == Spec => []TypeOK
<1>1. VisitInv => TypeOK
  BY DEF VisitInv
<1> QED
  BY <1>1, VisitInvariant, PTL

\* A visit whose receipt never reached its visitor is never closed nor
\* evicted, whatever the requests and their order.
THEOREM UndeliveredOpen == Spec => []UndeliveredStaysOpen
<1>1. VisitInv => UndeliveredStaysOpen
  BY DEF VisitInv
<1> QED
  BY <1>1, VisitInvariant, PTL

(***************************************************************************)
(* The life of a visit.                                                    *)
(***************************************************************************)
\* A purge takes away closed visits only, and those past retention by the
\* present clock, which the request read earlier.
LEMMA PurgeLifecycle ==
    ASSUME VisitInv, NEW t \in Task, requests[t].pc = "check_in_lock",
           NEW v \in VisitId
    PROVE  LET kept == RetainedVisits(requests[t].now) IN
           \/ kept[v] = visits[v]
           \/ /\ visits[v] # None
              /\ visits[v].checked_out_at # None
              /\ visits[v].checked_out_at + Retention < now
              /\ kept[v] = None
<1>1. TypeOK /\ requests[t].now \in 0..MaxClock
  BY DEF VisitInv, TypeOK, Request
<1>2. requests[t].now <= now /\ now \in Nat
  BY <1>1, VisitorBounds DEF VisitInv, Coherent, InTime, TypeOK
<1>3. ASSUME visits[v] # None, visits[v].checked_out_at # None
      PROVE  visits[v].checked_out_at + Retention \in Nat
  <2>1. visits[v] \in Visit
    BY <1>1, <1>3 DEF TypeOK
  <2> QED
    BY <1>3, <2>1, VisitorBounds DEF Visit
<1> QED
  BY <1>1, <1>2, <1>3, Purge, VisitorBounds

\* Every step respects the life of every visit.
LEMMA LifecycleKept ==
    ASSUME VisitInv, [Next]_vars, NEW v \in VisitId
    PROVE  LifecycleStep(v)
<1>1. ASSUME visits' = visits PROVE LifecycleStep(v)
  BY <1>1 DEF LifecycleStep
<1>2. ASSUME NEW t \in Task, AdmitRefused(t) PROVE LifecycleStep(v)
  BY <1>2, PurgeLifecycle DEF AdmitRefused, LifecycleStep
<1>3. ASSUME NEW t \in Task, NEW w \in VisitId \ created, Admitted(t, w)
      PROVE  LifecycleStep(v)
  <2>1. RetainedVisits(requests[t].now) \in [VisitId -> Visit \cup {None}]
    BY Purge DEF VisitInv, TypeOK, Request
  <2>2. CASE v = w
    <3>1. visits'[v] = [display_name |-> "name", checked_out_at |-> None]
      BY <1>3, <2>1, <2>2 DEF Admitted
    <3>2. visits[v] = None /\ v \notin created
      BY <2>2 DEF VisitInv, VisitsCreated
    <3> QED
      BY <3>1, <3>2 DEF LifecycleStep
  <2>3. CASE v # w
    <3>1. visits'[v] = RetainedVisits(requests[t].now)[v]
      BY <1>3, <2>1, <2>3 DEF Admitted
    <3>2. requests[t].pc = "check_in_lock"
      BY <1>3 DEF Admitted
    <3> QED
      BY <3>1, <3>2, PurgeLifecycle DEF LifecycleStep
  <2> QED
    BY <2>2, <2>3
<1>4. ASSUME NEW t \in Task, NEW w \in VisitId, VisitClosed(t, w)
      PROVE  LifecycleStep(v)
  <2>1. requests[t].now \in 0..MaxClock /\ visits \in [VisitId -> Visit \cup {None}]
    BY DEF VisitInv, TypeOK, Request
  <2>2. Closed(requests[t].now) # None
    BY <2>1, VisitorNone DEF Closed, Visit
  <2>3. Closed(requests[t].now).checked_out_at # None
    BY <2>1, VisitorNone, VisitorBounds DEF Closed
  <2>4. Closed(requests[t].now).display_name = None
    BY DEF Closed
  <2>5. visits'[v] = IF v = w THEN Closed(requests[t].now) ELSE visits[v]
    BY <1>4, <2>1 DEF VisitClosed
  <2>6. visits[w] # None /\ visits[w].checked_out_at = None
    BY <1>4 DEF VisitClosed, Active
  <2> QED
    BY <2>2, <2>3, <2>4, <2>5, <2>6 DEF LifecycleStep
<1>5. \/ visits' = visits
      \/ \E t \in Task :
            \/ AdmitRefused(t)
            \/ \E w \in VisitId \ created : Admitted(t, w)
            \/ \E w \in VisitId : VisitClosed(t, w)
  BY StepForms DEF vars, state, Tick, CheckIn, CheckOut, Respond, Abandon,
                   CloseRefused
<1> QED
  BY <1>1, <1>2, <1>3, <1>4, <1>5

\* A visit opens under an identifier never used before, is closed at most once,
\* which erases the name, and goes only when it has been closed for longer
\* than the retention period: no open visit is ever evicted.
THEOREM LifecycleHolds == Spec => VisitLifecycle
<1>1. VisitInv /\ [Next]_vars => [\A v \in VisitId : LifecycleStep(v)]_vars
  BY LifecycleKept
<1> QED
  BY <1>1, VisitInvariant, PTL DEF Spec, VisitLifecycle

(***************************************************************************)
(* Counting: the sets involved are finite, and every step changes each by  *)
(* at most one element.                                                    *)
(***************************************************************************)
\* Everything that is counted is finite.
LEMMA CountedFinite ==
    ASSUME VisitInv
    PROVE  /\ IsFiniteSet(Active(visits)) /\ Cardinality(Active(visits)) \in Nat
           /\ IsFiniteSet(created) /\ Cardinality(created) \in Nat
           /\ IsFiniteSet(known) /\ Cardinality(known) \in Nat
           /\ \A a \in Accepted :
                 IsFiniteSet(Responders(a)) /\ Cardinality(Responders(a)) \in Nat
<1>1. Active(visits) \subseteq VisitId
  BY DEF Active
<1>2. created \subseteq VisitId /\ known \subseteq VisitId
  BY DEF VisitInv, TypeOK
<1>3. \A a \in Accepted : Responders(a) \subseteq Task
  BY DEF Responders
<1>4. \A S \in SUBSET VisitId : IsFiniteSet(S) /\ Cardinality(S) \in Nat
  BY VisitorFinite, FS_Subset, FS_CardinalityType
<1>5. \A S \in SUBSET Task : IsFiniteSet(S) /\ Cardinality(S) \in Nat
  BY VisitorFinite, FS_Subset, FS_CardinalityType
<1> QED
  BY <1>1, <1>2, <1>3, <1>4, <1>5

\* The responders when request t becomes q.
LEMMA RespondersChange ==
    ASSUME VisitInv, NEW t \in Task, NEW q,
           requests' = [requests EXCEPT ![t] = q], NEW a \in Accepted
    PROVE  Responders(a)' =
              IF q.pc = "respond" /\ q.answer = a
              THEN Responders(a) \cup {t} ELSE Responders(a) \ {t}
BY DEF VisitInv, TypeOK, Responders

\* Adding one element, and taking one away, by the count.
LEMMA OneMore ==
    ASSUME NEW S, NEW x, IsFiniteSet(S), x \notin S
    PROVE  Cardinality(S \cup {x}) = Cardinality(S) + 1
BY FS_AddElement

\* Removing a member of a finite set.
LEMMA OneLess ==
    ASSUME NEW S, NEW x, IsFiniteSet(S), x \in S
    PROVE  Cardinality(S \ {x}) = Cardinality(S) - 1
BY FS_RemoveElement

\* A refusal changes nobody's presence.
LEMMA RefusedActive ==
    ASSUME VisitInv, NEW t \in Task, AdmitRefused(t)
    PROVE  Active(visits') = Active(visits)
BY Purge DEF AdmitRefused, VisitInv, TypeOK, Request

\* One visitor more, for whom there was room.
LEMMA AdmittedActive ==
    ASSUME VisitInv, NEW t \in Task, NEW v \in VisitId \ created, Admitted(t, v)
    PROVE  /\ Active(visits') = Active(visits) \cup {v}
           /\ v \notin Active(visits)
           /\ Cardinality(Active(visits)) < MaxActiveVisits
<1>1. /\ RetainedVisits(requests[t].now) \in [VisitId -> Visit \cup {None}]
      /\ Active(RetainedVisits(requests[t].now)) = Active(visits)
  BY Purge DEF VisitInv, TypeOK, Request
<1>2. [display_name |-> "name", checked_out_at |-> None] # None
  BY VisitorNone DEF Visit
<1>3. v \notin Active(visits)
  BY DEF VisitInv, VisitsCreated, Active
<1>4. Cardinality(Active(visits)) < MaxActiveVisits
  BY <1>1, CountedFinite, VisitorBounds DEF Admitted, AtCapacity
<1> QED
  BY <1>1, <1>2, <1>3, <1>4 DEF Admitted, Active

\* One visitor less.
LEMMA ClosedActive ==
    ASSUME VisitInv, NEW t \in Task, NEW v \in VisitId, VisitClosed(t, v)
    PROVE  Active(visits') = Active(visits) \ {v} /\ v \in Active(visits)
<1>1. requests[t].now # None /\ visits \in [VisitId -> Visit \cup {None}]
  BY VisitorNone, VisitorBounds DEF VisitInv, TypeOK, Request
<1> QED
  BY <1>1 DEF VisitClosed, Active, Closed

\* The steps that change neither presence nor the books.
Uneventful ==
    /\ Active(visits') = Active(visits)
    /\ UNCHANGED <<created, known, audit>>
    /\ \A a \in Accepted : Responders(a)' = Responders(a)

\* What one step does to presence and to the books.
LEMMA BookForms ==
    ASSUME VisitInv, [Next]_vars
    PROVE  \/ Uneventful
           \/ \E t \in Task :
                 \/ \E v \in VisitId \ created : Admitted(t, v)
                 \/ \E v \in VisitId : VisitClosed(t, v)
                 \/ Respond(t)
<1>1. ASSUME NEW t \in Task, NEW q, q.pc # "respond",
             requests[t].pc # "respond",
             requests' = [requests EXCEPT ![t] = q]
      PROVE  \A a \in Accepted : Responders(a)' = Responders(a)
  BY <1>1 DEF VisitInv, TypeOK, Responders
<1>2. ASSUME NEW t \in Task, NEW e, requests[t].pc # "respond", Refuse(t, e)
      PROVE  \A a \in Accepted : Responders(a)' = Responders(a)
  <2>1. Answered("idle", None, visitor_error(e)).pc # "respond"
    BY DEF Answered
  <2> QED
    BY <1>1, <1>2, <2>1 DEF Refuse
<1>3. ASSUME NEW t \in Task, NEW stage, stage # "respond", NEW c, NEW v,
             NEW receipt, requests[t].pc # "respond",
             Await(t, Queued(stage, c, v, receipt))
      PROVE  \A a \in Accepted : Responders(a)' = Responders(a)
  <2>1. Queued(stage, c, v, receipt).pc # "respond"
    BY <1>3 DEF Queued
  <2> QED
    BY <1>1, <1>3, <2>1 DEF Await
<1>4. ASSUME visits' = visits PROVE Active(visits') = Active(visits)
  BY <1>4
<1>5. CASE UNCHANGED vars \/ Tick
  BY <1>5 DEF vars, Tick, state, history, Uneventful, Responders
<1>6. ASSUME NEW t \in Task, CheckIn(t) PROVE Uneventful
  <2>1. \A a \in Accepted : Responders(a)' = Responders(a)
    BY <1>2, <1>3, <1>6 DEF CheckIn, Free
  <2> QED
    BY <1>6, <2>1 DEF CheckIn, state, history, Uneventful
<1>7. ASSUME NEW t \in Task, CheckOut(t) PROVE Uneventful
  <2>1. \A a \in Accepted : Responders(a)' = Responders(a)
    BY <1>2, <1>3, <1>7 DEF CheckOut, Free
  <2> QED
    BY <1>7, <2>1 DEF CheckOut, state, history, Uneventful
<1>8. ASSUME NEW t \in Task, Abandon(t) PROVE Uneventful
  <2>1. IdleRequest.pc # "respond"
    BY DEF IdleRequest, Answered
  <2>2. \A a \in Accepted : Responders(a)' = Responders(a)
    BY <1>1, <1>8, <2>1 DEF Abandon, Waiting
  <2> QED
    BY <1>8, <2>2 DEF Abandon, state, history, Uneventful
<1>9. ASSUME NEW t \in Task, AdmitRefused(t) PROVE Uneventful
  <2>1. \A a \in Accepted : Responders(a)' = Responders(a)
    BY <1>2, <1>9 DEF AdmitRefused
  <2> QED
    BY <1>9, <2>1, RefusedActive DEF AdmitRefused, history, Uneventful
<1>10. ASSUME NEW t \in Task, CloseRefused(t) PROVE Uneventful
  <2>1. \A a \in Accepted : Responders(a)' = Responders(a)
    BY <1>2, <1>10 DEF CloseRefused
  <2> QED
    BY <1>10, <2>1 DEF CloseRefused, state, history, Uneventful
<1> QED
  BY <1>5, <1>6, <1>7, <1>8, <1>9, <1>10, StepForms

\* There is room for every visit that is opened.
LEMMA CapacityStep ==
    ASSUME VisitInv, ActiveWithinCapacity, [Next]_vars
    PROVE  ActiveWithinCapacity'
<1>1. CASE Uneventful \/ \E t \in Task : Respond(t)
  BY <1>1 DEF Uneventful, Respond, state, ActiveWithinCapacity, active_visit_count
<1>2. ASSUME NEW t \in Task, NEW v \in VisitId \ created, Admitted(t, v)
      PROVE  ActiveWithinCapacity'
  <2>1. Cardinality(Active(visits')) = Cardinality(Active(visits)) + 1
    BY <1>2, AdmittedActive, CountedFinite, OneMore
  <2> QED
    BY <1>2, <2>1, AdmittedActive, CountedFinite, VisitorBounds
       DEF ActiveWithinCapacity, active_visit_count
<1>3. ASSUME NEW t \in Task, NEW v \in VisitId, VisitClosed(t, v)
      PROVE  ActiveWithinCapacity'
  <2>1. Cardinality(Active(visits')) = Cardinality(Active(visits)) - 1
    BY <1>3, ClosedActive, CountedFinite, OneLess
  <2> QED
    BY <2>1, CountedFinite, VisitorBounds
       DEF ActiveWithinCapacity, active_visit_count
<1> QED
  BY <1>1, <1>2, <1>3, BookForms

\* Never more than MaxActiveVisits visits are open, however many check-ins wait
\* for the lock at once.
THEOREM CapacityKept == Spec => []ActiveWithinCapacity
<1>1. Init => ActiveWithinCapacity
  <2>1. ASSUME Init PROVE Active(visits) = {}
    BY <2>1 DEF Init, Active
  <2> QED
    BY <2>1, FS_EmptySet, VisitorBounds DEF ActiveWithinCapacity, active_visit_count
<1>2. VisitInv /\ ActiveWithinCapacity /\ [Next]_vars => ActiveWithinCapacity'
  BY CapacityStep
<1> QED
  BY <1>1, <1>2, VisitInvariant, PTL DEF Spec

(***************************************************************************)
(* The log.                                                                *)
(***************************************************************************)
\* The books hold numbers.
LEMMA BooksType ==
    ASSUME VisitInv
    PROVE  /\ audit["CheckedIn"] \in Nat /\ audit["CheckedOut"] \in Nat
           /\ \A a \in Accepted : Unlogged(a) = Cardinality(Responders(a))
           /\ Unlogged("CheckedIn") \in Nat /\ Unlogged("CheckedOut") \in Nat
<1>1. audit["CheckedIn"] \in Nat /\ audit["CheckedOut"] \in Nat
  BY DEF VisitInv, TypeOK, Accepted
<1>2. \A a \in Accepted : Unlogged(a) = Cardinality(Responders(a))
  BY DEF Unlogged, Responders
<1> QED
  BY <1>1, <1>2, CountedFinite DEF Accepted

\* Every step keeps the books.
LEMMA LogStep ==
    ASSUME VisitInv, LogInv, [Next]_vars
    PROVE  LogInv'
<1> DEFINE In == "CheckedIn"  Out == "CheckedOut"
<1>1. VisitInv'
  BY VisitStep
<1>2. \A a \in Accepted : /\ Unlogged(a) = Cardinality(Responders(a))
                          /\ Unlogged(a)' = Cardinality(Responders(a)')
  BY DEF Unlogged, Responders
<1>3. In \in Accepted /\ Out \in Accepted /\ In # Out
  BY DEF Accepted
<1>4. CASE Uneventful
  BY <1>2, <1>3, <1>4 DEF Uneventful, LogInv, LogReconciles, active_visit_count
<1>5. ASSUME NEW t \in Task, NEW v \in VisitId \ created, Admitted(t, v)
      PROVE  LogInv'
  <2> DEFINE q == Answered("respond", v, In)
  <2>1. q.pc = "respond" /\ q.answer = In
    BY DEF Answered
  <2>2. t \notin Responders(In) /\ t \notin Responders(Out)
    BY <1>5 DEF Admitted, Responders
  <2> HIDE DEF q
  <2>3. requests' = [requests EXCEPT ![t] = q]
    BY <1>5 DEF Admitted, q
  <2>4. Responders(In)' = Responders(In) \cup {t} /\ Responders(Out)' = Responders(Out)
    BY <1>3, <2>1, <2>2, <2>3 DEF VisitInv, TypeOK, Responders
  <2>5. Cardinality(Responders(In)') = Cardinality(Responders(In)) + 1
    BY <1>3, <2>2, <2>4, CountedFinite, OneMore
  <2>6. Cardinality(Active(visits')) = Cardinality(Active(visits)) + 1
    BY <1>5, AdmittedActive, CountedFinite, OneMore
  <2>7. created' = created \cup {v} /\ known' = known /\ audit' = audit
    BY <1>5 DEF Admitted
  <2>8. Cardinality(created') = Cardinality(created) + 1
    BY <2>7, CountedFinite, OneMore
  <2> HIDE DEF In, Out
  <2> QED
    BY <1>2, <1>3, <2>4, <2>5, <2>6, <2>7, <2>8, BooksType, CountedFinite
       DEF LogInv, LogReconciles, active_visit_count, In, Out
<1>6. ASSUME NEW t \in Task, NEW v \in VisitId, VisitClosed(t, v)
      PROVE  LogInv'
  <2> DEFINE q == Answered("respond", v, Out)
  <2>1. q.pc = "respond" /\ q.answer = Out
    BY DEF Answered
  <2>2. t \notin Responders(In) /\ t \notin Responders(Out)
    BY <1>6 DEF VisitClosed, Responders
  <2> HIDE DEF q
  <2>3. requests' = [requests EXCEPT ![t] = q]
    BY <1>6 DEF VisitClosed, q
  <2>4. Responders(Out)' = Responders(Out) \cup {t} /\ Responders(In)' = Responders(In)
    BY <1>3, <2>1, <2>2, <2>3 DEF VisitInv, TypeOK, Responders
  <2>5. Cardinality(Responders(Out)') = Cardinality(Responders(Out)) + 1
    BY <1>3, <2>2, <2>4, CountedFinite, OneMore
  <2>6. Cardinality(Active(visits')) = Cardinality(Active(visits)) - 1
    BY <1>6, ClosedActive, CountedFinite, OneLess
  <2>7. created' = created /\ known' = known /\ audit' = audit
    BY <1>6 DEF VisitClosed
  <2> QED
    BY <1>2, <1>3, <2>4, <2>5, <2>6, <2>7, BooksType, CountedFinite
       DEF LogInv, LogReconciles, active_visit_count
<1>7. ASSUME NEW t \in Task, Respond(t)
      PROVE  LogInv'
  <2> DEFINE r == requests[t]
  <2> PICK answer \in Accepted : answer = r.answer
    BY <1>7 DEF Respond, VisitInv, Coherent, OutcomeSound
  <2>1. /\ r.pc = "respond" /\ r.answer = answer
        /\ answer = In <=> r.visit_id \notin known
        /\ UNCHANGED <<visits, created>>
    BY <1>7 DEF Respond, state, VisitInv, Coherent, OutcomeSound
  <2>2. /\ t \in Responders(answer)
        /\ \A a \in Accepted \ {answer} : t \notin Responders(a)
    BY <2>1 DEF Responders
  <2>3. /\ Responders(answer)' = Responders(answer) \ {t}
        /\ \A a \in Accepted \ {answer} : Responders(a)' = Responders(a)
    <3>1. requests'[t].pc = "idle"
      BY <1>7 DEF Respond, Answered, VisitInv, TypeOK
    <3>2. \A u \in Task \ {t} : requests'[u] = requests[u]
      BY <1>7 DEF Respond, VisitInv, TypeOK
    <3> QED
      BY <2>2, <3>1, <3>2 DEF Responders
  <2>4. Cardinality(Responders(answer)') = Cardinality(Responders(answer)) - 1
    BY <2>1, <2>2, <2>3, CountedFinite, OneLess
  <2>5. /\ audit'[answer] = audit[answer] + 1
        /\ \A a \in Accepted \ {answer} : audit'[a] = audit[a]
    BY <1>7, <2>1 DEF Respond, VisitInv, TypeOK
  <2>6. /\ Cardinality(known') \in Nat
        /\ Cardinality(known') <= Cardinality(known) + 1
        /\ answer = Out => known' = known
    <3>1. CASE known' = known
      BY <3>1, CountedFinite
    <3>2. CASE known' # known
      <4>1. known' = known \cup {r.visit_id} /\ r.visit_id \notin known
        BY <1>7, <3>2 DEF Respond
      <4>2. Cardinality(known') = Cardinality(known) + 1
        BY <4>1, CountedFinite, OneMore
      <4> QED
        BY <2>1, <4>1, <4>2, CountedFinite
    <3> QED
      BY <3>1, <3>2
  <2>7. Active(visits') = Active(visits)
    BY <2>1
  <2>8. CASE answer = In
    <3>1. /\ audit'[In] = audit[In] + 1 /\ audit'[Out] = audit[Out]
          /\ Unlogged(In)' = Unlogged(In) - 1 /\ Unlogged(Out)' = Unlogged(Out)
      BY <1>2, <1>3, <2>3, <2>4, <2>5, <2>8
    <3> QED
      BY <2>1, <2>6, <2>7, <3>1, BooksType, CountedFinite
         DEF LogInv, LogReconciles, active_visit_count
  <2>9. CASE answer = Out
    <3>1. /\ audit'[Out] = audit[Out] + 1 /\ audit'[In] = audit[In]
          /\ Unlogged(Out)' = Unlogged(Out) - 1 /\ Unlogged(In)' = Unlogged(In)
      BY <1>2, <1>3, <2>3, <2>4, <2>5, <2>9
    <3> QED
      BY <2>1, <2>6, <2>7, <2>9, <3>1, BooksType, CountedFinite
         DEF LogInv, LogReconciles, active_visit_count
  <2> QED
    BY <2>1, <2>8, <2>9 DEF Accepted
<1> QED
  BY <1>4, <1>5, <1>6, <1>7, BookForms

\* The books are empty at first.
LEMMA LogInit ==
    ASSUME Init
    PROVE  LogInv
<1>1. Active(visits) = {}
  BY DEF Init, Active
<1>2. \A a \in Accepted : {t \in Task : /\ requests[t].pc = "respond"
                                        /\ requests[t].answer = a} = {}
  BY DEF Init, IdleRequest, Answered
<1>3. \A a \in Accepted : Unlogged(a) = 0
  BY <1>2, FS_EmptySet DEF Unlogged
<1>4. audit["CheckedIn"] = 0 /\ audit["CheckedOut"] = 0
  BY DEF Init, Accepted
<1>5. Cardinality(created) = 0 /\ Cardinality(known) = 0
  BY FS_EmptySet DEF Init
<1> QED
  BY <1>1, <1>3, <1>4, <1>5, FS_EmptySet
     DEF LogInv, LogReconciles, active_visit_count, Accepted

\* The books are an invariant of the service.
LEMMA LogInvariant == Spec => []LogInv
<1>1. Init => LogInv
  BY LogInit
<1>2. VisitInv /\ LogInv /\ [Next]_vars => LogInv'
  BY LogStep
<1> QED
  BY <1>1, <1>2, VisitInvariant, PTL DEF Spec

\* The audit log accounts for everyone inside, in every state.
THEOREM LogAccounts == Spec => []LogReconciles
<1>1. LogInv => LogReconciles
  BY DEF LogInv
<1> QED
  BY <1>1, LogInvariant, PTL

\* A check-out is never logged before the check-in it ends, although both are
\* logged outside the lock: those who left hold a receipt, and receipts leave
\* after their event is logged.
THEOREM LogInOrder == Spec => []LogOrdered
<1>1. ASSUME VisitInv, LogInv PROVE LogOrdered
  <2> DEFINE gone == created \ Active(visits)
  <2>1. Active(visits) \subseteq created
    BY <1>1 DEF VisitInv, VisitsCreated, Active
  <2>2. gone \subseteq known
    BY <1>1 DEF VisitInv, UndeliveredStaysOpen
  <2>3. Cardinality(gone) <= Cardinality(known)
    BY <1>1, <2>2, CountedFinite, FS_Subset
  <2>4. created \cap Active(visits) = Active(visits)
    BY <2>1
  <2>5. Cardinality(gone) = Cardinality(created) - Cardinality(Active(visits))
    BY <1>1, <2>4, CountedFinite, FS_Difference
  <2> QED
    BY <1>1, <2>3, <2>5, CountedFinite, BooksType
       DEF LogInv, LogReconciles, LogOrdered, active_visit_count
<1> QED
  BY <1>1, VisitInvariant, LogInvariant, PTL

(***************************************************************************)
(* The redemption counters.                                                *)
(***************************************************************************)
\* A request that waits for the lock with code c has not seen the third minute
\* after c's own begin, and neither has the clock.
LEMMA WaitsInTime ==
    ASSUME DelayBounded, VisitInv, NEW t \in Task,
           requests[t].pc = "check_in_lock"
    PROVE  LET r == requests[t] IN
           /\ r.code \in Code /\ r.code.action = "check-in"
           /\ r.code.issued_minute \in Nat
           /\ r.now \in Nat /\ r.now <= now /\ now \in Nat
           /\ MinuteOf(r.now) \in Nat
           /\ r.code.issued_minute <= MinuteOf(r.now)
           /\ now < (r.code.issued_minute + 3) * Minute
           /\ MinuteOf(r.now) < r.code.issued_minute + 3
<1> DEFINE r == requests[t]
           m == r.code.issued_minute
<1>1. /\ r.code \in Code /\ r.code.action = "check-in"
      /\ r.now \in 0..MaxClock /\ now \in 0..MaxClock
      /\ r.now <= now /\ now <= r.now + MaxDelay
      /\ m * Minute <= r.now /\ r.now <= m * Minute + Minute + Grace
  BY DEF VisitInv, Coherent, InTime, CheckInReady, CheckInCode, InWindow, TypeOK,
         Request
<1>2. m \in Nat /\ MinuteOf(MaxClock) \in Nat
  BY <1>1, VisitorBounds, MinuteBounds DEF Code, Minutes
<1>3. r.now \in Nat /\ now \in Nat
  BY <1>1, VisitorBounds
<1> HIDE DEF m
<1>4. m <= MinuteOf(r.now) /\ MinuteOf(r.now) \in Nat
  BY <1>1, <1>2, <1>3, MinuteBounds
<1>5. m * Minute \in Nat /\ (m + 3) * Minute = m * Minute + 3 * Minute
  BY <1>2, VisitorBounds
<1>6. now < (m + 3) * Minute
  BY <1>1, <1>3, <1>5, VisitorBounds DEF DelayBounded
<1>7. MinuteOf(r.now) < m + 3
  <2>1. SUFFICES ASSUME m + 3 <= MinuteOf(r.now) PROVE FALSE
    BY <1>2, <1>4
  <2>2. (m + 3) * Minute <= r.now
    BY <1>2, <1>3, <2>1, MinuteBounds
  <2> QED
    BY <1>1, <1>2, <1>3, <1>5, <1>6, <2>2, VisitorBounds
<1> QED
  BY <1>1, <1>2, <1>3, <1>4, <1>6, <1>7 DEF m

\* A counter is purged only when its code's third minute has come.
LEMMA PurgedLate ==
    ASSUME VisitInv, NEW t \in Task, requests[t].pc = "check_in_lock",
           NEW c \in Code, redemptions[c] # None,
           c.issued_minute <= redemptions[c].minute,
           RecentRedemptions(requests[t].now)[c] = None
    PROVE  /\ (c.issued_minute + 3) * Minute <= now
           /\ c.issued_minute + 3 <= MinuteOf(requests[t].now)
<1> DEFINE at == requests[t].now
           m == c.issued_minute
           k == redemptions[c].minute
<1>1. at \in Nat /\ now \in Nat /\ at <= now
  BY VisitorBounds DEF VisitInv, Coherent, InTime, TypeOK, Request
<1>2. m \in Nat /\ k \in Nat /\ m <= k /\ MinuteOf(at) \in Nat
  <2>1. MinuteOf(MaxClock) \in Nat /\ MinuteOf(at) \in Nat
    BY <1>1, VisitorBounds, MinuteBounds
  <2>2. redemptions[c] \in Redemption
    BY DEF VisitInv, TypeOK
  <2> QED
    BY <2>1, <2>2 DEF Code, Minutes, Redemption
<1>3. ~ (k >= MinuteOf(at) - 2)
  BY DEF RecentRedemptions
<1> HIDE DEF at, m, k
<1>4. m + 3 <= MinuteOf(at)
  BY <1>2, <1>3
<1>5. (m + 3) * Minute <= at
  BY <1>1, <1>2, <1>4, MinuteBounds
<1>6. (m + 3) * Minute \in Nat
  BY <1>2, VisitorBounds
<1> QED
  BY <1>1, <1>4, <1>5, <1>6 DEF at, m

\* After a purge every counter is sound, and those left are as they were.
LEMMA PurgedSound ==
    ASSUME VisitInv, CounterInv, NEW t \in Task,
           requests[t].pc = "check_in_lock", NEW c \in Code
    PROVE  LET recent == RecentRedemptions(requests[t].now) IN
           \/ recent[c] = redemptions[c]
           \/ /\ recent[c] = None
              /\ redemptions[c] # None
              /\ (c.issued_minute + 3) * Minute <= now
              /\ c.issued_minute + 3 <= MinuteOf(requests[t].now)
<1> DEFINE recent == RecentRedemptions(requests[t].now)
<1>1. recent[c] = redemptions[c] \/ (recent[c] = None /\ redemptions[c] # None)
  BY DEF RecentRedemptions
<1>2. redemptions[c] # None => c.issued_minute <= redemptions[c].minute
  BY DEF CounterInv, CounterSound
<1> QED
  BY <1>1, <1>2, PurgedLate

\* A check-in with code c, by the counter it finds.
LEMMA AdmittedCount ==
    ASSUME DelayBounded, VisitInv, CounterInv, NEW t \in Task,
           NEW v \in VisitId \ created, Admitted(t, v)
    PROVE  LET r == requests[t] IN
           /\ redeemed[r.code] < MaxRedemptionsPerCode
           /\ redemptions'[r.code] # None
           /\ r.code.issued_minute <= redemptions'[r.code].minute
           /\ redemptions'[r.code].count = redeemed[r.code] + 1
           /\ \A c \in Code \ {r.code} :
                 redemptions'[c] = RecentRedemptions(r.now)[c]
<1> DEFINE r == requests[t]
           c == r.code
           recent == RecentRedemptions(r.now)
           counter == IF recent[c] = None
                      THEN [minute |-> MinuteOf(r.now), count |-> 1]
                      ELSE [minute |-> recent[c].minute,
                            count |-> recent[c].count + 1]
<1>1. r.pc = "check_in_lock"
  BY DEF Admitted
<1>2. /\ c \in Code /\ c.action = "check-in" /\ c.issued_minute \in Nat
      /\ now \in Nat /\ MinuteOf(r.now) \in Nat
      /\ c.issued_minute <= MinuteOf(r.now)
      /\ now < (c.issued_minute + 3) * Minute
      /\ MinuteOf(r.now) < c.issued_minute + 3
  BY <1>1, WaitsInTime
<1>3. recent \in [Code -> Redemption \cup {None}]
  BY Purge DEF VisitInv, TypeOK, Request
<1>4. redeemed[c] \in Nat /\ (c.issued_minute + 3) * Minute \in Nat
  BY <1>2, VisitorBounds DEF VisitInv, TypeOK
<1>5. redemptions' = [recent EXCEPT ![c] = counter]
  BY DEF Admitted, Counted
<1>6. counter \in Redemption
  <2>1. MinuteOf(r.now) \in Minutes
    BY MinuteType DEF VisitInv, TypeOK, Request
  <2>2. recent[c] # None => recent[c] \in Redemption
    BY <1>2, <1>3
  <2> QED
    BY <2>1, <2>2 DEF Redemption
<1>7. CounterSound(c)
  BY <1>2 DEF CounterInv
<1>8. recent[c] = redemptions[c]
  BY <1>1, <1>2, <1>4, PurgedSound
<1>9. CASE recent[c] = None
  <2>1. redeemed[c] = 0
    BY <1>2, <1>4, <1>7, <1>8, <1>9 DEF CounterSound
  <2> QED
    BY <1>2, <1>3, <1>5, <1>6, <1>9, <2>1, VisitorNone, VisitorBounds
<1>10. CASE recent[c] # None
  <2>1. /\ recent[c].count = redeemed[c]
        /\ c.issued_minute <= recent[c].minute
    BY <1>7, <1>8, <1>10 DEF CounterSound
  <2>2. redeemed[c] < MaxRedemptionsPerCode
    BY <1>4, <1>10, <2>1, VisitorBounds DEF Admitted, Exhausted
  <2> QED
    BY <1>2, <1>3, <1>5, <1>6, <1>10, <2>1, <2>2, VisitorNone
<1> QED
  BY <1>9, <1>10

\* Every step keeps the counters sound.
LEMMA CounterStep ==
    ASSUME DelayBounded, VisitInv, CounterInv, [Next]_vars
    PROVE  CounterInv'
<1> SUFFICES ASSUME NEW c \in Code PROVE CounterSound(c)'
  BY DEF CounterInv
<1>1. CounterSound(c) /\ redeemed \in [Code -> Nat]
  BY DEF CounterInv, VisitInv, TypeOK
<1>2. now \in Nat /\ now' \in Nat /\ now <= now'
  <2>1. now \in Nat /\ now' \in Nat
    BY VisitStep, VisitorBounds DEF VisitInv, TypeOK
  <2>2. now' = now \/ now' = now + 1
    BY StepForms DEF vars, Tick, CheckIn, CheckOut, Respond, Abandon, AdmitRefused,
                     CloseRefused, Admitted, VisitClosed
  <2> QED
    BY <2>1, <2>2
<1>3. c.issued_minute \in Nat /\ (c.issued_minute + 3) * Minute \in Nat
  <2>1. c.issued_minute \in Nat
    BY MinuteBounds, VisitorBounds DEF Code, Minutes
  <2> QED
    BY <2>1, VisitorBounds
<1>4. CASE UNCHANGED <<redemptions, redeemed>>
  BY <1>1, <1>2, <1>3, <1>4 DEF CounterSound
<1>5. ASSUME NEW t \in Task, AdmitRefused(t) PROVE CounterSound(c)'
  <2>1. requests[t].pc = "check_in_lock" /\ redeemed' = redeemed
        /\ redemptions' = RecentRedemptions(requests[t].now)
    BY <1>5 DEF AdmitRefused, history
  <2> QED
    BY <1>1, <1>2, <1>3, <2>1, PurgedSound DEF CounterSound
<1>6. ASSUME NEW t \in Task, NEW v \in VisitId \ created, Admitted(t, v)
      PROVE  CounterSound(c)'
  <2> DEFINE r == requests[t]
  <2>1. r.pc = "check_in_lock" /\ r.code \in Code /\ r.code.action = "check-in"
    BY <1>6, WaitsInTime DEF Admitted
  <2>2. redeemed' = [redeemed EXCEPT ![r.code] = @ + 1]
    BY <1>6 DEF Admitted
  <2>3. CASE c = r.code
    <3>1. redeemed'[c] = redeemed[c] + 1
      BY <1>1, <2>2, <2>3
    <3> QED
      BY <1>1, <1>6, <2>1, <2>3, <3>1, AdmittedCount, VisitorBounds
         DEF CounterSound
  <2>4. CASE c # r.code
    <3>1. redeemed'[c] = redeemed[c]
      BY <1>1, <2>2, <2>4
    <3>2. redemptions'[c] = RecentRedemptions(r.now)[c]
      BY <1>6, <2>4, AdmittedCount
    <3> QED
      BY <1>1, <1>2, <1>3, <2>1, <3>1, <3>2, PurgedSound DEF CounterSound
  <2> QED
    BY <2>3, <2>4
<1>7. ASSUME NEW t \in Task, NEW v \in VisitId, VisitClosed(t, v)
      PROVE  CounterSound(c)'
  <2> DEFINE code == requests[t].code
  <2>1. code \in Code /\ code.action = "check-out"
    BY <1>7 DEF VisitClosed, VisitInv, Coherent, CheckOutReady
  <2>2. redeemed' = [redeemed EXCEPT ![code] = @ + 1] /\ redemptions' = redemptions
        /\ now' = now
    BY <1>7 DEF VisitClosed
  <2>3. c = code => redemptions[c] = None
    BY <1>1, <2>1 DEF CounterSound
  <2>4. c # code => redeemed'[c] = redeemed[c]
    BY <1>1, <2>2
  <2> QED
    BY <1>1, <2>1, <2>2, <2>3, <2>4 DEF CounterSound
<1>8. \/ UNCHANGED <<redemptions, redeemed>>
      \/ \E t \in Task :
            \/ AdmitRefused(t)
            \/ \E v \in VisitId \ created : Admitted(t, v)
            \/ \E v \in VisitId : VisitClosed(t, v)
  BY StepForms DEF vars, state, history, Tick, CheckIn, CheckOut, Respond, Abandon,
                   CloseRefused
<1> QED
  BY <1>4, <1>5, <1>6, <1>7, <1>8

\* They start sound.
LEMMA CounterInit ==
    ASSUME Init
    PROVE  CounterInv
BY VisitorBounds DEF Init, CounterInv, CounterSound

\* The counters are sound throughout, when the lock is not waited for too long.
LEMMA CounterInvariant ==
    ASSUME DelayBounded
    PROVE  Spec => []CounterInv
<1>1. Init => CounterInv
  BY CounterInit
<1>2. VisitInv /\ CounterInv /\ [Next]_vars => CounterInv'
  BY DelayBounded, CounterStep
<1> QED
  BY <1>1, <1>2, VisitInvariant, PTL DEF Spec

\* No code is ever redeemed for more than MaxRedemptionsPerCode check-ins,
\* although its counter is forgotten after three minutes.
THEOREM CheckInsLimited ==
    ASSUME DelayBounded
    PROVE  Spec => []CheckInLimit
<1>1. CounterInv => CheckInLimit
  BY DEF CounterInv, CounterSound, CheckInLimit
<1> QED
  BY <1>1, DelayBounded, CounterInvariant, PTL

\* A counter is the exact number of check-ins its code was good for: refusals
\* use up nothing and no counter starts over.
THEOREM CountersAreExact ==
    ASSUME DelayBounded
    PROVE  Spec => []CountersExact
<1>1. CounterInv => CountersExact
  BY DEF CounterInv, CounterSound, CountersExact
<1> QED
  BY <1>1, DelayBounded, CounterInvariant, PTL

(***************************************************************************)
(* The service implements the register of visits.  An admission is an      *)
(* Admit of the register, the check-out of a visit a Leave, a response     *)
(* that arrives a HandOver, and everything else does not show.             *)
(***************************************************************************)
\* The register's view of the service.
used == [c \in CheckInCode |-> redeemed[c]]
view == <<Active(visits), created \ Active(visits), known, used>>

\* The register starts empty.
LEMMA RegisterInit ==
    ASSUME Init
    PROVE  Register!Init
<1>1. Active(visits) = {}
  BY DEF Init, Active
<1>2. created = {} /\ known = {}
  BY DEF Init
<1>3. \A c \in CheckInCode : redeemed[c] = 0
  BY DEF Init, CheckInCode
<1> QED
  BY <1>1, <1>2, <1>3 DEF Register!Init

\* The register counts as the service does.
LEMMA SameCount ==
    ASSUME NEW S
    PROVE  Register!Cardinality(S) = Cardinality(S)
BY DEF Register!Cardinality, Cardinality

\* An admission: a fresh visit, room for it, and a redemption left.
LEMMA AdmittedRegister ==
    ASSUME DelayBounded, VisitInv, CounterInv, NEW t \in Task,
           NEW v \in VisitId \ created, Admitted(t, v)
    PROVE  \E c \in CheckInCode : Register!Admit(v, c)
<1>1. PICK c \in CheckInCode : c = requests[t].code
  BY WaitsInTime DEF Admitted, CheckInCode
<1>2. redeemed[c] < MaxRedemptionsPerCode
  BY <1>1, AdmittedCount
<1>3. /\ Active(visits') = Active(visits) \cup {v}
      /\ v \notin Active(visits)
      /\ Cardinality(Active(visits)) < MaxActiveVisits
  BY AdmittedActive
<1>4. /\ created' = created \cup {v} /\ known' = known
      /\ redeemed' = [redeemed EXCEPT ![c] = @ + 1]
  BY <1>1 DEF Admitted
<1>5. created' \ Active(visits') = created \ Active(visits)
  BY <1>3, <1>4
<1>6. used' = [used EXCEPT ![c] = @ + 1]
  BY <1>1, <1>4 DEF used, CheckInCode, VisitInv, TypeOK
<1>7. used[c] < MaxRedemptionsPerCode
  BY <1>1, <1>2 DEF used
<1>8. v \notin Active(visits) \cup (created \ Active(visits))
  BY <1>3
<1>9. Register!Admit(v, c)
  BY <1>3, <1>4, <1>5, <1>6, <1>7, <1>8, SameCount DEF Register!Admit, used
<1> QED
  BY <1>1, <1>9

\* A check-out: an open visit whose receipt its visitor holds.
LEMMA ClosedRegister ==
    ASSUME VisitInv, NEW t \in Task, NEW v \in VisitId, VisitClosed(t, v)
    PROVE  Register!Leave(v)
<1> DEFINE c == requests[t].code
<1>1. Active(visits') = Active(visits) \ {v} /\ v \in Active(visits)
  BY ClosedActive
<1>2. /\ created' = created /\ known' = known /\ v \in known
      /\ redeemed' = [redeemed EXCEPT ![c] = @ + 1]
  BY DEF VisitClosed
<1>3. v \in created
  BY <1>2 DEF VisitInv, TypeOK
<1>4. c \notin CheckInCode
  BY DEF VisitClosed, VisitInv, Coherent, CheckOutReady, CheckInCode
<1>5. used' = used
  BY <1>2, <1>4 DEF used, CheckInCode, VisitInv, TypeOK
<1>6. created' \ Active(visits') = (created \ Active(visits)) \cup {v}
  BY <1>1, <1>2, <1>3
<1> QED
  BY <1>1, <1>2, <1>5, <1>6 DEF Register!Leave, used

\* A response: the receipt of an open visit arrives, or nothing shows.
LEMMA RespondRegister ==
    ASSUME VisitInv, NEW t \in Task, Respond(t)
    PROVE  \/ \E v \in VisitId : Register!HandOver(v)
           \/ view' = view
<1> DEFINE v == requests[t].visit_id
<1>1. /\ UNCHANGED <<visits, created, redeemed>>
      /\ known' = known \/ known' = known \cup {v}
  BY DEF Respond, state
<1>2. v \in created /\ created \subseteq VisitId
  BY DEF Respond, VisitInv, TypeOK, Coherent, OutcomeSound
<1>3. used' = used /\ Active(visits') = Active(visits)
      /\ created' \ Active(visits') = created \ Active(visits)
  BY <1>1 DEF used
<1>4. CASE known' = known
  BY <1>3, <1>4 DEF view
<1>5. CASE known' # known
  <2>1. v \notin known /\ known' = known \cup {v}
    BY <1>1, <1>5
  <2>2. v \in Active(visits)
    BY <1>2, <2>1 DEF VisitInv, UndeliveredStaysOpen
  <2>3. Register!HandOver(v)
    BY <1>3, <2>1, <2>2 DEF Register!HandOver, used
  <2> QED
    BY <1>2, <2>3
<1> QED
  BY <1>4, <1>5

\* What shows neither in presence nor in the books does not show at all.
LEMMA UneventfulRegister ==
    ASSUME VisitInv, [Next]_vars
    PROVE  \/ redeemed' = redeemed
           \/ \E t \in Task :
                 \/ \E v \in VisitId \ created : Admitted(t, v)
                 \/ \E v \in VisitId : VisitClosed(t, v)
BY StepForms DEF vars, history, Tick, CheckIn, CheckOut, Respond, Abandon,
                 AdmitRefused, CloseRefused

\* Every step of the service is a step of the register, or does not show.
LEMMA RegisterStep ==
    ASSUME DelayBounded, VisitInv, CounterInv, [Next]_vars
    PROVE  [Register!Next]_(Register!registerVars)
<1>1. view = Register!registerVars /\ view' = Register!registerVars'
  BY DEF view, used, Register!registerVars
<1>2. ASSUME NEW t \in Task, NEW v \in VisitId \ created, Admitted(t, v)
      PROVE  Register!Next
  BY <1>2, AdmittedRegister DEF Register!Next
<1>3. ASSUME NEW t \in Task, NEW v \in VisitId, VisitClosed(t, v)
      PROVE  Register!Next
  BY <1>3, ClosedRegister DEF Register!Next
<1>4. ASSUME NEW t \in Task, Respond(t)
      PROVE  Register!Next \/ view' = view
  BY <1>4, RespondRegister DEF Register!Next
<1>5. ASSUME Uneventful, redeemed' = redeemed
      PROVE  view' = view
  BY <1>5 DEF Uneventful, view, used
<1> QED
  BY <1>1, <1>2, <1>3, <1>4, <1>5, BookForms, UneventfulRegister

\* The visitor service implements the abstract register, as long as a request
\* that waits for the lock gets it in time.
THEOREM RegisterImplemented ==
    ASSUME DelayBounded
    PROVE  Spec => ImplementsRegister
<1>1. Init => Register!Init
  BY RegisterInit
<1>2. VisitInv /\ CounterInv /\ [Next]_vars
         => [Register!Next]_(Register!registerVars)
  BY DelayBounded, RegisterStep
<1> QED
  BY <1>1, <1>2, DelayBounded, VisitInvariant, CounterInvariant, PTL
     DEF Spec, ImplementsRegister, Register!Spec
=============================================================================
