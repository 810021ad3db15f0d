------------------------- MODULE VisitorSystemProofs -------------------------
(***************************************************************************)
(* The visitor side of one process, from start-up to shutdown.  Its steps  *)
(* keep the invariants that VisitorAccessProofs proves of the visitor      *)
(* service; Proved is that module, for the requests and doors of the       *)
(* system.                                                                 *)
(***************************************************************************)
EXTENDS VisitorSystem, FiniteSetTheorems, TLAPS

Proved == INSTANCE VisitorAccessProofs WITH Task <- VisitTask, Door <- ListedDoor

(***************************************************************************)
(* The inductive invariant.                                                *)
(***************************************************************************)
\* The allowlists in force are the ones the operator gave, and the guard is
\* asked only where there is one.
Listed ==
    /\ env.doors = ListedDoor
    /\ auth # None => auth = env.issuers
    /\ visitors # None => visitors = env.doors
    /\ issuing = [t \in QrTask |-> issuing[t]]
    /\ \A t \in QrTask : issuing[t].pc = "authorizing" =>
          auth # None /\ issuing[t].action \in VisitorAction

\* A code in circulation was handed to a listed issuer, for a listed door, in
\* its own minute, with the end of the code's window as its expiry.
CodeSound(c, i, expiry) ==
    /\ i \in env.issuers
    /\ c.door_id \in env.doors
    /\ c \in Proved!Code
    /\ c.issued_minute * Minute <= now
    /\ expiry = (c.issued_minute + 1) * Minute + Grace

HandedSound(h) == CodeSound(h.code, h.identity, h.expires_at)

\* A process without a visitor service keeps nothing and logs nothing.
Dormant ==
    /\ \A t \in VisitTask : requests[t].pc = "idle"
    /\ audit = [a \in Proved!Accepted |-> 0]

\* Visitors wait for the lock only with codes that were handed out.
CodesHanded ==
    \A t \in VisitTask : requests[t].pc = "check_in_lock" =>
        \E h \in handed : h.code = requests[t].code

SystemInv ==
    /\ phase = "starting" => auth = None /\ visitors = None
    /\ Listed
    /\ \A h \in handed : HandedSound(h)
    /\ visitors = None => Dormant
    /\ CodesHanded
    /\ phase = "stopped" => \A t \in VisitTask : requests[t].pc = "idle"

(***************************************************************************)
(* The two instances of the visitor service say the same.                  *)
(***************************************************************************)
\* Codes, counters and tables.
LEMMA SameTables ==
    /\ \A S : Access!Cardinality(S) = Proved!Cardinality(S)
    /\ \A table : Access!Active(table) = Proved!Active(table)
    /\ \A at : Access!RecentRedemptions(at) = Proved!RecentRedemptions(at)
    /\ \A at : Access!RetainedVisits(at) = Proved!RetainedVisits(at)
<1>1. Access!Code = Proved!Code
  BY DEF Access!Code, Proved!Code, Access!VisitorAction, Proved!VisitorAction,
         Access!Minutes, Proved!Minutes, Access!MinuteOf, Proved!MinuteOf
<1>2. \A S : Access!Cardinality(S) = Proved!Cardinality(S)
  BY DEF Access!Cardinality, Proved!Cardinality
<1>3. \A table : Access!Active(table) = Proved!Active(table)
  BY DEF Access!Active, Proved!Active
<1>4. \A at : Access!RecentRedemptions(at) = Proved!RecentRedemptions(at)
  BY <1>1 DEF Access!RecentRedemptions, Proved!RecentRedemptions,
              Access!MinuteOf, Proved!MinuteOf
<1>5. \A at : Access!RetainedVisits(at) = Proved!RetainedVisits(at)
  BY DEF Access!RetainedVisits, Proved!RetainedVisits
<1> QED
  BY <1>2, <1>3, <1>4, <1>5

\* Refusals.
LEMMA SameRefusals ==
    ASSUME NEW t, NEW e, Access!Refuse(t, e)
    PROVE  Proved!Refuse(t, e)
BY DEF Access!Refuse, Proved!Refuse, Access!Answered, Proved!Answered,
       Access!visitor_error, Proved!visitor_error

\* What verify lets through and what it refuses.
LEMMA SameVerification ==
    \A a, at : /\ Access!GoodCodes(a, at) = Proved!GoodCodes(a, at)
               /\ Access!VerifyErrors(a, at) = Proved!VerifyErrors(a, at)
<1>1. \A c, d, a, at : Access!VerifyError(c, d, a, at) = Proved!VerifyError(c, d, a, at)
  BY DEF Access!VerifyError, Proved!VerifyError, Access!validate_door,
     Proved!validate_door, Access!InWindow, Proved!InWindow
<1>2. Access!Issued = Proved!Issued
  BY DEF Access!Issued, Proved!Issued, Access!Issue, Proved!Issue,
         Access!VisitorAction, Proved!VisitorAction, Access!MinuteOf, Proved!MinuteOf
<1> QED
  BY <1>1, <1>2 DEF Access!GoodCodes, Proved!GoodCodes, Access!VerifyErrors,
                    Proved!VerifyErrors

\* The first stretch of both handlers.
LEMMA SameBegin ==
    ASSUME NEW t \in VisitTask, Access!Begin(t)
    PROVE  Proved!Begin(t)
<1>1. Access!Free(t) => Proved!Free(t)
  BY DEF Access!Free, Proved!Free
<1>2. Access!VisitSupply => Proved!VisitSupply
  BY SameTables DEF Access!VisitSupply, Proved!VisitSupply
<1>3. CASE Access!CheckIn(t)
  <2>1. Proved!CheckIn(t)
    BY <1>1, <1>2, <1>3, SameVerification, SameRefusals
       DEF Access!CheckIn, Proved!CheckIn, Access!Await, Proved!Await,
           Access!Queued, Proved!Queued, Access!state, Proved!state,
           Access!history, Proved!history
  <2> QED
    BY <2>1 DEF Proved!Begin
<1>4. CASE Access!CheckOut(t)
  <2>1. Proved!CheckOut(t)
    BY <1>1, <1>4, SameVerification, SameRefusals
       DEF Access!CheckOut, Proved!CheckOut, Access!Await, Proved!Await,
           Access!Queued, Proved!Queued, Access!state, Proved!state,
           Access!history, Proved!history
  <2> QED
    BY <2>1 DEF Proved!Begin
<1> QED
  BY <1>3, <1>4 DEF Access!Begin

\* The locked stretches, and the answer.
LEMMA SameStep ==
    ASSUME NEW t \in VisitTask, Access!Step(t)
    PROVE  Proved!Step(t)
<1>1. CASE Access!AdmitVisitor(t)
  <2>1. /\ \A table, c : Access!Exhausted(table, c) <=> Proved!Exhausted(table, c)
        /\ \A table : Access!AtCapacity(table) <=> Proved!AtCapacity(table)
        /\ \A table, c, at : Access!Counted(table, c, at) = Proved!Counted(table, c, at)
    BY SameTables
       DEF Access!Exhausted, Proved!Exhausted, Access!AtCapacity,
           Proved!AtCapacity, Access!Counted, Proved!Counted, Access!MinuteOf,
           Proved!MinuteOf
  <2>2. Proved!AdmitVisitor(t)
    BY <1>1, <2>1, SameTables, SameRefusals
       DEF Access!AdmitVisitor, Proved!AdmitVisitor, Access!RefuseAtCapacity,
           Proved!RefuseAtCapacity, Access!Accept, Proved!Accept,
           Access!Answered, Proved!Answered
  <2> QED
    BY <2>2 DEF Proved!Step
<1>2. CASE Access!CloseVisit(t)
  <2>1. \A v, r : Access!CheckOutError(v, r) = Proved!CheckOutError(v, r)
    BY DEF Access!CheckOutError, Proved!CheckOutError
  <2>2. Proved!CloseVisit(t)
    BY <1>2, <2>1, SameRefusals
       DEF Access!CloseVisit, Proved!CloseVisit, Access!RefuseCheckOut,
           Proved!RefuseCheckOut, Access!Accept, Proved!Accept,
           Access!Answered, Proved!Answered, Access!Closed, Proved!Closed
  <2> QED
    BY <2>2 DEF Proved!Step
<1>3. CASE Access!Respond(t)
  <2>1. Proved!Respond(t)
    BY <1>3 DEF Access!Respond, Proved!Respond, Access!Answered,
       Proved!Answered, Access!state, Proved!state
  <2> QED
    BY <2>1 DEF Proved!Step
<1> QED
  BY <1>1, <1>2, <1>3 DEF Access!Step

\* A dropped request, and the clock.
LEMMA SameAbandon ==
    ASSUME NEW t \in VisitTask, Access!Abandon(t)
    PROVE  Proved!Abandon(t)
BY DEF Access!Abandon, Proved!Abandon, Access!Waiting, Proved!Waiting,
       Access!IdleRequest, Proved!IdleRequest, Access!Answered, Proved!Answered,
       Access!state, Proved!state, Access!history, Proved!history

\* Time passing.
LEMMA SameTick == Access!Tick => Proved!Tick
BY DEF Access!Tick, Proved!Tick, Access!Waiting, Proved!Waiting, Access!state,
       Proved!state, Access!history, Proved!history

\* The state the service starts in.
LEMMA SameInit == Access!Init => Proved!Init
BY SameTables DEF Access!Init, Proved!Init, Access!IdleRequest, Proved!IdleRequest,
       Access!Answered, Proved!Answered, Access!Accepted, Proved!Accepted,
       Access!Code, Proved!Code, Access!VisitorAction, Proved!VisitorAction,
       Access!Minutes, Proved!Minutes, Access!MinuteOf, Proved!MinuteOf

(***************************************************************************)
(* The visitor service of the process.                                     *)
(***************************************************************************)
\* Start-up, issuers and shutdown leave the service alone.
LEMMA AccessFrame ==
    ASSUME \/ main \/ Shutdown \/ Stop \/ UNCHANGED vars
           \/ \E t \in QrTask \cup VisitTask : Hangup(t)
           \/ \E t \in QrTask :
                 RequestCode(t) \/ GuardAnswers(t) \/ AbandonIssuance(t)
    PROVE  UNCHANGED <<now, visits, redemptions, requests, audit, created,
                       redeemed, known>>
<1>1. UNCHANGED access
  BY DEF main, Shutdown, Stop, Hangup, vars, RequestCode, GuardAnswers,
     AbandonIssuance
<1>2. now' = now
  BY DEF main, Issuance!main, Shutdown, Stop, Hangup, vars, RequestCode,
     Issuance!issue_visitor_qr, GuardAnswers, Issuance!Verified,
     Issuance!Unverified, AbandonIssuance, Issuance!Abandon
<1> QED
  BY <1>1, <1>2 DEF access

\* A step of the process is a step of its visitor service, or does not show.
LEMMA AccessStep ==
    ASSUME [Next]_vars
    PROVE  [Access!Next]_(Access!vars)
<1>1. CASE UNCHANGED <<now, visits, redemptions, requests, audit, created,
                       redeemed, known>>
  BY <1>1 DEF Access!vars, Access!state, Access!history
<1>2. CASE Tick
  BY <1>2 DEF Tick, Access!Next
<1>3. ASSUME NEW t \in VisitTask,
             BeginVisitRequest(t) \/ VisitStep(t) \/ AbandonVisit(t)
      PROVE  Access!Next \/ UNCHANGED <<now, access>>
  BY <1>3 DEF BeginVisitRequest, VisitStep, AbandonVisit, Access!Next
<1> QED
  BY <1>1, <1>2, <1>3, AccessFrame DEF Next, access

\* And so of the service that was proved about.
LEMMA ProvedStep ==
    ASSUME [Next]_vars
    PROVE  [Proved!Next]_(Proved!vars)
<1>1. Access!vars = Proved!vars /\ (Access!vars)' = (Proved!vars)'
  BY DEF Access!vars, Proved!vars, Access!state, Proved!state, Access!history,
         Proved!history
<1>2. Access!Next => Proved!Next
  BY SameBegin, SameStep, SameAbandon, SameTick DEF Access!Next, Proved!Next
<1> QED
  BY <1>1, <1>2, AccessStep

\* The constants of the system are as the service assumes.
LEMMA ServiceConstants ==
    /\ None \notin Proved!Code \cup Proved!Visit \cup Proved!Redemption
    /\ Proved!IsFiniteSet(VisitId) /\ Proved!IsFiniteSet(VisitTask)
<1>1. /\ Access!Code = Proved!Code
      /\ Access!Visit = Proved!Visit
      /\ Access!Redemption = Proved!Redemption
  BY DEF Access!Code, Proved!Code, Access!VisitorAction, Proved!VisitorAction,
         Access!Minutes, Proved!Minutes, Access!MinuteOf, Proved!MinuteOf,
         Access!Visit, Proved!Visit, Access!Redemption, Proved!Redemption
<1>2. \A S : IsFiniteSet(S) => Proved!IsFiniteSet(S)
  BY DEF IsFiniteSet, Proved!IsFiniteSet
<1> QED
  BY <1>1, <1>2, SystemNone, SystemFinite

\* The service starts with its invariants.
LEMMA ServiceInit ==
    ASSUME Proved!Init
    PROVE  Proved!VisitInv /\ Proved!LogInv
BY ServiceConstants, SystemBounds, SystemNone, Proved!VisitInit, Proved!LogInit

\* A step of the service keeps them.
LEMMA ServiceStep ==
    ASSUME Proved!VisitInv, Proved!LogInv, [Proved!Next]_(Proved!vars)
    PROVE  (Proved!VisitInv /\ Proved!LogInv)'
<1>1. Proved!VisitInv'
  BY ServiceConstants, SystemBounds, SystemNone, Proved!VisitStep
<1>2. Proved!LogInv'
  BY ServiceConstants, SystemBounds, SystemNone, Proved!LogStep
<1> QED
  BY <1>1, <1>2

\* They hold throughout.
LEMMA ServiceInvariant == Spec => [](Proved!VisitInv /\ Proved!LogInv)
<1>1. Init => Proved!VisitInv /\ Proved!LogInv
  BY SameInit, ServiceInit DEF Init
<1>2. (Proved!VisitInv /\ Proved!LogInv) /\ [Next]_vars
         => (Proved!VisitInv /\ Proved!LogInv)'
  BY ProvedStep, ServiceStep
<1> QED
  BY <1>1, <1>2, PTL DEF Spec

\* Its redemption counters are sound too, when no request waits too long for
\* the lock.
LEMMA ServiceCounters ==
    ASSUME Proved!DelayBounded
    PROVE  Spec => []Proved!CounterInv
<1>1. Init => Proved!CounterInv
  BY SameInit, ServiceConstants, SystemBounds, SystemNone, Proved!CounterInit DEF Init
<1>2. (Proved!VisitInv /\ Proved!LogInv) /\ Proved!CounterInv /\ [Next]_vars
         => Proved!CounterInv'
  BY ProvedStep, Proved!DelayBounded, ServiceConstants, SystemBounds, SystemNone,
     Proved!CounterStep
<1> QED
  BY <1>1, <1>2, ServiceInvariant, PTL DEF Spec

\* The whole process, from start-up to shutdown, implements the abstract
\* register of visits: room for so many, and a quota per code for ever.
THEOREM RegisterKept ==
    ASSUME Proved!DelayBounded
    PROVE  Spec => Proved!ImplementsRegister
<1>1. Init => Proved!Register!Init
  BY SameInit, ServiceConstants, SystemBounds, SystemNone, Proved!RegisterInit DEF Init
<1>2. (Proved!VisitInv /\ Proved!LogInv) /\ Proved!CounterInv /\ [Next]_vars
         => [Proved!Register!Next]_(Proved!Register!registerVars)
  BY ProvedStep, Proved!DelayBounded, ServiceConstants, SystemBounds, SystemNone,
     Proved!RegisterStep
<1> QED
  BY <1>1, <1>2, ServiceInvariant, ServiceCounters, Proved!DelayBounded, PTL
     DEF Spec, Proved!ImplementsRegister, Proved!Register!Spec

(***************************************************************************)
(* Issuers.                                                                *)
(***************************************************************************)
\* An issuance request is replaced; it waits for the guard only if there is one.
LEMMA ReplaceIssuing ==
    ASSUME Listed, NEW t \in QrTask, NEW r,
           r.pc = "authorizing" => auth # None /\ r.action \in VisitorAction,
           issuing' = [issuing EXCEPT ![t] = r], UNCHANGED <<env, auth, visitors>>
    PROVE  Listed' /\ issuing'[t] = r
<1>1. issuing' = [u \in QrTask |-> issuing'[u]]
  BY DEF Listed
<1>2. issuing'[t] = r /\ \A u \in QrTask \ {t} : issuing'[u] = issuing[u]
  BY DEF Listed
<1> QED
  BY <1>1, <1>2 DEF Listed

\* What a request of an issuer leaves alone, and when it can come.
LEMMA IssuerFrame ==
    ASSUME SystemInv, NEW t \in QrTask,
           RequestCode(t) \/ GuardAnswers(t) \/ AbandonIssuance(t)
    PROVE  UNCHANGED <<env, phase, auth, visitors, access>> /\ phase # "starting"
<1>1. CASE RequestCode(t)
  BY <1>1 DEF RequestCode, Arrives, Issuance!issue_visitor_qr
<1>2. CASE GuardAnswers(t) \/ AbandonIssuance(t)
  <2>1. UNCHANGED <<env, phase, auth, visitors, access>>
    BY <1>2 DEF GuardAnswers, AbandonIssuance, Issuance!Verified,
       Issuance!Unverified, Issuance!Abandon
  <2>2. issuing[t].pc = "authorizing"
    BY <1>2 DEF GuardAnswers, AbandonIssuance, Issuance!Verified,
       Issuance!Unverified, Issuance!Abandon
  <2> QED
    BY <2>1, <2>2 DEF SystemInv, Listed
<1> QED
  BY <1>1, <1>2

\* The code that issue makes for a listed door and an action.
LEMMA IssuedCode ==
    ASSUME now \in 0..MaxClock, NEW i \in env.issuers, NEW d \in ListedDoor,
           d \in env.doors, NEW a \in VisitorAction
    PROVE  CodeSound(Issuance!Issue(d, a, now), i, Issuance!ExpiresAt(now))
<1>1. PICK m : m = MinuteOf(now)
  OBVIOUS
<1>2. m = Proved!MinuteOf(now) /\ m = Issuance!MinuteOf(now)
  BY <1>1 DEF MinuteOf, Proved!MinuteOf, Issuance!MinuteOf
<1>3. m \in Proved!Minutes
  BY <1>2, ServiceConstants, SystemBounds, SystemNone, Proved!MinuteType
<1>4. m * Minute <= now
  <2>1. now \in Nat
    BY SystemBounds
  <2> QED
    BY <1>2, <2>1, ServiceConstants, SystemBounds, SystemNone, Proved!MinuteBounds
<1>5. PICK c : c = [door_id |-> d, action |-> a, issued_minute |-> m]
  OBVIOUS
<1>6. c \in Proved!Code
  BY <1>3, <1>5 DEF Proved!Code, Proved!VisitorAction, VisitorAction
<1>7. Issuance!Issue(d, a, now) = c /\ Issuance!ExpiresAt(now) = (m + 1) * Minute + Grace
  BY <1>2, <1>5 DEF Issuance!Issue, Issuance!ExpiresAt
<1>8. c.door_id = d /\ c.issued_minute = m
  BY <1>5
<1> QED
  BY <1>4, <1>6, <1>7, <1>8 DEF CodeSound

\* The guard lets an issuer have a code only for a listed identity and door.
LEMMA IssuerGiven ==
    ASSUME SystemInv, Proved!VisitInv, NEW t \in QrTask, NEW i \in Identity,
           Issuance!Verified(t, i)
    PROVE  /\ Listed'
           /\ issuing'[t].answer = "Issued" =>
                 CodeSound(issuing'[t].code, issuing'[t].identity,
                           issuing'[t].expires_at)
<1>1. issuing[t].pc = "authorizing" /\ UNCHANGED <<env, auth, visitors>>
  BY DEF Issuance!Verified
<1>2. auth = env.issuers /\ auth # None
  BY <1>1 DEF SystemInv, Listed
<1>3. ASSUME NEW a, a # "Issued", Issuance!Refuse(t, a)
      PROVE  Listed' /\ issuing'[t].answer # "Issued"
  <2>1. PICK r : r = Issuance!Over("done", a)
    OBVIOUS
  <2>2. r.pc = "done" /\ r.answer = a
    BY <2>1 DEF Issuance!Over
  <2>3. issuing' = [issuing EXCEPT ![t] = r]
    BY <1>3, <2>1 DEF Issuance!Refuse
  <2> QED
    BY <1>1, <1>3, <2>2, <2>3, ReplaceIssuing DEF SystemInv
<1>4. Issuance!visitor_error("InvalidDoor") # "Issued"
  BY DEF Issuance!visitor_error
<1>5. CASE /\ Issuance!authorize_qr_issuer(i) = "Authorized"
           /\ visitors # None
           /\ issuing[t].door_id \in visitors
           /\ Issuance!IssueCode(t, i)
  <2>1. PICK r : r = Issuance!Issuing(i, issuing[t].door_id, issuing[t].action, now)
    OBVIOUS
  <2>2. issuing' = [issuing EXCEPT ![t] = r]
    BY <1>5, <2>1 DEF Issuance!IssueCode
  <2>3. r.pc = "done"
    BY <2>1 DEF Issuance!Issuing
  <2>4. Listed' /\ issuing'[t] = r
    BY <1>1, <2>2, <2>3, ReplaceIssuing DEF SystemInv
  <2>5. /\ i \in env.issuers
        /\ issuing[t].door_id \in ListedDoor /\ issuing[t].door_id \in env.doors
        /\ issuing[t].action \in VisitorAction
    BY <1>1, <1>2, <1>5 DEF Issuance!authorize_qr_issuer, SystemInv, Listed
  <2>6. /\ r.identity = i
        /\ r.code = Issuance!Issue(issuing[t].door_id, issuing[t].action, now)
        /\ r.expires_at = Issuance!ExpiresAt(now)
    BY <2>1 DEF Issuance!Issuing
  <2>7. now \in 0..MaxClock
    BY DEF Proved!VisitInv, Proved!TypeOK
  <2>8. CodeSound(r.code, r.identity, r.expires_at)
    BY <2>5, <2>6, <2>7, IssuedCode
  <2> QED
    BY <2>4, <2>8
<1> QED
  BY <1>3, <1>4, <1>5 DEF Issuance!Verified

\* Codes in circulation stay accounted for when an issuer's request moves on.
LEMMA IssuerStep ==
    ASSUME SystemInv, Proved!VisitInv, NEW t \in QrTask,
           RequestCode(t) \/ GuardAnswers(t) \/ AbandonIssuance(t)
    PROVE  Listed' /\ handed \subseteq handed' /\ \A h \in handed' : HandedSound(h)'
<1>1. UNCHANGED <<now, env, auth, visitors>>
  BY IssuerFrame, AccessFrame
<1>2. Listed /\ \A h \in handed : HandedSound(h)
  BY DEF SystemInv
<1>3. ASSUME NEW r, r.answer # "Issued",
             r.pc = "authorizing" => auth # None /\ r.action \in VisitorAction,
             issuing' = [issuing EXCEPT ![t] = r]
      PROVE  Listed' /\ issuing'[t].answer # "Issued"
  BY <1>1, <1>2, <1>3, ReplaceIssuing
<1>4. ASSUME NEW stage, NEW a, stage # "authorizing", a # "Issued",
             issuing' = [issuing EXCEPT ![t] = Issuance!Over(stage, a)]
      PROVE  Listed' /\ issuing'[t].answer # "Issued"
  BY <1>3, <1>4 DEF Issuance!Over
<1>5. CASE RequestCode(t)
  <2>1. handed' = handed
    BY <1>5 DEF RequestCode
  <2>2. PICK action, door : Issuance!issue_visitor_qr(t, action, door)
    BY <1>5 DEF RequestCode
  <2>3. ASSUME auth # None, action \in VisitorAction,
               issuing' = [issuing EXCEPT ![t] = Issuance!Authorizing(action, door)]
        PROVE  Listed'
    <3>1. PICK r : r = Issuance!Authorizing(action, door)
      OBVIOUS
    <3>2. r.answer # "Issued" /\ r.action = action
      BY <3>1 DEF Issuance!Authorizing
    <3> QED
      BY <1>3, <2>3, <3>1, <3>2
  <2>4. Issuance!visitor_error("InvalidAction") # "Issued"
    BY DEF Issuance!visitor_error
  <2>5. Issuance!VisitorAction = VisitorAction
    BY DEF Issuance!VisitorAction, VisitorAction
  <2>6. Listed'
    BY <1>4, <2>2, <2>3, <2>4, <2>5 DEF Issuance!issue_visitor_qr, Issuance!Refuse
  <2> QED
    BY <1>1, <1>2, <2>1, <2>6 DEF HandedSound, CodeSound
<1>6. CASE AbandonIssuance(t)
  <2>1. issuing' = [issuing EXCEPT ![t] = Issuance!Over("idle", "none")]
    BY <1>6 DEF AbandonIssuance, Issuance!Abandon, Issuance!Idle
  <2>2. handed' = handed
    BY <1>6 DEF AbandonIssuance
  <2> QED
    BY <1>1, <1>2, <1>4, <2>1, <2>2 DEF HandedSound, CodeSound
<1>7. CASE GuardAnswers(t)
  <2>1. handed' = handed \cup
          {h \in {[code |-> issuing'[t].code, identity |-> issuing'[t].identity,
                  expires_at |-> issuing'[t].expires_at]} :
              /\ issuing'[t].answer = "Issued"
              /\ \A g \in handed : g.code # h.code}
    BY <1>7 DEF GuardAnswers
  <2>2. /\ Listed'
        /\ issuing'[t].answer = "Issued" =>
              CodeSound(issuing'[t].code, issuing'[t].identity,
                        issuing'[t].expires_at)
    <3>1. ASSUME NEW a \in {"unauthorized", "authentication_unavailable"},
                 Issuance!Refuse(t, a)
          PROVE  Listed' /\ issuing'[t].answer # "Issued"
      BY <1>4, <3>1 DEF Issuance!Refuse
    <3> QED
      BY <1>7, <3>1, IssuerGiven DEF GuardAnswers, Issuance!Unverified
  <2>3. ASSUME NEW h \in handed' PROVE HandedSound(h)'
    <3>1. CASE h \in handed
      BY <1>1, <1>2, <3>1 DEF HandedSound, CodeSound
    <3>2. CASE /\ h = [code |-> issuing'[t].code, identity |-> issuing'[t].identity,
                       expires_at |-> issuing'[t].expires_at]
               /\ issuing'[t].answer = "Issued"
      BY <1>1, <2>2, <3>2 DEF HandedSound, CodeSound
    <3> QED
      BY <2>1, <3>1, <3>2
  <2> QED
    BY <2>1, <2>2, <2>3
<1> QED
  BY <1>5, <1>6, <1>7

(***************************************************************************)
(* Visitors.                                                               *)
(***************************************************************************)
\* A request past its first stretch is served by a configured process that
\* has not stopped.
LEMMA ServedOnly ==
    ASSUME SystemInv, NEW t \in VisitTask, requests[t].pc # "idle"
    PROVE  visitors # None /\ phase \notin {"starting", "stopped"}
BY DEF SystemInv, Dormant

\* The stage of the one request that a step of the service moves.
LEMMA StageAfterStep ==
    ASSUME Proved!VisitInv, NEW t \in VisitTask, Access!Step(t) \/ Access!Abandon(t)
    PROVE  /\ requests[t].pc # "idle"
           /\ requests'[t].pc # "check_in_lock"
           /\ \A u \in VisitTask \ {t} : requests'[u] = requests[u]
<1>1. requests = [u \in VisitTask |-> requests[u]]
  BY DEF Proved!VisitInv, Proved!TypeOK
<1>2. requests[t].pc # "idle"
  BY DEF Access!Step, Access!AdmitVisitor, Access!CloseVisit, Access!Respond,
         Access!Abandon, Access!Waiting
<1>3. \E stage \in {"idle", "respond"} : \E v, a :
         requests' = [requests EXCEPT ![t] = Access!Answered(stage, v, a)]
  <2>1. CASE Access!AdmitVisitor(t)
    BY <2>1 DEF Access!AdmitVisitor, Access!RefuseAtCapacity, Access!Refuse,
       Access!Accept
  <2>2. CASE Access!CloseVisit(t)
    BY <2>2 DEF Access!CloseVisit, Access!RefuseCheckOut, Access!Refuse,
       Access!Accept
  <2>3. CASE Access!Respond(t)
    BY <2>3 DEF Access!Respond
  <2>4. CASE Access!Abandon(t)
    BY <2>4 DEF Access!Abandon, Access!IdleRequest
  <2> QED
    BY <2>1, <2>2, <2>3, <2>4 DEF Access!Step
<1>4. \A stage, v, a : Access!Answered(stage, v, a).pc = stage
  BY DEF Access!Answered
<1> QED
  BY <1>1, <1>2, <1>3, <1>4

\* A step of a visitor's request.
LEMMA VisitorStep ==
    ASSUME SystemInv, Proved!VisitInv, NEW t \in VisitTask,
           BeginVisitRequest(t) \/ VisitStep(t) \/ AbandonVisit(t)
    PROVE  SystemInv'
<1>1. UNCHANGED <<now, phase, env, auth, visitors, issuing, handed>>
  BY DEF BeginVisitRequest, VisitStep, AbandonVisit, issuance, Access!Begin,
     Access!CheckIn, Access!CheckOut, Access!Step, Access!AdmitVisitor,
     Access!CloseVisit, Access!Respond, Access!Abandon
<1>2. Listed' /\ \A h \in handed' : HandedSound(h)'
  BY <1>1 DEF SystemInv, Listed, HandedSound, CodeSound
<1>3. CASE visitors = None /\ BeginVisitRequest(t)
  <2>1. UNCHANGED <<requests, audit>> /\ phase \notin {"starting", "stopped"}
    BY <1>3 DEF BeginVisitRequest, Arrives, access
  <2> QED
    BY <1>1, <1>2, <2>1 DEF SystemInv, Dormant, CodesHanded, Proved!Accepted
<1>4. CASE visitors # None /\ BeginVisitRequest(t)
  <2>1. /\ phase \notin {"starting", "stopped"}
        /\ Access!Begin(t)
        /\ Access!Free(t)' \/ \E h \in handed : h.code = requests'[t].code
    BY <1>4 DEF BeginVisitRequest, Arrives
  <2>2. \A u \in VisitTask \ {t} : requests'[u] = requests[u]
    <3>1. requests = [u \in VisitTask |-> requests[u]]
      BY DEF Proved!VisitInv, Proved!TypeOK
    <3>2. \E r : requests' = [requests EXCEPT ![t] = r]
      BY <2>1 DEF Access!Begin, Access!CheckIn, Access!CheckOut, Access!Refuse,
         Access!Await
    <3> QED
      BY <3>1, <3>2
  <2>3. CodesHanded'
    BY <1>1, <2>1, <2>2 DEF SystemInv, CodesHanded, Access!Free
  <2> QED
    BY <1>1, <1>2, <1>4, <2>1, <2>3 DEF SystemInv
<1>5. CASE VisitStep(t) \/ AbandonVisit(t)
  <2>1. Access!Step(t) \/ Access!Abandon(t)
    BY <1>5 DEF VisitStep, AbandonVisit
  <2>2. visitors # None /\ phase \notin {"starting", "stopped"}
    BY <2>1, StageAfterStep, ServedOnly
  <2>3. CodesHanded'
    BY <1>1, <2>1, StageAfterStep DEF SystemInv, CodesHanded
  <2> QED
    BY <1>1, <1>2, <2>2, <2>3 DEF SystemInv
<1> QED
  BY <1>3, <1>4, <1>5

(***************************************************************************)
(* The process.                                                            *)
(***************************************************************************)
\* Where the visitor service does not move, its requests stay.
LEMMA ServiceStays ==
    ASSUME SystemInv, UNCHANGED <<visitors, requests, audit>>, handed \subseteq handed'
    PROVE  (visitors' = None => Dormant') /\ CodesHanded'
BY DEF SystemInv, Dormant, CodesHanded, Proved!Accepted

\* Start-up: from a fresh process to one that serves, or fails.
LEMMA MainStep ==
    ASSUME SystemInv, main
    PROVE  SystemInv'
<1>1. /\ phase = "starting" /\ phase' \in {"failed", "serving"}
      /\ UNCHANGED <<now, env, issuing, handed>>
      /\ UNCHANGED <<requests, audit>>
  BY AccessFrame DEF main, Issuance!main
<1>2. auth = None /\ visitors = None /\ Dormant
  BY <1>1 DEF SystemInv
<1>3. Dormant' /\ CodesHanded'
  BY <1>1, <1>2 DEF Dormant, CodesHanded, Proved!Accepted
<1>4. Listed'
  <2>1. /\ auth' \in {None, env.issuers}
        /\ visitors' \in {None, env.doors}
    BY <1>1, <1>2 DEF main, Issuance!main
  <2>2. \A t \in QrTask : issuing[t].pc # "authorizing"
    BY <1>2 DEF SystemInv, Listed
  <2> QED
    BY <1>1, <2>1, <2>2 DEF SystemInv, Listed
<1>5. \A h \in handed' : HandedSound(h)'
  BY <1>1 DEF SystemInv, HandedSound, CodeSound
<1> QED
  BY <1>1, <1>3, <1>4, <1>5 DEF SystemInv

\* The clock.
LEMMA ClockStep ==
    ASSUME SystemInv, Proved!VisitInv, Tick
    PROVE  SystemInv'
<1>1. /\ UNCHANGED <<phase, env, auth, visitors, issuing, handed, requests, audit>>
      /\ phase \notin {"starting", "stopped"}
  BY DEF Tick, issuance, Access!Tick
<1>2. now \in Nat /\ now' = now + 1
  BY SystemBounds DEF Tick, Access!Tick, Proved!VisitInv, Proved!TypeOK
<1>3. \A c \in Proved!Code : c.issued_minute * Minute \in Nat
  <2>1. \A c \in Proved!Code : c.issued_minute \in Nat
    BY DEF Proved!Code, Proved!Minutes
  <2> QED
    BY <2>1, SystemBounds
<1>4. ASSUME NEW h \in handed PROVE HandedSound(h)'
  <2>1. CodeSound(h.code, h.identity, h.expires_at)
    BY <1>4 DEF SystemInv, HandedSound
  <2>2. h.code.issued_minute * Minute <= now'
    BY <1>2, <1>3, <2>1 DEF CodeSound
  <2> QED
    BY <1>1, <2>1, <2>2 DEF HandedSound, CodeSound
<1>5. Listed'
  BY <1>1 DEF SystemInv, Listed
<1> QED
  BY <1>1, <1>4, <1>5, ServiceStays DEF SystemInv

\* Shutdown, and the end of the process once it has drained.
LEMMA ShutdownStep ==
    ASSUME SystemInv, Shutdown \/ Stop
    PROVE  SystemInv'
<1>1. /\ UNCHANGED <<now, env, auth, visitors, issuing, handed, requests, audit>>
      /\ phase' \in {"draining", "stopped"}
  BY AccessFrame DEF Shutdown, Stop, issuance
<1>2. Listed' /\ \A h \in handed' : HandedSound(h)'
  BY <1>1 DEF SystemInv, Listed, HandedSound, CodeSound
<1>3. phase' = "stopped" => \A t \in VisitTask : requests'[t].pc = "idle"
  BY <1>1 DEF Shutdown, Stop, Drained, Access!Free
<1> QED
  BY <1>1, <1>2, <1>3, ServiceStays DEF SystemInv

\* SystemInv is inductive, given the invariant of the service.
LEMMA SystemStep ==
    ASSUME SystemInv, Proved!VisitInv, [Next]_vars
    PROVE  SystemInv'
<1>1. ASSUME NEW t \in QrTask, RequestCode(t) \/ GuardAnswers(t) \/ AbandonIssuance(t)
      PROVE  SystemInv'
  <2>1. UNCHANGED <<phase, visitors, requests, audit>> /\ phase # "starting"
    BY <1>1, IssuerFrame, AccessFrame
  <2>2. Listed' /\ handed \subseteq handed' /\ \A h \in handed' : HandedSound(h)'
    BY <1>1, IssuerStep
  <2> QED
    BY <2>1, <2>2, ServiceStays DEF SystemInv
<1>2. CASE UNCHANGED vars \/ \E t \in QrTask \cup VisitTask : Hangup(t)
  <2>1. UNCHANGED <<now, phase, env, auth, visitors, issuing, handed, requests, audit>>
    BY <1>2 DEF vars, Hangup, issuance, access
  <2>2. Listed' /\ \A h \in handed' : HandedSound(h)'
    BY <2>1 DEF SystemInv, Listed, HandedSound, CodeSound
  <2> QED
    BY <2>1, <2>2, ServiceStays DEF SystemInv
<1> QED
  BY <1>1, <1>2, MainStep, ClockStep, ShutdownStep, VisitorStep DEF Next

\* A process that has not started.
LEMMA SystemInit == Init => SystemInv
<1> SUFFICES ASSUME Init PROVE SystemInv
  OBVIOUS
<1>1. /\ phase = "starting" /\ auth = None /\ visitors = None
      /\ issuing = [t \in QrTask |-> Issuance!Idle]
  BY DEF Init, Issuance!Init
<1>2. Proved!Init
  BY SameInit DEF Init
<1>3. Listed
  BY <1>1 DEF Init, Listed, Issuance!Idle, Issuance!Over
<1>4. \A t \in VisitTask : requests[t].pc = "idle"
  BY <1>2 DEF Proved!Init, Proved!IdleRequest, Proved!Answered
<1>5. Dormant /\ CodesHanded
  BY <1>2, <1>4 DEF Proved!Init, Dormant, CodesHanded
<1> QED
  BY <1>1, <1>3, <1>4, <1>5 DEF Init, SystemInv

\* SystemInv holds throughout.
LEMMA SystemInvariant == Spec => []SystemInv
<1>1. SystemInv /\ (Proved!VisitInv /\ Proved!LogInv) /\ [Next]_vars => SystemInv'
  BY SystemStep
<1> QED
  BY <1>1, SystemInit, ServiceInvariant, PTL DEF Spec

(***************************************************************************)
(* The theorems.                                                           *)
(***************************************************************************)
\* A stopped process has no answer left to log.
LEMMA NothingUnlogged ==
    ASSUME \A t \in VisitTask : requests[t].pc = "idle", NEW a
    PROVE  Proved!Unlogged(a) = 0
<1>1. {t \in VisitTask : requests[t].pc = "respond" /\ requests[t].answer = a} = {}
  OBVIOUS
<1>2. Proved!Cardinality({}) = Cardinality({})
  BY DEF Proved!Cardinality, Cardinality
<1> QED
  BY <1>1, <1>2, FS_EmptySet DEF Proved!Unlogged

\* When a process has stopped on ctrl-c, check-ins minus check-outs in its log
\* are the open visits it lost, whenever the signal came.
THEOREM StopReconciles == Spec => []StoppedIsReconciled
<1>1. ASSUME SystemInv, Proved!VisitInv, Proved!LogInv PROVE StoppedIsReconciled
  <2> SUFFICES ASSUME phase = "stopped"
               PROVE  audit["CheckedIn"] - audit["CheckedOut"] = health.active_visits
    BY DEF StoppedIsReconciled
  <2>1. \A t \in VisitTask : requests[t].pc = "idle"
    BY <1>1 DEF SystemInv
  <2>2. CASE visitors = None
    <3>1. audit["CheckedIn"] = 0 /\ audit["CheckedOut"] = 0
      BY <1>1, <2>2 DEF SystemInv, Dormant, Proved!Accepted
    <3> QED
      BY <2>2, <3>1 DEF health
  <2>3. CASE visitors # None
    <3>1. Proved!LogReconciles /\ Proved!TypeOK
      BY <1>1 DEF Proved!LogInv, Proved!VisitInv
    <3>2. audit["CheckedIn"] \in Nat /\ audit["CheckedOut"] \in Nat
      BY <3>1 DEF Proved!TypeOK, Proved!Accepted
    <3>3. Proved!Unlogged("CheckedIn") = 0 /\ Proved!Unlogged("CheckedOut") = 0
      BY <2>1, NothingUnlogged
    <3>4. Proved!active_visit_count = audit["CheckedIn"] - audit["CheckedOut"]
      BY <3>1, <3>2, <3>3 DEF Proved!LogReconciles
    <3>5. Access!active_visit_count = Proved!active_visit_count
      BY SameTables DEF Access!active_visit_count, Proved!active_visit_count
    <3> QED
      BY <2>3, <3>4, <3>5 DEF health
  <2> QED
    BY <2>2, <2>3
<1>2. SystemInv /\ (Proved!VisitInv /\ Proved!LogInv) => StoppedIsReconciled
  BY <1>1
<1> QED
  BY <1>2, SystemInvariant, ServiceInvariant, PTL

\* Only the locked stretch of a check-in counts a check-in code up.
LEMMA CountedUp ==
    ASSUME SystemInv, Proved!VisitInv, [Next]_vars, NEW c \in Proved!CheckInCode,
           redeemed'[c] > redeemed[c]
    PROVE  \E t \in VisitTask :
              /\ requests[t].pc = "check_in_lock"
              /\ requests[t].code = c
<1>1. c \in Proved!Code /\ c.action = "check-in"
  BY DEF Proved!CheckInCode
<1>2. redeemed \in [Proved!Code -> Nat]
  BY DEF Proved!VisitInv, Proved!TypeOK
<1>3. redeemed' # redeemed
  BY <1>1, <1>2
<1>4. ASSUME NEW t \in QrTask, RequestCode(t) \/ GuardAnswers(t) \/ AbandonIssuance(t)
      PROVE  FALSE
  BY <1>3, <1>4, AccessFrame
<1>5. /\ ~ main /\ ~ Tick /\ ~ Shutdown /\ ~ Stop /\ ~ UNCHANGED vars
      /\ \A t \in QrTask \cup VisitTask : ~ Hangup(t)
  BY <1>3, AccessFrame DEF Tick, Access!Tick, Access!history
<1>6. ASSUME NEW t \in VisitTask, BeginVisitRequest(t) \/ AbandonVisit(t)
      PROVE  FALSE
  BY <1>3, <1>6 DEF BeginVisitRequest, AbandonVisit, Access!Begin, Access!CheckIn,
     Access!CheckOut, Access!Abandon, Access!history, access
<1>7. PICK t \in VisitTask : VisitStep(t)
  BY <1>4, <1>5, <1>6 DEF Next
<1>8. Access!AdmitVisitor(t) \/ Access!CloseVisit(t)
  BY <1>3, <1>7 DEF VisitStep, Access!Step, Access!Respond
<1>9. /\ requests[t].pc \in {"check_in_lock", "check_out_lock"}
      /\ redeemed' = [redeemed EXCEPT ![requests[t].code] = @ + 1]
  BY <1>3, <1>8 DEF Access!AdmitVisitor, Access!CloseVisit, Access!RefuseCheckOut
<1>10. requests[t].code = c
  BY <1>1, <1>2, <1>9
<1>11. Proved!Coherent(requests[t])
  BY DEF Proved!VisitInv
<1>12. requests[t].pc = "check_in_lock"
  BY <1>1, <1>9, <1>10, <1>11 DEF Proved!Coherent, Proved!CheckOutReady
<1> QED
  BY <1>10, <1>12

\* Whoever gets in does so with a check-in code of a listed door that a listed
\* issuer was handed, no later than the lock's delay after the expiry shown.
THEOREM EntriesAccountedFor == Spec => EntryIsAccountedFor
<1>1. ASSUME SystemInv, Proved!VisitInv, [Next]_vars, NEW c \in Access!CheckInCode,
             redeemed'[c] > redeemed[c]
      PROVE  \E h \in handed :
                /\ h.code = c
                /\ h.identity \in env.issuers
                /\ c.door_id \in env.doors
                /\ now <= h.expires_at + MaxDelay
  <2>1. c \in Proved!CheckInCode
    BY DEF Access!CheckInCode, Proved!CheckInCode, Access!Code, Proved!Code,
       Access!VisitorAction, Proved!VisitorAction, Access!Minutes,
       Proved!Minutes, Access!MinuteOf, Proved!MinuteOf
  <2>2. PICK t \in VisitTask : requests[t].pc = "check_in_lock" /\ requests[t].code = c
    BY <1>1, <2>1, CountedUp
  <2>3. PICK h \in handed : h.code = c /\ HandedSound(h)
    BY <1>1, <2>2 DEF SystemInv, CodesHanded
  <2>4. Proved!VisitInv
    BY <1>1
  <2>5. /\ now <= requests[t].now + MaxDelay
        /\ requests[t].now <= c.issued_minute * Minute + Minute + Grace
    BY <2>2, <2>4 DEF Proved!VisitInv, Proved!Coherent, Proved!InTime,
       Proved!CheckInReady, Proved!InWindow
  <2>6. now \in Nat /\ requests[t].now \in Nat
    BY <2>4, SystemBounds DEF Proved!VisitInv, Proved!TypeOK, Proved!Request
  <2>7. c.issued_minute \in Nat
    BY <2>1, SystemBounds DEF Proved!CheckInCode, Proved!Code, Proved!Minutes
  <2>8. (c.issued_minute + 1) * Minute = c.issued_minute * Minute + Minute
        /\ c.issued_minute * Minute \in Nat
    BY <2>7, SystemBounds
  <2>9. h.expires_at = c.issued_minute * Minute + Minute + Grace
    BY <2>3, <2>8 DEF HandedSound, CodeSound
  <2>10. now <= h.expires_at + MaxDelay
    BY <2>5, <2>6, <2>8, <2>9, SystemBounds
  <2> QED
    BY <2>3, <2>10 DEF HandedSound, CodeSound
<1>2. SystemInv /\ (Proved!VisitInv /\ Proved!LogInv) /\ [Next]_vars =>
         [\A c \in Access!CheckInCode : redeemed'[c] > redeemed[c] =>
             \E h \in handed :
                 /\ h.code = c
                 /\ h.identity \in env.issuers
                 /\ c.door_id \in env.doors
                 /\ now <= h.expires_at + MaxDelay]_vars
  BY <1>1
<1> QED
  BY <1>2, SystemInvariant, ServiceInvariant, PTL DEF Spec, EntryIsAccountedFor

\* Every code in circulation is accepted at its door, for its action, up to the
\* second its issuer was shown, and is told expired from then on.
THEOREM HandedHonoured == Spec => []HandedAreHonoured
<1>1. ASSUME SystemInv, Proved!VisitInv, NEW h \in handed
      PROVE  Access!VerifyError(h.code, h.code.door_id, h.code.action, now)
                 = IF now <= h.expires_at THEN "none" ELSE "ExpiredQr"
  <2>1. CodeSound(h.code, h.identity, h.expires_at)
    BY <1>1 DEF SystemInv, HandedSound
  <2>2. h.code.door_id \in ListedDoor
    BY <1>1, <2>1 DEF CodeSound, SystemInv, Listed
  <2>3. h.code # None
    BY <2>1, ServiceConstants DEF CodeSound
  <2>4. h.code.issued_minute \in Nat /\ now \in Nat
    BY <1>1, <2>1, SystemBounds DEF CodeSound, Proved!Code, Proved!Minutes,
       Proved!VisitInv, Proved!TypeOK
  <2>5. h.expires_at = h.code.issued_minute * Minute + Minute + Grace
    <3>1. (h.code.issued_minute + 1) * Minute = h.code.issued_minute * Minute + Minute
      BY <2>4, SystemBounds
    <3> QED
      BY <2>1, <3>1 DEF CodeSound
  <2>6. Access!InWindow(h.code, now) <=> now <= h.expires_at
    BY <2>1, <2>5 DEF CodeSound, Access!InWindow
  <2> QED
    BY <2>2, <2>3, <2>6 DEF Access!VerifyError, Access!validate_door
<1>2. SystemInv /\ (Proved!VisitInv /\ Proved!LogInv) => HandedAreHonoured
  BY <1>1 DEF HandedAreHonoured
<1> QED
  BY <1>2, SystemInvariant, ServiceInvariant, PTL
=============================================================================
