------------------------ MODULE PresenceCallerProofs ------------------------
(***************************************************************************)
(* What the callers of the doorway admission engine may rely on: the caps  *)
(* of its tables, the life of a nonce, and the answers to retries and to   *)
(* replays.  All of it rests on the invariants of PresenceAdmissionProofs. *)
(***************************************************************************)
EXTENDS PresenceAdmissionProofs, FiniteSetTheorems

\* A call has no answer before it returns, and carries an observation only if
\* it is a submission.
UnansweredCall(c) ==
    /\ c.pc # "done" => c.answer = "none" /\ c.decision = None
    /\ c.pc \in {"idle", "nonce_lock"} => c.observation = None
    /\ c.pc = "done" => c.answer # "none"

Unanswered == \A t \in Task : UnansweredCall(calls[t])

\* What LedgerCoherent says of challenges and evidence, for nonces: a grant
\* that is no longer pending was spent on a recorded request, or has outlived
\* its lifetime.
SpentBy(n) == \E i \in Recorded : Request(i).submission_nonce = n

Accounted(n) ==
    granted[n] # None =>
        \/ nonces[n] = granted[n]
        \/ granted[n].expires_at <= now
        \/ SpentBy(n)

SpendingInv == \A n \in Nonce : Accounted(n)

(***************************************************************************)
(* The effects of the two steps that change the ledger.                    *)
(***************************************************************************)
\* Call t, made by p at instant at, records a decision about o.
Records(t, p, o, at) ==
    /\ p = calls[t].principal
    /\ o = calls[t].observation
    /\ at = calls[t].now
    /\ calls[t].pc = "second_lock"
    /\ o.observation_id \notin Recorded
    /\ Refusal(p, o, at) = "none"
    /\ Record(t, p, o, at)
    /\ UNCHANGED <<now, granted>>

\* Every step leaves the ledger alone, grants or prunes, or records.
LEMMA StepCases ==
    ASSUME TypeInv, [Next]_vars
    PROVE  \/ UNCHANGED <<ledger, granted, admittedBy>>
           \/ \E t \in Task : GrantNonce(t)
           \/ \E t \in Task, p \in Principal, o \in Observation,
                 at \in 0..MaxClock : Records(t, p, o, at)
<1>1. ASSUME NEW t \in Task, Commit(t)
      PROVE  \/ UNCHANGED <<ledger, granted, admittedBy>>
             \/ \E p \in Principal, o \in Observation, at \in 0..MaxClock :
                   Records(t, p, o, at)
  <2>1. Submitting(calls[t]) /\ calls[t].pc = "second_lock" /\ UNCHANGED <<now, granted>>
    BY <1>1 DEF Commit, Submitting
  <2>2. CASE UNCHANGED <<ledger, admittedBy>>
    BY <2>1, <2>2
  <2>3. CASE /\ ~ RecordedMeanwhile(t)
             /\ Refusal(calls[t].principal, calls[t].observation, calls[t].now) = "none"
             /\ Record(t, calls[t].principal, calls[t].observation, calls[t].now)
    <3>1. PICK p \in Principal, o \in Observation, at \in 0..MaxClock :
             p = calls[t].principal /\ o = calls[t].observation /\ at = calls[t].now
      BY <2>1, SubmittingType
    <3>2. Records(t, p, o, at)
      BY <2>1, <2>3, <3>1 DEF Records, RecordedMeanwhile
    <3> QED
      BY <3>2
  <2> QED
    BY <1>1, <2>2, <2>3 DEF Commit, Refuse
<1> QED
  BY <1>1 DEF Next, Tick, Begin, IssueNonce, Submit, Step, LookUp, Verify,
              Abandon, vars

\* What recording a decision about o does to the ledger.
LEMMA RecordEffect ==
    ASSUME TypeInv, NEW t \in Task, NEW p \in Principal, NEW o \in Observation,
           NEW at \in 0..MaxClock, Records(t, p, o, at)
    PROVE  /\ o.observation_id \in ObservationId
           /\ o.submission_nonce \in Nonce
           /\ o.house_id \in House
           /\ Decision(p, o, at) \in PresenceDecision
           /\ nonces' = [nonces EXCEPT ![o.submission_nonce] = None]
           /\ used_challenges' = used_challenges \cup {o.challenge_id}
           /\ used_evidence' = used_evidence \cup {o.evidence_id}
           /\ decisions[o.observation_id] = None
           /\ decisions'[o.observation_id] =
                 [request_digest |-> o, decision |-> Decision(p, o, at)]
           /\ Recorded' = Recorded \cup {o.observation_id}
           /\ admittedBy'[o.observation_id] = p
           /\ Request(o.observation_id)' = o
           /\ \A i \in Recorded : /\ decisions'[i] = decisions[i]
                                  /\ admittedBy'[i] = admittedBy[i]
                                  /\ Request(i)' = Request(i)
<1> DEFINE k == o.observation_id
           d == Decision(p, o, at)
<1>1. /\ k \in ObservationId
      /\ o.submission_nonce \in Nonce
      /\ o.house_id \in House
  BY ObservationAssumption DEF DoorwayObservation
<1>2. /\ k \notin Recorded
      /\ Refusal(p, o, at) = "none"
      /\ Record(t, p, o, at)
  BY DEF Records
<1>3. d \in PresenceDecision
  BY <1>2, DecisionType
<1>4. [request_digest |-> o, decision |-> d] # None
  BY <1>3, NoneAssumption DEF RecordedDecision
<1>5. /\ nonces' = [nonces EXCEPT ![o.submission_nonce] = None]
      /\ used_challenges' = used_challenges \cup {o.challenge_id}
      /\ used_evidence' = used_evidence \cup {o.evidence_id}
      /\ decisions' = [decisions EXCEPT ![k] = [request_digest |-> o, decision |-> d]]
      /\ admittedBy' = [admittedBy EXCEPT ![k] = p]
  BY <1>2 DEF Record, Spend
<1> HIDE DEF k, d
<1>6. decisions[k] = None
  BY <1>1, <1>2 DEF Recorded
<1>7. /\ Recorded' = Recorded \cup {k}
      /\ decisions'[k] = [request_digest |-> o, decision |-> d]
      /\ admittedBy'[k] = p
      /\ \A i \in Recorded : /\ decisions'[i] = decisions[i]
                             /\ admittedBy'[i] = admittedBy[i]
  BY <1>1, <1>4, <1>5, <1>6 DEF Recorded, TypeInv, TypeOK
<1>8. /\ Request(k)' = o
      /\ \A i \in Recorded : Request(i)' = Request(i)
  BY <1>7 DEF Request
<1> QED
  BY <1>1, <1>3, <1>5, <1>6, <1>7, <1>8 DEF k, d

\* Of the pending nonces, recording a decision about o takes only its own.
LEMMA RecordSpends ==
    ASSUME TypeInv, NEW t \in Task, NEW p \in Principal, NEW o \in Observation,
           NEW at \in 0..MaxClock, Records(t, p, o, at)
    PROVE  /\ o.submission_nonce \in Nonce
           /\ nonces[o.submission_nonce] # None
           /\ nonces'[o.submission_nonce] = None
           /\ \A n \in Nonce \ {o.submission_nonce} : nonces'[n] = nonces[n]
<1>1. o.submission_nonce \in Nonce
  BY ObservationAssumption DEF DoorwayObservation
<1>2. nonces' = [nonces EXCEPT ![o.submission_nonce] = None]
  BY DEF Records, Record, Spend
<1>3. nonces[o.submission_nonce] # None
  BY DEF Records, Refusal
<1> QED
  BY <1>1, <1>2, <1>3 DEF TypeInv, TypeOK

\* A nonce is left alone by the locked stretch of issue_nonce, dropped because
\* it lapsed, or is the one newly granted, which was never granted before.
LEMMA GrantEffect ==
    ASSUME TypeInv, LedgerInv, NEW t \in Task, GrantNonce(t), NEW n \in Nonce
    PROVE  \/ nonces'[n] = nonces[n] /\ granted'[n] = granted[n]
           \/ /\ nonces'[n] = None
              /\ nonces[n] # None
              /\ nonces[n].expires_at <= now
              /\ granted'[n] = granted[n]
           \/ /\ nonces[n] = None
              /\ granted[n] = None
              /\ nonces'[n] = granted'[n]
<1> DEFINE c == calls[t]
           live == LiveNonces(c.now)
           grant == [principal |-> c.principal, house_id |-> c.house_id,
                     issued_at |-> c.now, expires_at |-> c.now + NonceTtl]
<1>1. c \in Call /\ Coherent(c)
  BY DEF TypeInv, TypeOK, CallsCoherent
<1>2. c.now <= now /\ c.now \in Nat /\ now \in Nat
  BY <1>1, BoundsAssumption DEF Coherent, Call, Time, TypeInv, TypeOK
<1>3. \/ live[n] = nonces[n]
      \/ live[n] = None /\ nonces[n] # None /\ nonces[n].expires_at <= now
  <2>1. CASE nonces[n] = None
    BY <2>1 DEF LiveNonces
  <2>2. CASE nonces[n] # None
    <3>1. nonces[n].expires_at \in Nat
      BY <2>2, BoundsAssumption DEF TypeInv, TypeOK, NonceGrant, Time
    <3> QED
      BY <1>2, <2>2, <3>1 DEF LiveNonces
  <2> QED
    BY <2>1, <2>2
<1>4. live \in [Nonce -> NonceGrant \cup {None}]
  BY DEF LiveNonces, TypeInv, TypeOK
<1>5. nonces[n] # None => granted[n] = nonces[n]
  BY DEF LedgerInv, LedgerCoherent
<1> HIDE DEF live, grant
<1>6. CASE nonces' = live /\ granted' = granted
  BY <1>3, <1>6
<1>7. ASSUME NEW m \in FreshNonce,
             nonces' = [live EXCEPT ![m] = grant],
             granted' = [granted EXCEPT ![m] = grant]
      PROVE  \/ nonces'[n] = nonces[n] /\ granted'[n] = granted[n]
             \/ /\ nonces'[n] = None
                /\ nonces[n] # None
                /\ nonces[n].expires_at <= now
                /\ granted'[n] = granted[n]
             \/ /\ nonces[n] = None
                /\ granted[n] = None
                /\ nonces'[n] = granted'[n]
  <2>1. m \in Nonce /\ granted[m] = None
    BY DEF FreshNonce
  <2>2. CASE m = n
    BY <1>4, <1>5, <1>7, <2>1, <2>2 DEF TypeInv, TypeOK
  <2>3. CASE m # n
    BY <1>3, <1>4, <1>7, <2>1, <2>3 DEF TypeInv, TypeOK
  <2> QED
    BY <2>2, <2>3
<1> QED
  BY <1>6, <1>7 DEF GrantNonce, live, grant

(***************************************************************************)
(* Nonces.                                                                 *)
(***************************************************************************)
\* What NoncesNotLost says of one pending nonce in one step.
NonceKept(n) ==
    \/ nonces'[n] = nonces[n]
    \/ nonces[n].expires_at <= now
    \/ \E i \in ObservationId :
          /\ decisions[i] = None
          /\ decisions'[i] # None
          /\ decisions'[i].request_digest.submission_nonce = n

\* A refused submission, a duplicate and a pruning pass cost nobody a nonce
\* that is still good.
LEMMA NonceStep ==
    ASSUME TypeInv, LedgerInv, [Next]_vars, NEW n \in Pending(nonces)
    PROVE  NonceKept(n)
<1>1. n \in Nonce /\ nonces[n] # None
  BY DEF Pending
<1>2. CASE UNCHANGED <<ledger, granted, admittedBy>>
  BY <1>2 DEF ledger, NonceKept
<1>3. ASSUME NEW t \in Task, GrantNonce(t) PROVE NonceKept(n)
  BY <1>1, <1>3, GrantEffect DEF NonceKept
<1>4. ASSUME NEW t \in Task, NEW p \in Principal, NEW o \in Observation,
             NEW at \in 0..MaxClock, Records(t, p, o, at)
      PROVE  NonceKept(n)
  <2>1. CASE n # o.submission_nonce
    BY <1>1, <1>4, <2>1, RecordSpends DEF NonceKept
  <2>2. CASE n = o.submission_nonce
    <3> DEFINE k == o.observation_id
    <3>1. /\ k \in ObservationId /\ k \in Recorded'
          /\ decisions[k] = None
          /\ decisions'[k] = [request_digest |-> o, decision |-> Decision(p, o, at)]
      BY <1>4, RecordEffect
    <3>2. decisions'[k] # None
      BY <3>1 DEF Recorded
    <3> QED
      BY <2>2, <3>1, <3>2 DEF NonceKept
  <2> QED
    BY <2>1, <2>2
<1> QED
  BY <1>2, <1>3, <1>4, StepCases

\* A pending nonce leaves the table only when a new decision spends it or when
\* its lifetime is over.
THEOREM NoNonceLost == Spec => NoncesNotLost
<1>1. TypeInv /\ LedgerInv /\ [Next]_vars =>
         [\A n \in Pending(nonces) : NonceKept(n)]_vars
  BY NonceStep
<1>2. TypeInv /\ LedgerInv /\ [Next]_vars =>
         [\A n \in Pending(nonces) :
             \/ nonces'[n] = nonces[n]
             \/ nonces[n].expires_at <= now
             \/ \E i \in ObservationId :
                   /\ decisions[i] = None
                   /\ decisions'[i] # None
                   /\ decisions'[i].request_digest.submission_nonce = n]_vars
  BY <1>1 DEF NonceKept
<1> QED
  BY <1>2, LedgerInvariant, PTL DEF Spec, NoncesNotLost

(***************************************************************************)
(* The caps.                                                               *)
(***************************************************************************)
\* The two tables are finite, and their sizes are numbers.
LEMMA TablesFinite ==
    ASSUME NEW table
    PROVE  /\ IsFiniteSet(Pending(table)) /\ Cardinality(Pending(table)) \in Nat
           /\ IsFiniteSet(Recorded) /\ Cardinality(Recorded) \in Nat
<1>1. Pending(table) \subseteq Nonce /\ Recorded \subseteq ObservationId
  BY DEF Pending, Recorded
<1> QED
  BY <1>1, FiniteAssumption, FS_Subset, FS_CardinalityType

\* A step that adds at most one element to a set with room for it.
LEMMA RoomForOne ==
    ASSUME NEW S, NEW T, NEW x, NEW cap \in Nat, IsFiniteSet(S),
           ~ (Cardinality(S) >= cap), T \subseteq S \cup {x}
    PROVE  Cardinality(T) <= cap
<1>1. IsFiniteSet(S \cup {x}) /\ Cardinality(S \cup {x}) <= Cardinality(S) + 1
  BY FS_AddElement, FS_CardinalityType
<1>2. IsFiniteSet(T) /\ Cardinality(T) <= Cardinality(S \cup {x})
  BY <1>1, FS_Subset
<1>3. /\ Cardinality(S) \in Nat /\ Cardinality(T) \in Nat
      /\ Cardinality(S \cup {x}) \in Nat
  BY <1>1, <1>2, FS_CardinalityType
<1> QED
  BY <1>1, <1>2, <1>3

\* WithinCapacity is inductive, given the types: both caps are checked under
\* the mutex of the insertion they guard.
LEMMA CapacityStep ==
    ASSUME TypeInv, WithinCapacity, [Next]_vars
    PROVE  WithinCapacity'
<1> USE BoundsAssumption
<1>1. CASE UNCHANGED <<ledger, granted, admittedBy>>
  BY <1>1 DEF ledger, WithinCapacity, Pending, Recorded
<1>2. ASSUME NEW t \in Task, GrantNonce(t) PROVE WithinCapacity'
  <2> DEFINE live == LiveNonces(calls[t].now)
  <2>1. Cardinality(Recorded') <= MaxRecordedObservations
    BY <1>2 DEF GrantNonce, WithinCapacity, Recorded
  <2>2. CASE nonces' = live
    <3>1. Pending(nonces') \subseteq Pending(nonces)
      BY <2>2 DEF Pending, LiveNonces
    <3>2. Cardinality(Pending(nonces')) <= Cardinality(Pending(nonces))
      BY <3>1, TablesFinite, FS_Subset
    <3>3. Cardinality(Pending(nonces')) \in Nat /\ Cardinality(Pending(nonces)) \in Nat
      BY TablesFinite
    <3>4. Cardinality(Pending(nonces')) <= MaxPendingNonces
      BY <3>2, <3>3 DEF WithinCapacity
    <3> QED
      BY <2>1, <3>4 DEF WithinCapacity
  <2>3. ASSUME ~ NonceTableFull(live), NEW n \in FreshNonce, NEW grant,
               nonces' = [live EXCEPT ![n] = grant]
        PROVE  WithinCapacity'
    <3>1. DOMAIN live = Nonce
      BY DEF LiveNonces
    <3> HIDE DEF live
    <3>2. Pending(nonces') \subseteq Pending(live) \cup {n}
      BY <2>3, <3>1 DEF Pending
    <3>3. Cardinality(Pending(nonces')) <= MaxPendingNonces
      BY <2>3, <3>2, TablesFinite, RoomForOne DEF NonceTableFull
    <3> QED
      BY <2>1, <3>3 DEF WithinCapacity
  <2> QED
    BY <1>2, <2>2, <2>3 DEF GrantNonce
<1>3. ASSUME NEW t \in Task, NEW p \in Principal, NEW o \in Observation,
             NEW at \in 0..MaxClock, Records(t, p, o, at)
      PROVE  WithinCapacity'
  <2>1. Recorded' = Recorded \cup {o.observation_id}
    BY <1>3, RecordEffect
  <2>2. Pending(nonces') \subseteq Pending(nonces)
    BY <1>3, RecordSpends DEF Pending
  <2>3. /\ Cardinality(Pending(nonces')) <= Cardinality(Pending(nonces))
        /\ Cardinality(Pending(nonces')) \in Nat
        /\ Cardinality(Pending(nonces)) \in Nat
    BY <2>2, TablesFinite, FS_Subset
  <2>4. ~ (Cardinality(Recorded) >= MaxRecordedObservations)
    BY <1>3 DEF Records, Refusal, LedgerFull
  <2>5. Cardinality(Recorded') <= MaxRecordedObservations
    BY <2>1, <2>4, TablesFinite, RoomForOne
  <2> QED
    BY <2>3, <2>5 DEF WithinCapacity
<1> QED
  BY <1>1, <1>2, <1>3, StepCases

\* Neither the table of pending nonces nor the record of decisions outgrows
\* its cap, however many calls pass the checks at once.
THEOREM CapsHold == Spec => []WithinCapacity
<1>1. ASSUME Init PROVE WithinCapacity
  <2>1. Pending(nonces) = {} /\ Recorded = {}
    BY <1>1 DEF Init, Pending, Recorded
  <2> QED
    BY <2>1, FS_EmptySet, BoundsAssumption DEF WithinCapacity
<1>2. TypeInv /\ WithinCapacity /\ [Next]_vars => WithinCapacity'
  BY CapacityStep
<1> QED
  BY <1>1, <1>2, TypeInit, TypeStep, PTL DEF Spec

(***************************************************************************)
(* Retries and replays.                                                    *)
(***************************************************************************)
\* The one call a step may change.
LEMMA OneCallMoves ==
    ASSUME TypeInv, NEW t \in Task, Begin(t) \/ Step(t) \/ Abandon(t)
    PROVE  \A u \in Task \ {t} : calls'[u] = calls[u]
BY DEF Begin, IssueNonce, Submit, Step, GrantNonce, LookUp, Verify, Commit,
       Refuse, Record, AnswerFromRecord, Respond, Advance, Abandon, TypeInv, TypeOK

\* A call that advances keeps all it carries.
LEMMA AdvanceKeeps ==
    ASSUME TypeInv, NEW t \in Task, NEW s, Advance(t, s)
    PROVE  /\ calls'[t].pc = s
           /\ calls'[t].answer = calls[t].answer
           /\ calls'[t].observation = calls[t].observation
           /\ calls'[t].decision = calls[t].decision
           /\ \A u \in Task \ {t} : calls'[u] = calls[u]
BY DEF Advance, TypeInv, TypeOK, Call

\* The result of an answer.
LEMMA RespondEffect ==
    ASSUME TypeInv, NEW t \in Task, NEW a, NEW d, Respond(t, a, d)
    PROVE  /\ calls'[t].pc = "done"
           /\ calls'[t].answer = a
           /\ calls'[t].observation = calls[t].observation
           /\ calls'[t].decision = d
           /\ \A u \in Task \ {t} : calls'[u] = calls[u]
BY DEF Respond, EndCall, TypeInv, TypeOK

\* Where the lookups of submit end: with the recorded decision, or with
\* "Replayed" when another observation holds the identifier.
LEMMA LookupAnswers ==
    ASSUME TypeInv, LedgerInv, NEW t \in Task, Submitting(calls[t]),
           calls[t].observation.observation_id \in Recorded, AnswerFromRecord(t)
    PROVE  LET o == calls[t].observation
               i == o.observation_id
           IN  \/ Request(i) = o /\ Respond(t, "Decided", decisions[i].decision)
               \/ Request(i) # o /\ Conflict(o, Request(i)) /\ Respond(t, "Replayed", None)
BY DEF AnswerFromRecord, Request, Conflict, LedgerInv, LedgerCoherent

\* No call has an answer before it returns.
LEMMA UnansweredStep ==
    ASSUME TypeInv, Unanswered, [Next]_vars
    PROVE  Unanswered'
<1>1. CASE UNCHANGED calls
  BY <1>1 DEF Unanswered, UnansweredCall
<1>2. ASSUME NEW t \in Task, UnansweredCall(calls[t])',
             \A u \in Task \ {t} : calls'[u] = calls[u]
      PROVE  Unanswered'
  BY <1>2 DEF Unanswered, UnansweredCall
<1>3. ASSUME NEW t \in Task, Begin(t) \/ Abandon(t)
      PROVE  UnansweredCall(calls[t])'
  BY <1>3 DEF Begin, IssueNonce, Submit, Abandon, BeginCall, EndCall, IdleCall,
     UnansweredCall, TypeInv, TypeOK
<1>4. ASSUME NEW t \in Task, NEW a, NEW d, a # "none", Respond(t, a, d)
      PROVE  UnansweredCall(calls[t])'
  BY <1>4, RespondEffect DEF UnansweredCall
<1>5. ASSUME NEW t \in Task, NEW s \in {"verify", "second_lock"}, Advance(t, s),
             Submitting(calls[t])
      PROVE  UnansweredCall(calls[t])'
  BY <1>5, AdvanceKeeps DEF UnansweredCall, Unanswered, Submitting
<1>6. ASSUME NEW t \in Task, GrantNonce(t) PROVE UnansweredCall(calls[t])'
  BY <1>4, <1>6 DEF GrantNonce
<1>7. ASSUME NEW t \in Task, LookUp(t) PROVE UnansweredCall(calls[t])'
  BY <1>4, <1>5, <1>7 DEF LookUp, AnswerFromRecord, Submitting
<1>8. ASSUME NEW t \in Task, Verify(t) PROVE UnansweredCall(calls[t])'
  BY <1>4, <1>5, <1>8 DEF Verify, Submitting
<1>9. ASSUME NEW t \in Task, Commit(t) PROVE UnansweredCall(calls[t])'
  BY <1>4, <1>9 DEF Commit, AnswerFromRecord, Refuse, Record
<1> QED
  BY <1>1, <1>2, <1>3, <1>6, <1>7, <1>8, <1>9, OneCallMoves
     DEF Next, Step, Tick, vars

\* SpendingInv is preserved: a nonce that leaves the table leaves a recorded
\* request or an expired grant behind.
LEMMA SpendingStep ==
    ASSUME TypeInv, LedgerInv, SpendingInv, [Next]_vars
    PROVE  SpendingInv'
<1>0. now \in Nat /\ now' \in Nat /\ now <= now'
  <2>1. now \in Nat
    BY BoundsAssumption DEF TypeInv, TypeOK
  <2> QED
    BY <2>1 DEF Next, Tick, Begin, IssueNonce, Submit, Step, GrantNonce, LookUp,
       Verify, Commit, Abandon, vars
<1>1. ASSUME NEW n \in Nonce, granted[n] # None
      PROVE  granted[n].expires_at \in Nat
  BY <1>1, BoundsAssumption DEF TypeInv, TypeOK, NonceGrant, Time
<1>2. CASE UNCHANGED <<ledger, granted, admittedBy>>
  <2>1. Recorded' = Recorded /\ \A i \in Recorded : Request(i)' = Request(i)
    BY <1>2 DEF ledger, Recorded, Request
  <2>2. \A n \in Nonce : Accounted(n)'
    BY <1>0, <1>1, <1>2, <2>1 DEF ledger, SpendingInv, Accounted, SpentBy
  <2> QED
    BY <2>2 DEF SpendingInv
<1>3. ASSUME NEW t \in Task, GrantNonce(t) PROVE SpendingInv'
  <2>1. UNCHANGED <<used_challenges, used_evidence, decisions, now>>
    BY <1>3 DEF GrantNonce
  <2>2. Recorded' = Recorded /\ \A i \in Recorded : Request(i)' = Request(i)
    BY <2>1 DEF Recorded, Request
  <2>3. ASSUME NEW n \in Nonce PROVE Accounted(n)'
    <3>1. Accounted(n)
      BY DEF SpendingInv
    <3>2. nonces[n] # None => nonces[n] = granted[n]
      BY DEF LedgerInv, LedgerCoherent
    <3> QED
      BY <1>3, <2>1, <2>2, <3>1, <3>2, GrantEffect DEF Accounted, SpentBy
  <2> QED
    BY <2>3 DEF SpendingInv
<1>4. ASSUME NEW t \in Task, NEW p \in Principal, NEW o \in Observation,
             NEW at \in 0..MaxClock, Records(t, p, o, at)
      PROVE  SpendingInv'
  <2> DEFINE k == o.observation_id
  <2>1. /\ Recorded' = Recorded \cup {k}
        /\ Request(k)' = o
        /\ \A i \in Recorded : Request(i)' = Request(i)
    BY <1>4, RecordEffect
  <2>2. granted' = granted /\ now' = now
    BY <1>4 DEF Records
  <2>3. ASSUME NEW n \in Nonce PROVE Accounted(n)'
    <3>1. CASE n = o.submission_nonce
      BY <2>1, <3>1 DEF Accounted, SpentBy
    <3>2. CASE n # o.submission_nonce
      <4>1. nonces'[n] = nonces[n]
        BY <1>4, <3>2, RecordSpends
      <4> QED
        BY <2>1, <2>2, <4>1 DEF SpendingInv, Accounted, SpentBy
    <3> QED
      BY <3>1, <3>2
  <2> QED
    BY <2>3 DEF SpendingInv
<1> QED
  BY <1>2, <1>3, <1>4, StepCases

\* Everything the properties about answers rest on.
LEMMA CallerInvariant ==
    Spec => [](TypeInv /\ LedgerInv /\ Unanswered /\ SpendingInv)
<1>1. Init => Unanswered
  BY DEF Init, Unanswered, UnansweredCall, IdleCall
<1>2. Init => SpendingInv
  BY DEF Init, SpendingInv, Accounted
<1>3. TypeInv /\ Unanswered /\ [Next]_vars => Unanswered'
  BY UnansweredStep
<1>4. TypeInv /\ LedgerInv /\ SpendingInv /\ [Next]_vars => SpendingInv'
  BY SpendingStep
<1> QED
  BY <1>1, <1>2, <1>3, <1>4, LedgerInvariant, PTL DEF Spec

\* What justifies the answer "Replayed" to an observation.
Justified(o) ==
    \/ \E i \in Recorded : Conflict(o, Request(i))
    \/ granted[o.submission_nonce] = None
    \/ granted[o.submission_nonce].expires_at <= now

\* The second locked stretch refuses with "Replayed" only what is justified: a
\* nonce missing from the table or a mark on the challenge or the evidence
\* leads back to a recorded request, and that request is a different one.
LEMMA RefusalJustified ==
    ASSUME TypeInv, LedgerInv, SpendingInv, NEW p, NEW o \in Observation, NEW at,
           o.observation_id \notin Recorded, Refusal(p, o, at) = "Replayed"
    PROVE  Justified(o)
<1>1. o.submission_nonce \in Nonce
  BY ObservationAssumption DEF DoorwayObservation
<1>2. ASSUME NEW i \in Recorded PROVE Request(i) # o
  BY DEF LedgerInv, LedgerCoherent
<1>3. \/ nonces[o.submission_nonce] = None
      \/ o.challenge_id \in used_challenges
      \/ o.evidence_id \in used_evidence
  BY DEF Refusal
<1>4. CASE nonces[o.submission_nonce] = None
  <2>1. Accounted(o.submission_nonce)
    BY <1>1 DEF SpendingInv
  <2> QED
    BY <1>2, <1>4, <2>1 DEF Accounted, SpentBy, Justified, Conflict
<1>5. CASE o.challenge_id \in used_challenges
  BY <1>2, <1>5 DEF LedgerInv, LedgerCoherent, Justified, Conflict
<1>6. CASE o.evidence_id \in used_evidence
  BY <1>2, <1>6 DEF LedgerInv, LedgerCoherent, Justified, Conflict
<1> QED
  BY <1>3, <1>4, <1>5, <1>6

\* One step answers "Replayed" only with justification.
LEMMA ReplayedStep ==
    ASSUME TypeInv, LedgerInv, Unanswered, SpendingInv, [Next]_vars,
           NEW u \in Task, calls[u].pc # "done", calls'[u].answer = "Replayed"
    PROVE  Justified(calls[u].observation)
<1>1. calls[u].answer = "none"
  BY DEF Unanswered, UnansweredCall
<1>2. CASE UNCHANGED calls
  BY <1>1, <1>2
<1>3. ASSUME NEW t \in Task, Begin(t) \/ Step(t) \/ Abandon(t), t # u
      PROVE  FALSE
  BY <1>1, <1>3, OneCallMoves
<1>4. ASSUME Begin(u) \/ Abandon(u) PROVE FALSE
  BY <1>4 DEF Begin, IssueNonce, Submit, Abandon, BeginCall, EndCall, IdleCall,
     TypeInv, TypeOK
<1>5. ASSUME GrantNonce(u) PROVE FALSE
  BY <1>5, RespondEffect DEF GrantNonce
<1>6. ASSUME Verify(u) PROVE FALSE
  BY <1>1, <1>6, RespondEffect, AdvanceKeeps DEF Verify
<1>7. ASSUME Submitting(calls[u]), calls[u].observation.observation_id \in Recorded,
             AnswerFromRecord(u)
      PROVE  Justified(calls[u].observation)
  BY <1>7, LookupAnswers, RespondEffect DEF Justified
<1>8. ASSUME LookUp(u) PROVE Justified(calls[u].observation)
  BY <1>1, <1>7, <1>8, AdvanceKeeps DEF LookUp, Submitting
<1>9. ASSUME Commit(u) PROVE Justified(calls[u].observation)
  <2> DEFINE e == Refusal(calls[u].principal, calls[u].observation, calls[u].now)
  <2>1. Submitting(calls[u])
    BY <1>9 DEF Commit, Submitting
  <2>2. CASE RecordedMeanwhile(u) /\ AnswerFromRecord(u)
    BY <1>7, <2>1, <2>2 DEF RecordedMeanwhile
  <2>3. CASE ~ RecordedMeanwhile(u) /\ Refuse(u, e)
    <3>1. e = "Replayed"
      BY <2>3, RespondEffect DEF Refuse
    <3> QED
      BY <2>1, <2>3, <3>1, RefusalJustified, SubmittingType DEF RecordedMeanwhile
  <2>4. CASE Record(u, calls[u].principal, calls[u].observation, calls[u].now)
    BY <2>4, RespondEffect DEF Record
  <2> QED
    BY <1>9, <2>2, <2>3, <2>4 DEF Commit
<1> QED
  BY <1>2, <1>3, <1>4, <1>5, <1>6, <1>8, <1>9 DEF Next, Step, Tick, vars

\* "Replayed" is answered only when a different recorded observation spent
\* something the submission needs, or its nonce was never granted or is past
\* its lifetime: a duplicate is never called a replay.
THEOREM ReplaysJustified == Spec => ReplayedIsJustified
<1>1. TypeInv /\ LedgerInv /\ Unanswered /\ SpendingInv /\ [Next]_vars =>
         [\A t \in Task :
             LET o == calls[t].observation
             IN  (calls[t].pc # "done" /\ calls'[t].answer = "Replayed") =>
                     \/ \E i \in Recorded : Conflict(o, Request(i))
                     \/ granted[o.submission_nonce] = None
                     \/ granted[o.submission_nonce].expires_at <= now]_vars
  BY ReplayedStep DEF Justified
<1> QED
  BY <1>1, CallerInvariant, PTL DEF Spec, ReplayedIsJustified

\* One step answers a retry at either lookup with the recorded decision.
LEMMA RetryStep ==
    ASSUME TypeInv, LedgerInv, [Next]_vars, NEW u \in Task,
           calls[u].pc \in {"first_lock", "second_lock"},
           NEW i \in Recorded, Request(i) = calls[u].observation,
           calls'[u] \notin {calls[u], IdleCall}
    PROVE  calls'[u].answer = "Decided"
<1>1. calls[u].observation.observation_id = i
  BY DEF LedgerInv, LedgerCoherent
<1>2. CASE UNCHANGED calls
  BY <1>2
<1>3. ASSUME NEW t \in Task, Begin(t) \/ Step(t) \/ Abandon(t), t # u
      PROVE  FALSE
  BY <1>3, OneCallMoves
<1>4. ASSUME Begin(u) \/ GrantNonce(u) \/ Verify(u) PROVE FALSE
  BY <1>4 DEF Begin, IssueNonce, Submit, Free, GrantNonce, Verify
<1>5. ASSUME Abandon(u) PROVE FALSE
  BY <1>5 DEF Abandon, TypeInv, TypeOK
<1>6. ASSUME AnswerFromRecord(u) PROVE calls'[u].answer = "Decided"
  BY <1>1, <1>6, RespondEffect DEF AnswerFromRecord, Request
<1>7. ASSUME LookUp(u) \/ Commit(u) PROVE AnswerFromRecord(u)
  BY <1>1, <1>7 DEF LookUp, Commit, RecordedMeanwhile
<1> QED
  BY <1>2, <1>3, <1>4, <1>5, <1>6, <1>7 DEF Next, Step, Tick, vars

\* A retry of a recorded observation is answered with its decision by either
\* lookup, whatever has become of the caps, the nonce and the sequence.
THEOREM RetriesHonoured == Spec => RetriesAreHonoured
<1>1. TypeInv /\ LedgerInv /\ [Next]_vars =>
         [\A t \in Task :
             LET o == calls[t].observation
             IN  (/\ calls[t].pc \in {"first_lock", "second_lock"}
                  /\ \E i \in Recorded : Request(i) = o
                  /\ calls'[t] \notin {calls[t], IdleCall}) =>
                     calls'[t].answer = "Decided"]_vars
  BY RetryStep
<1> QED
  BY <1>1, LedgerInvariant, PTL DEF Spec, RetriesAreHonoured
=============================================================================
