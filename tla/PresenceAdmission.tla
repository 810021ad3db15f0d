-------------------------- MODULE PresenceAdmission --------------------------
(***************************************************************************)
(* The managed-doorway admission engine of src/presence.rs: the ledger     *)
(* behind one tokio mutex, and the calls of issue_nonce and submit that    *)
(* run on it concurrently.                                                 *)
(*                                                                         *)
(* A call is a task with a program counter.  Its steps are the stretches   *)
(* of the code between two acquisitions of the ledger's mutex: a stretch   *)
(* that holds the mutex is one atomic step, and so is a stretch that       *)
(* touches only the call's own data.  "now" is read by the caller before   *)
(* the call, so every step of a call uses the value captured when it       *)
(* began, however long it then waits for the mutex.                        *)
(*                                                                         *)
(* Abstracted data: an observation is the record of the fields that submit *)
(* reads.  The SHA-256 digest of its encoding stands for the observation   *)
(* itself (equal digests, equal observations).  The direction evidence is  *)
(* the Boolean result of direction_requires_confirmation.  The fields of a *)
(* decision that are copied from the observation (door, direction, policy  *)
(* version) and the constants of its schema are left out.  validate_shape, *)
(* the authorizer and the verifier are external: any outcome may occur on  *)
(* any call.                                                               *)
(***************************************************************************)
EXTENDS Naturals, FiniteSets

CONSTANTS
    Task,            \* concurrent callers of the engine
    Principal,       \* verified (provider, tenant, subject) identities
    House,
    Nonce,           \* strings that may stand in submission_nonce
    ForeignNonce,    \* those among them the engine never generates
    ObservationId, Challenge, Evidence,
    Observation,     \* the observations clients submit
    NonceTtl,        \* lifetime of a nonce, 60 seconds in the code
    MaxPendingNonces, MaxRecordedObservations,
    MaxSequence,     \* the largest u64
    MaxClock,        \* bound of the model: the clock stops here
    None             \* an absent map entry or field

\* The fields of a DoorwayObservation that submit reads.
DoorwayObservation ==
    [observation_id: ObservationId, submission_nonce: Nonce,
     challenge_id: Challenge, evidence_id: Evidence, house_id: House,
     previous_presence_sequence: 0..MaxSequence, ambiguous: BOOLEAN]

ASSUME BoundsAssumption ==
    /\ NonceTtl \in Nat \ {0}
    /\ MaxPendingNonces \in Nat \ {0}
    /\ MaxRecordedObservations \in Nat \ {0}
    /\ MaxSequence \in Nat
    /\ MaxClock \in Nat
ASSUME ObservationAssumption ==
    /\ Observation \subseteq DoorwayObservation
    /\ ForeignNonce \subseteq Nonce
ASSUME FiniteAssumption == IsFiniteSet(Nonce) /\ IsFiniteSet(ObservationId)

Time == 0..(MaxClock + NonceTtl)

NonceGrant ==
    [principal: Principal, house_id: House, issued_at: Time, expires_at: Time]

\* event_id is a fresh random identifier.  A decision is told apart from any
\* other by its observation_id and presence_sequence, so it is left out.
PresenceDecision ==
    [decision: {"Accepted", "ConfirmationRequired"},
     observation_id: ObservationId, house_id: House,
     presence_sequence: 0..MaxSequence, recorded_at: Time]

RecordedDecision == [request_digest: Observation, decision: PresenceDecision]

AdmissionError ==
    {"InvalidRequest", "AuthenticationUnavailable", "DeviceRevoked",
     "EvidenceInvalid", "Expired", "MembershipDenied", "PolicyConflict",
     "RateLimited", "Replayed"}

ASSUME NoneAssumption ==
    /\ None \notin NonceGrant
    /\ None \notin PresenceDecision
    /\ None \notin RecordedDecision
    /\ None \notin Observation
    /\ None \notin Principal
    /\ None \notin House

VARIABLES
    now,              \* the wall clock the callers read
    nonces,           \* PresenceLedger: pending grants by nonce, or None
    used_challenges, used_evidence,
    sequences,        \* presence sequence by principal and house, 0 at first
    decisions,        \* recorded decisions by observation id, or None
    calls,            \* the calls in progress, or last answered, by task
    granted,          \* history: every grant ever inserted, by nonce
    admittedBy        \* history: the principal of each recorded decision

ledger == <<nonces, used_challenges, used_evidence, sequences, decisions>>
vars == <<now, ledger, calls, granted, admittedBy>>

(***************************************************************************)
(* Calls.                                                                  *)
(***************************************************************************)
Stage == {"idle", "nonce_lock", "first_lock", "verify", "second_lock", "done"}
Answer == AdmissionError \cup {"none", "Granted", "Decided"}

\* An answer comes with a decision exactly if it is one.
Call ==
    {c \in [pc: Stage, principal: Principal \cup {None},
            house_id: House \cup {None}, observation: Observation \cup {None},
            now: Time, answer: Answer, decision: PresenceDecision \cup {None}] :
        c.decision # None <=> c.answer = "Decided"}

IdleCall ==
    [pc |-> "idle", principal |-> None, house_id |-> None,
     observation |-> None, now |-> 0, answer |-> "none", decision |-> None]

\* A call that reads the clock and goes on to the given stage.
BeginCall(stage, p, h, o) ==
    [pc |-> stage, principal |-> p, house_id |-> h, observation |-> o,
     now |-> now, answer |-> "none", decision |-> None]

\* A call about o that returned a, with decision d when a is "Decided".
EndCall(o, a, d) ==
    [pc |-> "done", principal |-> None, house_id |-> None, observation |-> o,
     now |-> 0, answer |-> a, decision |-> d]

Free(t) == calls[t].pc \in {"idle", "done"}

Respond(t, a, d) ==
    calls' = [calls EXCEPT ![t] = EndCall(calls[t].observation, a, d)]

Advance(t, stage) == calls' = [calls EXCEPT ![t].pc = stage]

(***************************************************************************)
(* The ledger.                                                             *)
(***************************************************************************)
Pending(table) == {n \in Nonce : table[n] # None}
Recorded == {i \in ObservationId : decisions[i] # None}

Init ==
    /\ now = 0
    /\ nonces = [n \in Nonce |-> None]
    /\ used_challenges = {}
    /\ used_evidence = {}
    /\ sequences = [k \in Principal \X House |-> 0]
    /\ decisions = [i \in ObservationId |-> None]
    /\ calls = [t \in Task |-> IdleCall]
    /\ granted = [n \in Nonce |-> None]
    /\ admittedBy = [i \in ObservationId |-> None]

(***************************************************************************)
(* issue_nonce.                                                            *)
(***************************************************************************)
\* The code draws 256 random bits: a nonce never granted before, and none a
\* client made up.
FreshNonce == {n \in Nonce \ ForeignNonce : granted[n] = None}

\* Bound of the model: a call begins only while every pending call of
\* issue_nonce can still draw a fresh nonce.
NonceSupply ==
    Cardinality(FreshNonce) > Cardinality({u \in Task : calls[u].pc = "nonce_lock"})

IssueNonce(t, p, h) ==
    /\ Free(t)
    /\ NonceSupply
    /\ \/ calls' = [calls EXCEPT ![t] = BeginCall("nonce_lock", p, h, None)]
       \/ \E e \in {"InvalidRequest", "MembershipDenied",
                    "AuthenticationUnavailable"} :
             calls' = [calls EXCEPT ![t] = EndCall(None, e, None)]
    /\ UNCHANGED <<now, ledger, granted, admittedBy>>

\* retain(|_, grant| grant.expires_at > now)
LiveNonces(at) ==
    [n \in Nonce |-> IF nonces[n] # None /\ nonces[n].expires_at > at
                     THEN nonces[n] ELSE None]

NonceTableFull(table) == Cardinality(Pending(table)) >= MaxPendingNonces

\* The stretch of issue_nonce that holds the mutex.  Expired grants are
\* dropped whether or not there is room for the new one.
GrantNonce(t) ==
    LET c == calls[t]
        live == LiveNonces(c.now)
        grant == [principal |-> c.principal, house_id |-> c.house_id,
                  issued_at |-> c.now, expires_at |-> c.now + NonceTtl]
    IN  /\ c.pc = "nonce_lock"
        /\ \/ /\ NonceTableFull(live)
              /\ nonces' = live
              /\ granted' = granted
              /\ Respond(t, "RateLimited", None)
           \/ /\ ~ NonceTableFull(live)
              /\ \E n \in FreshNonce :
                    /\ nonces' = [live EXCEPT ![n] = grant]
                    /\ granted' = [granted EXCEPT ![n] = grant]
              /\ Respond(t, "Granted", None)
        /\ UNCHANGED <<now, used_challenges, used_evidence, sequences,
                       decisions, admittedBy>>

(***************************************************************************)
(* submit.                                                                 *)
(***************************************************************************)
\* Up to the first lock: the shape of the observation, then its digest.  A
\* client knows a nonce because it was granted, or made it up.
Submit(t, p, o) ==
    /\ Free(t)
    /\ granted[o.submission_nonce] # None \/ o.submission_nonce \in ForeignNonce
    /\ \/ calls' = [calls EXCEPT ![t] = BeginCall("first_lock", p, None, o)]
       \/ \E e \in {"EvidenceInvalid", "InvalidRequest"} :
             calls' = [calls EXCEPT ![t] = EndCall(o, e, None)]
    /\ UNCHANGED <<now, ledger, granted, admittedBy>>

\* Mutant: the digest of the request is not compared.
AnswerWithoutDigest(t) ==
    Respond(t, "Decided", decisions[calls[t].observation.observation_id].decision)

\* Mutant: a conflicting reuse of an identifier is told the other's decision.
ReplayTellsDecision(t) ==
    LET recorded == decisions[calls[t].observation.observation_id]
    IN  IF recorded.request_digest = calls[t].observation
        THEN Respond(t, "Decided", recorded.decision)
        ELSE Respond(t, "Replayed", recorded.decision)

\* Both locked stretches of submit begin with a lookup; this is its hit.
AnswerFromRecord(t) ==
    LET recorded == decisions[calls[t].observation.observation_id]
    IN  IF recorded.request_digest = calls[t].observation
        THEN Respond(t, "Decided", recorded.decision)
        ELSE Respond(t, "Replayed", None)

LookUp(t) ==
    /\ calls[t].pc = "first_lock"
    /\ IF calls[t].observation.observation_id \in Recorded
       THEN AnswerFromRecord(t)
       ELSE Advance(t, "verify")
    /\ UNCHANGED <<now, ledger, granted, admittedBy>>

\* Mutant: an unavailable authority makes the call start over.
VerifyUntilAvailable(t) ==
    /\ calls[t].pc = "verify"
    /\ \/ Advance(t, "second_lock")
       \/ Advance(t, "first_lock")
    /\ UNCHANGED <<now, ledger, granted, admittedBy>>

\* authorize_observation, then verify: both without the mutex.
Verify(t) ==
    /\ calls[t].pc = "verify"
    /\ \/ Advance(t, "second_lock")
       \/ \E e \in {"MembershipDenied", "AuthenticationUnavailable",
                    "EvidenceInvalid", "DeviceRevoked"} :
             Respond(t, e, None)
    /\ UNCHANGED <<now, ledger, granted, admittedBy>>

\* Mutant: the cap is off by one.
LedgerOverfull == Cardinality(Recorded) > MaxRecordedObservations

LedgerFull == Cardinality(Recorded) >= MaxRecordedObservations

\* Mutant: the cap is checked before the second lookup.
RecordedWithRoom(t) ==
    calls[t].observation.observation_id \in Recorded /\ ~ LedgerFull

\* Mutant: the first lookup is trusted.
TrustFirstLookUp(t) == FALSE

\* Another call recorded a decision under this identifier since the first
\* lookup, while the mutex was free.
RecordedMeanwhile(t) == calls[t].observation.observation_id \in Recorded

\* Mutant: a grant is still good at its expiry.
ExpiresLate(grant, at) == grant.expires_at < at

GrantExpired(grant, at) == grant.expires_at <= at

\* Mutant: what the client took for the current sequence is not compared.
OverflowOnly(o, current) == current = MaxSequence

\* The previous sequence is not the current one, or the next one would
\* overflow (checked_add).
SequenceConflict(o, current) ==
    \/ o.previous_presence_sequence # current
    \/ current = MaxSequence

\* The checks of the second locked stretch, in the code's order.
Refusal(p, o, at) ==
    LET grant == nonces[o.submission_nonce]
    IN  IF LedgerFull THEN "RateLimited"
        ELSE IF grant = None THEN "Replayed"
        ELSE IF GrantExpired(grant, at) THEN "Expired"
        ELSE IF grant.principal # p \/ grant.house_id # o.house_id
             THEN "MembershipDenied"
        ELSE IF \/ o.challenge_id \in used_challenges
                \/ o.evidence_id \in used_evidence
             THEN "Replayed"
        ELSE IF SequenceConflict(o, sequences[<<p, o.house_id>>])
             THEN "PolicyConflict"
        ELSE "none"

\* Mutant: the nonce is taken out of the table before the other checks.
RefuseTakingNonce(t, e) ==
    /\ Respond(t, e, None)
    /\ nonces' = [nonces EXCEPT ![calls[t].observation.submission_nonce] = None]
    /\ UNCHANGED <<used_challenges, used_evidence, sequences, decisions,
                   admittedBy>>

\* Mutant: challenge and evidence are inserted before the other checks.
RefuseMarkingUsed(t, e) ==
    LET o == calls[t].observation
    IN  /\ Respond(t, e, None)
        /\ used_challenges' = used_challenges \cup {o.challenge_id}
        /\ used_evidence' = used_evidence \cup {o.evidence_id}
        /\ UNCHANGED <<nonces, sequences, decisions, admittedBy>>

\* An early return: the ledger is as it was.
Refuse(t, e) ==
    /\ Respond(t, e, None)
    /\ UNCHANGED <<ledger, admittedBy>>

Decision(p, o, at) ==
    [decision |-> IF o.ambiguous THEN "ConfirmationRequired" ELSE "Accepted",
     observation_id |-> o.observation_id, house_id |-> o.house_id,
     presence_sequence |-> sequences[<<p, o.house_id>>] + 1,
     recorded_at |-> at]

\* Mutant: the corroboration evidence can be used again.
SpendWithoutEvidence(o) ==
    /\ nonces' = [nonces EXCEPT ![o.submission_nonce] = None]
    /\ used_challenges' = used_challenges \cup {o.challenge_id}
    /\ used_evidence' = used_evidence

Spend(o) ==
    /\ nonces' = [nonces EXCEPT ![o.submission_nonce] = None]
    /\ used_challenges' = used_challenges \cup {o.challenge_id}
    /\ used_evidence' = used_evidence \cup {o.evidence_id}

\* Mutant: the sequence is kept per house only.
SequencePerHouse(p, h, s) ==
    [k \in Principal \X House |-> IF k[2] = h THEN s ELSE sequences[k]]

NextSequences(p, h, s) == [sequences EXCEPT ![<<p, h>>] = s]

Record(t, p, o, at) ==
    LET d == Decision(p, o, at)
    IN  /\ Spend(o)
        /\ sequences' = NextSequences(p, o.house_id, d.presence_sequence)
        /\ decisions' =
              [decisions EXCEPT ![o.observation_id] =
                  [request_digest |-> o, decision |-> d]]
        /\ admittedBy' = [admittedBy EXCEPT ![o.observation_id] = p]
        /\ Respond(t, "Decided", d)

\* The second locked stretch: an answer from the record, a refusal that
\* leaves the ledger alone, or a new decision.
Commit(t) ==
    LET c == calls[t]
        refusal == Refusal(c.principal, c.observation, c.now)
    IN  /\ c.pc = "second_lock"
        /\ \/ /\ RecordedMeanwhile(t)
              /\ AnswerFromRecord(t)
              /\ UNCHANGED <<ledger, admittedBy>>
           \/ /\ ~ RecordedMeanwhile(t)
              /\ refusal # "none"
              /\ Refuse(t, refusal)
           \/ /\ ~ RecordedMeanwhile(t)
              /\ refusal = "none"
              /\ Record(t, c.principal, c.observation, c.now)
        /\ UNCHANGED <<now, granted>>

\* The caller drops the future of a call that awaits the mutex.  There is no
\* other await, so a call cannot be dropped between its checks or its writes.
Abandon(t) ==
    /\ calls[t].pc \in {"nonce_lock", "first_lock", "second_lock"}
    /\ calls' = [calls EXCEPT ![t] = IdleCall]
    /\ UNCHANGED <<now, ledger, granted, admittedBy>>

Tick ==
    /\ now < MaxClock
    /\ now' = now + 1
    /\ UNCHANGED <<ledger, calls, granted, admittedBy>>

Begin(t) ==
    \E p \in Principal :
        \/ \E h \in House : IssueNonce(t, p, h)
        \/ \E o \in Observation : Submit(t, p, o)

Step(t) == GrantNonce(t) \/ LookUp(t) \/ Verify(t) \/ Commit(t)

Next == Tick \/ \E t \in Task : Begin(t) \/ Step(t) \/ Abandon(t)

\* tokio's mutex is handed over in arrival order and the verifier returns, so
\* a call that has begun keeps taking steps.  Nothing obliges callers to call.
Fairness == \A t \in Task : WF_vars(Step(t))

Spec == Init /\ [][Next]_vars /\ Fairness

(***************************************************************************)
(* Properties.                                                             *)
(***************************************************************************)
\* Types; that of calls says that nobody is told a decision with a refusal.
TypeOK ==
    /\ now \in 0..MaxClock
    /\ nonces \in [Nonce -> NonceGrant \cup {None}]
    /\ used_challenges \subseteq Challenge
    /\ used_evidence \subseteq Evidence
    /\ sequences \in [Principal \X House -> 0..MaxSequence]
    /\ decisions \in [ObservationId -> RecordedDecision \cup {None}]
    /\ calls \in [Task -> Call]
    /\ granted \in [Nonce -> NonceGrant \cup {None}]
    /\ admittedBy \in [ObservationId -> Principal \cup {None}]

\* The request a recorded decision was made for.
Request(i) == decisions[i].request_digest

\* What a call in progress carries: the principal, and the house or the
\* observation it was made with.  A submission's nonce is one it made up or
\* one that was granted before the call read the clock.
Submitting(c) == c.pc \in {"first_lock", "verify", "second_lock"}

NonceKnown(c) ==
    LET n == c.observation.submission_nonce
    IN  n \notin ForeignNonce => granted[n] # None /\ granted[n].issued_at <= c.now

Coherent(c) ==
    /\ c.now <= now
    /\ c.pc = "nonce_lock" => c.principal # None /\ c.house_id # None
    /\ Submitting(c) =>
          c.principal # None /\ c.observation # None /\ NonceKnown(c)

CallsCoherent == \A t \in Task : Coherent(calls[t])

\* The tables of the ledger agree with its record of decisions: exactly what
\* recorded requests used is marked as used, so that a refused one costs no
\* challenge and no evidence, and their nonces are gone from the pending
\* table, which holds only what was granted.
LedgerCoherent ==
    /\ used_challenges = {Request(i).challenge_id : i \in Recorded}
    /\ used_evidence = {Request(i).evidence_id : i \in Recorded}
    /\ \A i \in Recorded :
          /\ Request(i).observation_id = i
          /\ decisions[i].decision.house_id = Request(i).house_id
          /\ admittedBy[i] # None
          /\ granted[Request(i).submission_nonce] # None
          /\ nonces[Request(i).submission_nonce] = None
    /\ \A n \in Nonce :
          /\ nonces[n] # None => nonces[n] = granted[n]
          /\ granted[n] # None => n \notin ForeignNonce

\* No submission nonce, door challenge or corroboration evidence backs two
\* recorded decisions.
SpentOnce ==
    \A i, j \in Recorded : i # j =>
        /\ Request(i).submission_nonce # Request(j).submission_nonce
        /\ Request(i).challenge_id # Request(j).challenge_id
        /\ Request(i).evidence_id # Request(j).evidence_id

\* Decisions recorded for principal p in house h.
Of(p, h) == {i \in Recorded : admittedBy[i] = p /\ decisions[i].decision.house_id = h}

\* The presence sequence of a principal in a house has no gap and no repeat:
\* the recorded decisions carry exactly 1..current.  Each follows the one its
\* client knew of, so that of two observations made after the same decision
\* at most one is recorded.
GaplessSequences ==
    \A p \in Principal, h \in House :
        /\ {decisions[i].decision.presence_sequence : i \in Of(p, h)}
              = 1..sequences[<<p, h>>]
        /\ \A i, j \in Of(p, h) :
              decisions[i].decision.presence_sequence
                  = decisions[j].decision.presence_sequence => i = j
        /\ \A i \in Of(p, h) :
              decisions[i].decision.presence_sequence
                  = Request(i).previous_presence_sequence + 1

\* A decision is recorded under a grant made to the same principal for the
\* same house, by a call that read the clock during the grant's lifetime.
AdmittedUnderGrant ==
    \A i \in Recorded :
        LET g == granted[Request(i).submission_nonce]
            d == decisions[i].decision
        IN  /\ g # None
            /\ g.principal = admittedBy[i]
            /\ g.house_id = d.house_id
            /\ g.issued_at <= d.recorded_at
            /\ d.recorded_at < g.expires_at

\* Every answer that carries a decision carries the one recorded for exactly
\* that observation, and still does after any later step: all submissions of
\* one observation converge on one decision.
AnswersAgreeWithRecord ==
    \A t \in Task :
        calls[t].answer = "Decided" =>
            decisions[calls[t].observation.observation_id] =
                [request_digest |-> calls[t].observation,
                 decision |-> calls[t].decision]

\* The tables stay within their caps.
WithinCapacity ==
    /\ Cardinality(Pending(nonces)) <= MaxPendingNonces
    /\ Cardinality(Recorded) <= MaxRecordedObservations

\* A recorded decision is final.
DecisionsAreFinal ==
    [][\A i \in Recorded : decisions'[i] = decisions[i]]_vars

\* A pending nonce leaves the table only by being spent on a new decision or
\* after its lifetime: a refused submission never costs the client its nonce.
NoncesNotLost ==
    [][\A n \in Pending(nonces) :
          \/ nonces'[n] = nonces[n]
          \/ nonces[n].expires_at <= now
          \/ \E i \in ObservationId :
                /\ decisions[i] = None
                /\ decisions'[i] # None
                /\ decisions'[i].request_digest.submission_nonce = n]_vars

\* Two different observations that compete for something single-use.
Conflict(o, q) ==
    /\ o # q
    /\ \/ o.observation_id = q.observation_id
       \/ o.submission_nonce = q.submission_nonce
       \/ o.challenge_id = q.challenge_id
       \/ o.evidence_id = q.evidence_id

\* "Replayed" is answered only when a different recorded observation spent
\* something this one needs, or its nonce was never granted or has outlived
\* its lifetime.  In particular a duplicate of a recorded observation is never
\* called a replay, however its two lookups interleave with other calls.
ReplayedIsJustified ==
    [][\A t \in Task :
          LET o == calls[t].observation
          IN  (calls[t].pc # "done" /\ calls'[t].answer = "Replayed") =>
                  \/ \E i \in Recorded : Conflict(o, Request(i))
                  \/ granted[o.submission_nonce] = None
                  \/ granted[o.submission_nonce].expires_at <= now]_vars

\* A retry of a recorded observation gets its decision from whichever lookup
\* it is at: not even a ledger at its cap, which refuses everything new for
\* good, a spent or expired nonce, or a later sequence turns it away.
RetriesAreHonoured ==
    [][\A t \in Task :
          LET o == calls[t].observation
          IN  (/\ calls[t].pc \in {"first_lock", "second_lock"}
               /\ \E i \in Recorded : Request(i) = o
               /\ calls'[t] \notin {calls[t], IdleCall}) =>
                  calls'[t].answer = "Decided"]_vars

\* The ledger as a log of atomic admissions: the record of decisions, with the
\* principals they were made for, is the log; a call in progress has no answer.
Log ==
    INSTANCE PresenceLog WITH
        pending <- nonces,
        log <- {[principal |-> admittedBy[i], observation |-> Request(i),
                 decision |-> decisions[i].decision] : i \in Recorded},
        reply <- [t \in Task |->
                    [observation |-> calls[t].observation,
                     answer |-> calls[t].answer, decision |-> calls[t].decision]]

\* submit, with its two separate acquisitions of the mutex and the checks in
\* between, behaves as one atomic admission, repetition or refusal, and the
\* tables of spent challenges, evidence and sequences stay in step with the
\* record of decisions.
ImplementsLog == Log!LogSpec

\* Every call that began is answered, unless its caller drops it: no path
\* through the two locked stretches leaves a call waiting.
CallsAreAnswered ==
    \A t \in Task : ~ Free(t) ~> Free(t)
=============================================================================
