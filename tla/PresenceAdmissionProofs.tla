----------------------- MODULE PresenceAdmissionProofs -----------------------
(***************************************************************************)
(* Safety of the doorway admission engine, for any number of callers,      *)
(* principals, houses, nonces and observations and any values of the caps. *)
(***************************************************************************)
EXTENDS PresenceAdmission, TLAPS

\* The inductive form of TypeOK: what a call carries is well typed only
\* together with the stage the call has reached.
GrantsInPast ==
    \A n \in Nonce : granted[n] # None => granted[n].issued_at <= now

TypeInv == TypeOK /\ CallsCoherent /\ GrantsInPast

(***************************************************************************)
(* Calls.                                                                  *)
(***************************************************************************)
\* The clock stays among the instants that grants and decisions may carry.
LEMMA ClockIsTime == 0 \in Time /\ 0..MaxClock \subseteq Time
BY BoundsAssumption DEF Time

\* A call that returned is well typed.
LEMMA EndCallType ==
    ASSUME NEW o \in Observation \cup {None}, NEW a \in Answer,
           NEW d \in PresenceDecision \cup {None}, d # None <=> a = "Decided"
    PROVE  EndCall(o, a, d) \in Call
BY ClockIsTime DEF EndCall, Call, Stage

\* A call that begins is well typed.
LEMMA BeginCallType ==
    ASSUME now \in 0..MaxClock, NEW s \in Stage, NEW p \in Principal \cup {None},
           NEW h \in House \cup {None}, NEW o \in Observation \cup {None}
    PROVE  BeginCall(s, p, h, o) \in Call
BY ClockIsTime DEF BeginCall, Call, Answer

\* The fields of a call that submit is working on.
LEMMA SubmittingType ==
    ASSUME TypeInv, NEW t \in Task, Submitting(calls[t])
    PROVE  /\ calls[t].principal \in Principal
           /\ calls[t].observation \in Observation
           /\ calls[t].observation \in DoorwayObservation
           /\ calls[t].now \in 0..MaxClock
<1>1. calls[t] \in Call
  BY DEF TypeInv, TypeOK
<1>2. Coherent(calls[t])
  BY DEF TypeInv, CallsCoherent
<1>3. /\ calls[t].principal \in Principal
      /\ calls[t].observation \in Observation
  BY <1>1, <1>2 DEF Call, Coherent
<1>4. calls[t].now \in 0..MaxClock
  BY <1>1, <1>2, BoundsAssumption DEF Call, Coherent, Time, TypeInv, TypeOK
<1> QED
  BY <1>3, <1>4, ObservationAssumption

\* Calls stay coherent when one of them is replaced by a coherent one, the
\* clock does not run back and grants are only added.
LEMMA ReplaceCall ==
    ASSUME TypeInv, NEW t \in Task, NEW c \in Call,
           calls' = [calls EXCEPT ![t] = c], Coherent(calls[t])',
           now' \in 0..MaxClock, now <= now',
           \A n \in Nonce : granted[n] # None => granted'[n] = granted[n]
    PROVE  calls' \in [Task -> Call] /\ CallsCoherent'
<1>1. calls' \in [Task -> Call]
  BY DEF TypeInv, TypeOK
<1>2. ASSUME NEW u \in Task, u # t
      PROVE  Coherent(calls[u])'
  <2>1. calls'[u] = calls[u]
    BY <1>2 DEF TypeInv, TypeOK
  <2>2. Coherent(calls[u]) /\ calls[u] \in Call
    BY DEF TypeInv, TypeOK, CallsCoherent
  <2>3. calls[u].now <= now'
    BY <2>2, BoundsAssumption DEF Coherent, Call, Time, TypeInv, TypeOK
  <2>4. ASSUME Submitting(calls[u])
        PROVE  calls[u].observation.submission_nonce \in Nonce
    BY <2>4, SubmittingType DEF DoorwayObservation
  <2> QED
    BY <2>1, <2>2, <2>3, <2>4 DEF Coherent, NonceKnown, Submitting
<1> QED
  BY <1>1, <1>2 DEF CallsCoherent

\* Answering a call keeps the calls well typed and coherent.
LEMMA RespondType ==
    ASSUME TypeInv, now' = now, NEW t \in Task, NEW a \in Answer,
           NEW d \in PresenceDecision \cup {None}, d # None <=> a = "Decided",
           Respond(t, a, d),
           \A n \in Nonce : granted[n] # None => granted'[n] = granted[n]
    PROVE  calls' \in [Task -> Call] /\ CallsCoherent'
<1> DEFINE c == EndCall(calls[t].observation, a, d)
<1>1. calls[t].observation \in Observation \cup {None}
  BY DEF TypeInv, TypeOK, Call
<1>2. c \in Call
  BY <1>1, EndCallType
<1>3. calls' = [calls EXCEPT ![t] = c]
  BY DEF Respond
<1>4. calls'[t] = c
  BY <1>3 DEF TypeInv, TypeOK
<1>5. c.now <= now' /\ c.pc = "done"
  BY BoundsAssumption DEF EndCall, TypeInv, TypeOK
<1>6. Coherent(calls[t])'
  BY <1>4, <1>5 DEF Coherent, Submitting
<1>7. now' \in 0..MaxClock /\ now <= now'
  BY BoundsAssumption DEF TypeInv, TypeOK
<1> HIDE DEF c
<1> QED
  BY <1>2, <1>3, <1>6, <1>7, ReplaceCall

(***************************************************************************)
(* Types.                                                                  *)
(***************************************************************************)
\* The empty ledger and the idle calls are well typed.
LEMMA TypeInit == Init => TypeInv
<1> SUFFICES ASSUME Init PROVE TypeInv
  OBVIOUS
<1>1. IdleCall \in Call
  BY ClockIsTime DEF IdleCall, Call, Stage, Answer
<1>2. TypeOK
  BY <1>1, BoundsAssumption DEF Init, TypeOK
<1>3. CallsCoherent
  BY DEF Init, CallsCoherent, Coherent, Submitting, IdleCall
<1>4. GrantsInPast
  BY DEF Init, GrantsInPast
<1> QED
  BY <1>2, <1>3, <1>4 DEF TypeInv

\* A call begins or goes on to its next stage; the ledger is as it was.
LEMMA TypeBegin ==
    ASSUME TypeInv, NEW t \in Task, Begin(t)
    PROVE  TypeInv'
<1>1. UNCHANGED <<now, ledger, granted, admittedBy>>
  BY DEF Begin, IssueNonce, Submit
<1>2. now' \in 0..MaxClock /\ now <= now'
  BY <1>1, BoundsAssumption DEF TypeInv, TypeOK
<1>3. ASSUME NEW p \in Principal, NEW h \in House, IssueNonce(t, p, h)
      PROVE  calls' \in [Task -> Call] /\ CallsCoherent'
  <2>1. CASE calls' = [calls EXCEPT ![t] = BeginCall("nonce_lock", p, h, None)]
    <3>1. BeginCall("nonce_lock", p, h, None) \in Call
      BY BeginCallType DEF TypeInv, TypeOK, Stage
    <3>2. calls'[t] = BeginCall("nonce_lock", p, h, None)
      BY <2>1 DEF TypeInv, TypeOK
    <3>3. Coherent(calls[t])'
      BY <3>2, <1>1, <1>2, NoneAssumption
         DEF Coherent, BeginCall, Submitting, TypeInv, TypeOK
    <3> QED
      BY <2>1, <3>1, <3>3, <1>1, <1>2, ReplaceCall
  <2>2. ASSUME NEW e \in AdmissionError,
               calls' = [calls EXCEPT ![t] = EndCall(None, e, None)]
        PROVE  calls' \in [Task -> Call] /\ CallsCoherent'
    <3>1. EndCall(None, e, None) \in Call
      BY EndCallType DEF Answer, AdmissionError
    <3>2. calls'[t] = EndCall(None, e, None)
      BY <2>2 DEF TypeInv, TypeOK
    <3>3. Coherent(calls[t])'
      BY <3>2, <1>2, BoundsAssumption DEF Coherent, EndCall, Submitting
    <3> QED
      BY <2>2, <3>1, <3>3, <1>1, <1>2, ReplaceCall
  <2> QED
    BY <1>3, <2>1, <2>2 DEF IssueNonce, AdmissionError
<1>4. ASSUME NEW p \in Principal, NEW o \in Observation, Submit(t, p, o)
      PROVE  calls' \in [Task -> Call] /\ CallsCoherent'
  <2>1. CASE calls' = [calls EXCEPT ![t] = BeginCall("first_lock", p, None, o)]
    <3>1. BeginCall("first_lock", p, None, o) \in Call
      BY BeginCallType DEF TypeInv, TypeOK, Stage
    <3>2. calls'[t] = BeginCall("first_lock", p, None, o)
      BY <2>1 DEF TypeInv, TypeOK
    <3>3. Coherent(calls[t])'
      <4>1. o.submission_nonce \in Nonce
        BY ObservationAssumption DEF DoorwayObservation
      <4>2. ASSUME granted[o.submission_nonce] # None
            PROVE  granted[o.submission_nonce].issued_at <= now
        BY <4>1, <4>2 DEF TypeInv, GrantsInPast
      <4> QED
        BY <1>4, <3>2, <4>1, <4>2, <1>1, <1>2, NoneAssumption
           DEF Submit, Coherent, NonceKnown, BeginCall, Submitting, TypeInv, TypeOK
    <3> QED
      BY <2>1, <3>1, <3>3, <1>1, <1>2, ReplaceCall
  <2>2. ASSUME NEW e \in AdmissionError,
               calls' = [calls EXCEPT ![t] = EndCall(o, e, None)]
        PROVE  calls' \in [Task -> Call] /\ CallsCoherent'
    <3>1. EndCall(o, e, None) \in Call
      BY EndCallType DEF Answer, AdmissionError
    <3>2. calls'[t] = EndCall(o, e, None)
      BY <2>2 DEF TypeInv, TypeOK
    <3>3. Coherent(calls[t])'
      BY <3>2, <1>2, BoundsAssumption DEF Coherent, EndCall, Submitting
    <3> QED
      BY <2>2, <3>1, <3>3, <1>1, <1>2, ReplaceCall
  <2> QED
    BY <1>4, <2>1, <2>2 DEF Submit, AdmissionError
<1>5. calls' \in [Task -> Call] /\ CallsCoherent'
  BY <1>3, <1>4 DEF Begin
<1> QED
  BY <1>1, <1>5 DEF TypeInv, TypeOK, GrantsInPast, ledger

\* Grants are added with the lifetime of a nonce, and pruned.
LEMMA TypeGrant ==
    ASSUME TypeInv, NEW t \in Task, GrantNonce(t)
    PROVE  TypeInv'
<1> DEFINE c == calls[t]
           live == LiveNonces(c.now)
           grant == [principal |-> c.principal, house_id |-> c.house_id,
                     issued_at |-> c.now, expires_at |-> c.now + NonceTtl]
<1>1. /\ now' = now
      /\ UNCHANGED <<used_challenges, used_evidence, sequences, decisions,
                     admittedBy>>
  BY DEF GrantNonce
<1>2. c \in Call /\ Coherent(c) /\ c.pc = "nonce_lock"
  BY DEF TypeInv, TypeOK, CallsCoherent, GrantNonce
<1>3. c.principal \in Principal /\ c.house_id \in House /\ c.now \in 0..now
  BY <1>2, BoundsAssumption DEF Call, Coherent, Time, TypeInv, TypeOK
<1>4. grant \in NonceGrant
  BY <1>3, BoundsAssumption DEF NonceGrant, Time, TypeInv, TypeOK
<1>5. live \in [Nonce -> NonceGrant \cup {None}]
  BY DEF LiveNonces, TypeInv, TypeOK
<1>6. CASE /\ nonces' = live
           /\ granted' = granted
           /\ Respond(t, "RateLimited", None)
  <2>1. calls' \in [Task -> Call] /\ CallsCoherent'
    BY <1>1, <1>6, RespondType DEF Answer, AdmissionError
  <2> QED
    BY <1>1, <1>5, <1>6, <2>1 DEF TypeInv, TypeOK, GrantsInPast
<1>7. ASSUME NEW n \in FreshNonce,
             nonces' = [live EXCEPT ![n] = grant],
             granted' = [granted EXCEPT ![n] = grant],
             Respond(t, "Granted", None)
      PROVE  TypeInv'
  <2>1. n \in Nonce /\ granted[n] = None
    BY DEF FreshNonce
  <2>2. \A m \in Nonce : granted[m] # None => granted'[m] = granted[m]
    BY <1>7, <2>1 DEF TypeInv, TypeOK
  <2>3. calls' \in [Task -> Call] /\ CallsCoherent'
    BY <1>1, <1>7, <2>2, RespondType DEF Answer
  <2>4. nonces' \in [Nonce -> NonceGrant \cup {None}]
    BY <1>4, <1>5, <1>7
  <2>5. granted' \in [Nonce -> NonceGrant \cup {None}]
    BY <1>4, <1>7 DEF TypeInv, TypeOK
  <2>6. GrantsInPast'
    BY <1>1, <1>3, <1>7, <2>1 DEF TypeInv, TypeOK, GrantsInPast
  <2> QED
    BY <1>1, <2>3, <2>4, <2>5, <2>6 DEF TypeInv, TypeOK
<1> QED
  BY <1>6, <1>7 DEF GrantNonce

\* The first lookup answers the call or lets it go on.
LEMMA AdvanceType ==
    ASSUME TypeInv, UNCHANGED <<now, granted>>, NEW t \in Task,
           NEW s \in {"verify", "second_lock"}, Submitting(calls[t]), Advance(t, s)
    PROVE  calls' \in [Task -> Call] /\ CallsCoherent'
<1> DEFINE c == [calls[t] EXCEPT !.pc = s]
<1>1. calls[t] \in Call /\ Coherent(calls[t])
  BY DEF TypeInv, TypeOK, CallsCoherent
<1>2. c \in Call
  BY <1>1 DEF Call, Stage
<1>3. calls' = [calls EXCEPT ![t] = c]
  BY DEF Advance, TypeInv, TypeOK
<1>4. calls'[t] = c
  BY <1>3 DEF TypeInv, TypeOK
<1>5. /\ c.pc = s /\ c.now = calls[t].now
      /\ c.principal = calls[t].principal /\ c.observation = calls[t].observation
  BY <1>1 DEF Call
<1> HIDE DEF c
<1>6. Coherent(calls[t])'
  BY <1>1, <1>4, <1>5 DEF Coherent, NonceKnown, Submitting
<1>7. now' \in 0..MaxClock /\ now <= now'
  BY BoundsAssumption DEF TypeInv, TypeOK
<1> QED
  BY <1>2, <1>3, <1>6, <1>7, ReplaceCall

\* An answer from the record is a recorded decision or "Replayed".
LEMMA AnswerFromRecordType ==
    ASSUME TypeInv, UNCHANGED <<now, granted>>, NEW t \in Task,
           Submitting(calls[t]), calls[t].observation.observation_id \in Recorded,
           AnswerFromRecord(t)
    PROVE  calls' \in [Task -> Call] /\ CallsCoherent'
<1> DEFINE recorded == decisions[calls[t].observation.observation_id]
<1>1. recorded \in RecordedDecision
  BY DEF Recorded, TypeInv, TypeOK
<1>2. recorded.decision \in PresenceDecision
  BY <1>1 DEF RecordedDecision
<1>3. CASE Respond(t, "Decided", recorded.decision)
  BY <1>2, <1>3, NoneAssumption, RespondType DEF Answer
<1>4. CASE Respond(t, "Replayed", None)
  BY <1>4, RespondType DEF Answer, AdmissionError
<1> QED
  BY <1>3, <1>4 DEF AnswerFromRecord

\* The lookup under the first lock.
LEMMA TypeLookUp ==
    ASSUME TypeInv, NEW t \in Task, LookUp(t)
    PROVE  TypeInv'
<1>1. Submitting(calls[t]) /\ UNCHANGED <<now, ledger, granted, admittedBy>>
  BY DEF LookUp, Submitting
<1>2. CASE /\ calls[t].observation.observation_id \in Recorded
           /\ AnswerFromRecord(t)
  BY <1>1, <1>2, AnswerFromRecordType
     DEF TypeInv, TypeOK, GrantsInPast, ledger
<1>3. CASE Advance(t, "verify")
  BY <1>1, <1>3, AdvanceType DEF TypeInv, TypeOK, GrantsInPast, ledger
<1> QED
  BY <1>2, <1>3 DEF LookUp

\* Verification, outside the lock.
LEMMA TypeVerify ==
    ASSUME TypeInv, NEW t \in Task, Verify(t)
    PROVE  TypeInv'
<1>1. Submitting(calls[t]) /\ UNCHANGED <<now, ledger, granted, admittedBy>>
  BY DEF Verify, Submitting
<1>2. ASSUME NEW e \in AdmissionError, Respond(t, e, None)
      PROVE  calls' \in [Task -> Call] /\ CallsCoherent'
  BY <1>1, <1>2, RespondType DEF Answer, AdmissionError
<1>3. CASE Advance(t, "second_lock")
  BY <1>1, <1>3, AdvanceType DEF TypeInv, TypeOK, GrantsInPast, ledger
<1>4. calls' \in [Task -> Call] /\ CallsCoherent'
  BY <1>1, <1>2, <1>3, AdvanceType DEF Verify, AdmissionError
<1> QED
  BY <1>1, <1>4 DEF TypeInv, TypeOK, GrantsInPast, ledger

\* A refusal is one of the admission errors.
LEMMA RefusalType ==
    ASSUME NEW p, NEW o, NEW at, Refusal(p, o, at) # "none"
    PROVE  Refusal(p, o, at) \in AdmissionError
BY DEF Refusal, AdmissionError

\* A decision is well typed: the sequence check keeps its number in range.
LEMMA DecisionType ==
    ASSUME TypeInv, NEW p \in Principal, NEW o \in Observation,
           NEW at \in 0..MaxClock, Refusal(p, o, at) = "none"
    PROVE  Decision(p, o, at) \in PresenceDecision
<1>1. o \in DoorwayObservation
  BY ObservationAssumption
<1>2. o.observation_id \in ObservationId /\ o.house_id \in House
  BY <1>1 DEF DoorwayObservation
<1>3. sequences[<<p, o.house_id>>] \in 0..MaxSequence
  BY <1>2 DEF TypeInv, TypeOK
<1>4. sequences[<<p, o.house_id>>] + 1 \in 0..MaxSequence
  BY <1>3, BoundsAssumption DEF Refusal, SequenceConflict
<1>5. at \in Time
  BY ClockIsTime
<1> QED
  BY <1>2, <1>4, <1>5 DEF Decision, PresenceDecision

\* The ledger after a decision is recorded.
LEMMA TypeRecord ==
    ASSUME TypeInv, NEW t \in Task, Submitting(calls[t]),
           UNCHANGED <<now, granted>>,
           Refusal(calls[t].principal, calls[t].observation, calls[t].now) = "none",
           Record(t, calls[t].principal, calls[t].observation, calls[t].now)
    PROVE  TypeInv'
<1> DEFINE p == calls[t].principal
           o == calls[t].observation
           d == Decision(p, o, calls[t].now)
<1>1. /\ p \in Principal
      /\ o \in Observation
      /\ o \in DoorwayObservation
      /\ calls[t].now \in 0..MaxClock
  BY SubmittingType
<1>2. d \in PresenceDecision
  BY <1>1, DecisionType
<1>3. /\ o.observation_id \in ObservationId
      /\ o.submission_nonce \in Nonce
      /\ o.challenge_id \in Challenge
      /\ o.evidence_id \in Evidence
      /\ o.house_id \in House
  BY <1>1 DEF DoorwayObservation
<1>4. calls' \in [Task -> Call] /\ CallsCoherent'
  BY <1>2, NoneAssumption, RespondType DEF Record, Answer
<1>5. [request_digest |-> o, decision |-> d] \in RecordedDecision
  BY <1>1, <1>2 DEF RecordedDecision
<1>6. d.presence_sequence \in 0..MaxSequence
  BY <1>2 DEF PresenceDecision
<1>7. /\ nonces' = [nonces EXCEPT ![o.submission_nonce] = None]
      /\ used_challenges' = used_challenges \cup {o.challenge_id}
      /\ used_evidence' = used_evidence \cup {o.evidence_id}
      /\ sequences' = [sequences EXCEPT ![<<p, o.house_id>>] = d.presence_sequence]
      /\ decisions' = [decisions EXCEPT ![o.observation_id] =
                          [request_digest |-> o, decision |-> d]]
      /\ admittedBy' = [admittedBy EXCEPT ![o.observation_id] = p]
  BY DEF Record, Spend, NextSequences
<1> HIDE DEF p, o, d
<1>8. TypeOK'
  BY <1>1, <1>3, <1>4, <1>5, <1>6, <1>7 DEF TypeInv, TypeOK
<1> QED
  BY <1>4, <1>8 DEF TypeInv, GrantsInPast

\* The commit under the second lock.
LEMMA TypeCommit ==
    ASSUME TypeInv, NEW t \in Task, Commit(t)
    PROVE  TypeInv'
<1> DEFINE refusal == Refusal(calls[t].principal, calls[t].observation, calls[t].now)
<1>1. Submitting(calls[t]) /\ UNCHANGED <<now, granted>>
  BY DEF Commit, Submitting
<1>2. CASE /\ RecordedMeanwhile(t)
           /\ AnswerFromRecord(t)
           /\ UNCHANGED <<ledger, admittedBy>>
  BY <1>1, <1>2, AnswerFromRecordType
     DEF RecordedMeanwhile, TypeInv, TypeOK, GrantsInPast, ledger
<1>3. CASE refusal # "none" /\ Refuse(t, refusal)
  <2>1. refusal \in Answer /\ refusal # "Decided"
    BY <1>3, RefusalType DEF Answer, AdmissionError
  <2>2. calls' \in [Task -> Call] /\ CallsCoherent'
    BY <1>1, <1>3, <2>1, RespondType DEF Refuse
  <2> QED
    BY <1>1, <1>3, <2>2 DEF Refuse, TypeInv, TypeOK, GrantsInPast, ledger
<1>4. CASE /\ refusal = "none"
           /\ Record(t, calls[t].principal, calls[t].observation, calls[t].now)
  BY <1>1, <1>4, TypeRecord
<1> QED
  BY <1>2, <1>3, <1>4 DEF Commit

\* A dropped call leaves the ledger as it was.
LEMMA TypeAbandon ==
    ASSUME TypeInv, NEW t \in Task, Abandon(t)
    PROVE  TypeInv'
<1>1. IdleCall \in Call
  BY ClockIsTime DEF IdleCall, Call, Stage, Answer
<1>2. /\ UNCHANGED <<now, ledger, granted, admittedBy>>
      /\ calls' = [calls EXCEPT ![t] = IdleCall]
  BY DEF Abandon
<1>3. now' \in 0..MaxClock /\ now <= now'
  BY <1>2, BoundsAssumption DEF TypeInv, TypeOK
<1>4. Coherent(calls[t])'
  BY <1>2, <1>3, BoundsAssumption
     DEF Coherent, IdleCall, Submitting, TypeInv, TypeOK
<1>5. calls' \in [Task -> Call] /\ CallsCoherent'
  BY <1>1, <1>2, <1>3, <1>4, ReplaceCall
<1> QED
  BY <1>2, <1>5 DEF TypeInv, TypeOK, GrantsInPast, ledger

\* The passing of time disturbs neither types nor calls.
LEMMA TypeTick ==
    ASSUME TypeInv, Tick
    PROVE  TypeInv'
<1>1. now' \in 0..MaxClock /\ now <= now'
  BY BoundsAssumption DEF Tick, TypeInv, TypeOK
<1>2. UNCHANGED <<ledger, calls, granted, admittedBy>>
  BY DEF Tick
<1>3. TypeOK'
  BY <1>1, <1>2 DEF TypeInv, TypeOK, ledger
<1>4. CallsCoherent'
  <2> SUFFICES ASSUME NEW u \in Task PROVE Coherent(calls[u])'
    BY DEF CallsCoherent
  <2>1. Coherent(calls[u]) /\ calls[u] \in Call
    BY DEF TypeInv, TypeOK, CallsCoherent
  <2>2. calls[u].now <= now'
    BY <1>1, <2>1, BoundsAssumption DEF Coherent, Call, Time, TypeInv, TypeOK
  <2> QED
    BY <1>2, <2>1, <2>2 DEF Coherent, NonceKnown
<1>5. GrantsInPast'
  <2> SUFFICES ASSUME NEW n \in Nonce, granted[n] # None
               PROVE  granted[n].issued_at <= now'
    BY <1>2 DEF GrantsInPast
  <2>1. granted[n] \in NonceGrant /\ granted[n].issued_at <= now
    BY DEF TypeInv, TypeOK, GrantsInPast
  <2> QED
    BY <1>1, <2>1, BoundsAssumption DEF NonceGrant, Time, TypeInv, TypeOK
<1> QED
  BY <1>3, <1>4, <1>5 DEF TypeInv

\* TypeInv is inductive.
LEMMA TypeStep == TypeInv /\ [Next]_vars => TypeInv'
<1> SUFFICES ASSUME TypeInv, [Next]_vars PROVE TypeInv'
  OBVIOUS
<1>1. CASE UNCHANGED vars
  BY <1>1 DEF vars, ledger, TypeInv, TypeOK, CallsCoherent, Coherent,
              NonceKnown, GrantsInPast
<1>2. CASE Tick
  BY <1>2, TypeTick
<1>3. ASSUME NEW t \in Task, Begin(t) \/ Step(t) \/ Abandon(t)
      PROVE  TypeInv'
  BY <1>3, TypeBegin, TypeGrant, TypeLookUp, TypeVerify, TypeCommit,
     TypeAbandon DEF Step
<1> QED
  BY <1>1, <1>2, <1>3 DEF Next

\* Every state the engine reaches is well typed; in particular no presence
\* sequence exceeds the largest u64 and no answer is outside the two results.
THEOREM TypeCorrect == Spec => []TypeOK
<1>1. TypeInv => TypeOK
  BY DEF TypeInv
<1> QED
  BY <1>1, TypeInit, TypeStep, PTL DEF Spec

(***************************************************************************)
(* The ledger.                                                             *)
(***************************************************************************)
\* The inductive invariant behind the safety theorems.  SpentOnce is not
\* inductive alone: a step sees only the tables, so the tables must be known
\* to cover everything the recorded requests used.
LedgerInv ==
    /\ LedgerCoherent
    /\ SpentOnce
    /\ GaplessSequences
    /\ AdmittedUnderGrant

\* An empty ledger is coherent.
LEMMA LedgerInit == Init => LedgerInv
<1> SUFFICES ASSUME Init PROVE LedgerInv
  OBVIOUS
<1>1. Recorded = {}
  BY DEF Init, Recorded
<1>2. LedgerCoherent /\ SpentOnce /\ AdmittedUnderGrant
  BY <1>1 DEF Init, LedgerCoherent, SpentOnce, AdmittedUnderGrant
<1>3. ASSUME NEW p \in Principal, NEW h \in House
      PROVE  Of(p, h) = {} /\ 1..sequences[<<p, h>>] = {}
  BY <1>1 DEF Init, Of
<1>4. GaplessSequences
  BY <1>3 DEF GaplessSequences
<1> QED
  BY <1>2, <1>4 DEF LedgerInv

\* Steps that leave the ledger alone.
LEMMA LedgerQuiet ==
    ASSUME LedgerInv, UNCHANGED <<ledger, granted, admittedBy>>
    PROVE  LedgerInv'
BY DEF ledger, LedgerInv, LedgerCoherent, SpentOnce, GaplessSequences,
       AdmittedUnderGrant, Recorded, Request, Of

\* Pruning and granting nonces: a fresh nonce backs no recorded decision.
LEMMA LedgerGrant ==
    ASSUME TypeInv, LedgerInv, NEW t \in Task, GrantNonce(t)
    PROVE  LedgerInv'
<1> DEFINE c == calls[t]
           live == LiveNonces(c.now)
           grant == [principal |-> c.principal, house_id |-> c.house_id,
                     issued_at |-> c.now, expires_at |-> c.now + NonceTtl]
<1>1. UNCHANGED <<used_challenges, used_evidence, sequences, decisions, admittedBy>>
  BY DEF GrantNonce
<1>2. /\ Recorded' = Recorded
      /\ \A i \in Recorded : Request(i)' = Request(i)
  BY <1>1 DEF Recorded, Request
<1>3. SpentOnce' /\ GaplessSequences'
  BY <1>1, <1>2 DEF LedgerInv, SpentOnce, GaplessSequences, Recorded, Request, Of
<1>4. \A n \in Nonce : live[n] \in {nonces[n], None}
  BY DEF LiveNonces
<1>5. \A i \in Recorded : Request(i).submission_nonce \in Nonce
  <2> SUFFICES ASSUME NEW i \in Recorded
               PROVE  Request(i).submission_nonce \in Nonce
    OBVIOUS
  <2>1. Request(i) \in Observation
    BY DEF Recorded, Request, TypeInv, TypeOK, RecordedDecision
  <2> QED
    BY <2>1, ObservationAssumption DEF DoorwayObservation
<1>6. CASE nonces' = live /\ granted' = granted
  <2>1. LedgerCoherent'
    BY <1>1, <1>2, <1>4, <1>5, <1>6 DEF LedgerInv, LedgerCoherent
  <2>2. AdmittedUnderGrant'
    BY <1>1, <1>2, <1>6 DEF LedgerInv, AdmittedUnderGrant
  <2> QED
    BY <1>3, <2>1, <2>2 DEF LedgerInv
<1>7. ASSUME NEW n \in FreshNonce,
             nonces' = [live EXCEPT ![n] = grant],
             granted' = [granted EXCEPT ![n] = grant]
      PROVE  LedgerInv'
  <2>1. n \in Nonce /\ n \notin ForeignNonce /\ granted[n] = None
    BY DEF FreshNonce
  <2>2. /\ nonces'[n] = grant /\ granted'[n] = grant
        /\ \A m \in Nonce \ {n} : nonces'[m] = live[m] /\ granted'[m] = granted[m]
    BY <1>7, <2>1 DEF TypeInv, TypeOK, LiveNonces
  <2>3. \A i \in Recorded : Request(i).submission_nonce # n
    BY <2>1 DEF LedgerInv, LedgerCoherent
  <2> HIDE DEF grant, live
  <2>4. LedgerCoherent'
    BY <1>1, <1>2, <1>4, <1>5, <2>1, <2>2, <2>3 DEF LedgerInv, LedgerCoherent
  <2>5. AdmittedUnderGrant'
    BY <1>1, <1>2, <1>5, <2>2, <2>3 DEF LedgerInv, AdmittedUnderGrant
  <2> QED
    BY <1>3, <2>4, <2>5 DEF LedgerInv
<1> QED
  BY <1>6, <1>7 DEF GrantNonce

\* Recording a decision.  Its identifier was unrecorded, its nonce pending and
\* its challenge and evidence unmarked, so no earlier decision used them.
LEMMA LedgerRecord ==
    ASSUME TypeInv, LedgerInv, NEW t \in Task, NEW p \in Principal,
           NEW o \in Observation, NEW at \in 0..MaxClock,
           o.observation_id \notin Recorded,
           o.submission_nonce \notin ForeignNonce =>
               granted[o.submission_nonce].issued_at <= at,
           Refusal(p, o, at) = "none", granted' = granted, Record(t, p, o, at)
    PROVE  LedgerInv'
<1> DEFINE k == o.observation_id
           grant == nonces[o.submission_nonce]
           s == sequences[<<p, o.house_id>>]
           d == Decision(p, o, at)
<1>1. o \in DoorwayObservation
  BY ObservationAssumption
<1>2. /\ k \in ObservationId
      /\ o.submission_nonce \in Nonce
      /\ o.house_id \in House
  BY <1>1 DEF DoorwayObservation
<1>3. /\ grant # None
      /\ grant.expires_at > at
      /\ grant.principal = p
      /\ grant.house_id = o.house_id
      /\ o.challenge_id \notin used_challenges
      /\ o.evidence_id \notin used_evidence
  <2>1. grant # None /\ ~ (grant.expires_at <= at)
    BY DEF Refusal, GrantExpired
  <2>2. grant \in NonceGrant
    BY <1>2, <2>1 DEF TypeInv, TypeOK
  <2>3. grant.expires_at > at
    BY <2>1, <2>2, BoundsAssumption DEF NonceGrant, Time
  <2> QED
    BY <2>1, <2>3 DEF Refusal
<1>4. /\ d.house_id = o.house_id
      /\ d.presence_sequence = s + 1
      /\ d.recorded_at = at
  BY DEF Decision
<1>5. /\ nonces' = [nonces EXCEPT ![o.submission_nonce] = None]
      /\ used_challenges' = used_challenges \cup {o.challenge_id}
      /\ used_evidence' = used_evidence \cup {o.evidence_id}
      /\ sequences' = [sequences EXCEPT ![<<p, o.house_id>>] = d.presence_sequence]
      /\ decisions' = [decisions EXCEPT ![k] = [request_digest |-> o, decision |-> d]]
      /\ admittedBy' = [admittedBy EXCEPT ![k] = p]
  BY DEF Record, Spend, NextSequences
<1>6. decisions[k] = None
  BY <1>2 DEF Recorded
<1>7. granted[o.submission_nonce] = grant /\ o.submission_nonce \notin ForeignNonce
  BY <1>2, <1>3 DEF LedgerInv, LedgerCoherent
<1>8. grant.issued_at <= at
  BY <1>7
<1>9. [request_digest |-> o, decision |-> d] # None
  BY <1>1, DecisionType, NoneAssumption DEF RecordedDecision
<1>10. s \in 0..MaxSequence
  BY <1>1, <1>2 DEF TypeInv, TypeOK
<1>11. o.previous_presence_sequence = s
  BY DEF Refusal, SequenceConflict
<1> HIDE DEF grant, s, d
<1>12. /\ k \notin Recorded
       /\ Recorded' = Recorded \cup {k}
       /\ decisions'[k] = [request_digest |-> o, decision |-> d]
       /\ admittedBy'[k] = p
       /\ \A i \in Recorded : /\ decisions'[i] = decisions[i]
                              /\ admittedBy'[i] = admittedBy[i]
  BY <1>2, <1>5, <1>6, <1>9 DEF Recorded, TypeInv, TypeOK
<1>13. /\ Request(k)' = o
       /\ \A i \in Recorded : Request(i)' = Request(i)
  BY <1>12 DEF Request
<1>14. LedgerCoherent'
  <2>1. ASSUME NEW i \in Recorded
        PROVE  /\ Request(i).submission_nonce \in Nonce
               /\ Request(i).submission_nonce # o.submission_nonce
    <3>1. Request(i) \in Observation
      BY DEF Recorded, Request, TypeInv, TypeOK, RecordedDecision
    <3>2. nonces[o.submission_nonce] # None
      BY <1>3 DEF grant
    <3> QED
      BY <3>1, <3>2, ObservationAssumption
         DEF DoorwayObservation, LedgerInv, LedgerCoherent
  <2>2. \A i \in Recorded :
           nonces'[Request(i).submission_nonce] = nonces[Request(i).submission_nonce]
    BY <1>5, <2>1 DEF TypeInv, TypeOK
  <2>3. nonces'[o.submission_nonce] = None
    BY <1>2, <1>5 DEF TypeInv, TypeOK
  <2>4. ASSUME NEW i \in Recorded'
        PROVE
          /\ Request(i)'.observation_id = i
          /\ decisions'[i].decision.house_id = Request(i)'.house_id
          /\ admittedBy'[i] # None
          /\ granted'[Request(i)'.submission_nonce] # None
          /\ nonces'[Request(i)'.submission_nonce] = None
    <3>1. CASE i = k
      BY <3>1, <1>1, <1>3, <1>4, <1>5, <1>7, <1>12, <1>13, <2>3,
         NoneAssumption
    <3>2. CASE i \in Recorded
      BY <3>2, <1>5, <1>12, <1>13, <2>2 DEF LedgerInv, LedgerCoherent
    <3> QED
      BY <1>12, <3>1, <3>2
  <2>5. \A n \in Nonce :
          /\ nonces'[n] # None => nonces'[n] = granted'[n]
          /\ granted'[n] # None => n \notin ForeignNonce
    BY <1>2, <1>5 DEF TypeInv, TypeOK, LedgerInv, LedgerCoherent
  <2>6. /\ used_challenges' = {Request(i)'.challenge_id : i \in Recorded'}
        /\ used_evidence' = {Request(i)'.evidence_id : i \in Recorded'}
    BY <1>5, <1>12, <1>13 DEF LedgerInv, LedgerCoherent
  <2> QED
    BY <2>4, <2>5, <2>6 DEF LedgerCoherent
<1>15. SpentOnce'
  <2>1. ASSUME NEW i \in Recorded
        PROVE  /\ Request(i).submission_nonce # o.submission_nonce
               /\ Request(i).challenge_id # o.challenge_id
               /\ Request(i).evidence_id # o.evidence_id
    <3>1. nonces[o.submission_nonce] # None
      BY <1>3 DEF grant
    <3> QED
      BY <1>3, <3>1 DEF LedgerInv, LedgerCoherent
  <2> QED
    BY <1>12, <1>13, <2>1 DEF LedgerInv, SpentOnce
<1>16. GaplessSequences'
  <2> SUFFICES ASSUME NEW q \in Principal, NEW h \in House
               PROVE  /\ {decisions'[i].decision.presence_sequence : i \in Of(q, h)'}
                            = 1..sequences'[<<q, h>>]
                      /\ \A i, j \in Of(q, h)' :
                            decisions'[i].decision.presence_sequence
                              = decisions'[j].decision.presence_sequence => i = j
                      /\ \A i \in Of(q, h)' :
                            decisions'[i].decision.presence_sequence
                              = Request(i)'.previous_presence_sequence + 1
    BY DEF GaplessSequences
  <2>1. /\ {decisions[i].decision.presence_sequence : i \in Of(q, h)}
              = 1..sequences[<<q, h>>]
        /\ \A i, j \in Of(q, h) :
              decisions[i].decision.presence_sequence
                = decisions[j].decision.presence_sequence => i = j
        /\ \A i \in Of(q, h) :
              decisions[i].decision.presence_sequence
                = Request(i).previous_presence_sequence + 1
    BY DEF LedgerInv, GaplessSequences
  <2>2. \A i \in Of(q, h) : /\ i \in Recorded
                             /\ decisions'[i] = decisions[i]
                             /\ Request(i)' = Request(i)
    BY <1>12, <1>13 DEF Of
  <2>3. CASE q = p /\ h = o.house_id
    <3>1. Of(q, h)' = Of(q, h) \cup {k}
      BY <1>4, <1>12, <2>3 DEF Of
    <3>2. sequences[<<q, h>>] = s /\ sequences'[<<q, h>>] = s + 1
      BY <1>1, <1>2, <1>4, <1>5, <2>3 DEF s, TypeInv, TypeOK
    <3>3. decisions'[k].decision.presence_sequence = s + 1
      BY <1>4, <1>12
    <3>4. \A i \in Of(q, h) : decisions[i].decision.presence_sequence \in 1..s
      BY <2>1, <3>2
    <3>5. {decisions'[i].decision.presence_sequence : i \in Of(q, h)'}
             = 1..s \cup {s + 1}
      BY <2>1, <2>2, <3>1, <3>2, <3>3
    <3>6. 1..s \cup {s + 1} = 1..(s + 1)
      BY <1>10, BoundsAssumption
    <3>7. \A i, j \in Of(q, h)' :
             decisions'[i].decision.presence_sequence
               = decisions'[j].decision.presence_sequence => i = j
      BY <1>10, <2>1, <2>2, <3>1, <3>3, <3>4
    <3>8. \A i \in Of(q, h)' :
             decisions'[i].decision.presence_sequence
               = Request(i)'.previous_presence_sequence + 1
      BY <1>13, <1>11, <2>1, <2>2, <3>1, <3>3
    <3> QED
      BY <3>2, <3>5, <3>6, <3>7, <3>8
  <2>4. CASE ~ (q = p /\ h = o.house_id)
    <3>1. Of(q, h)' = Of(q, h)
      BY <1>4, <1>12, <2>4 DEF Of
    <3>2. sequences'[<<q, h>>] = sequences[<<q, h>>]
      BY <1>1, <1>2, <1>5, <2>4 DEF TypeInv, TypeOK
    <3>3. {decisions'[i].decision.presence_sequence : i \in Of(q, h)'}
             = {decisions[i].decision.presence_sequence : i \in Of(q, h)}
      BY <2>2, <3>1
    <3> QED
      BY <2>1, <2>2, <3>1, <3>2, <3>3
  <2> QED
    BY <2>3, <2>4
<1>17. AdmittedUnderGrant'
  <2>1. \A i \in Recorded : decisions'[i] = decisions[i] /\ Request(i)' = Request(i)
    BY <1>12, <1>13
  <2> QED
    BY <1>3, <1>4, <1>7, <1>8, <1>12, <1>13, <2>1 DEF LedgerInv, AdmittedUnderGrant
<1> QED
  BY <1>14, <1>15, <1>16, <1>17 DEF LedgerInv

\* A commit refuses, replays or admits; only the last touches the ledger.
LEMMA LedgerCommit ==
    ASSUME TypeInv, LedgerInv, NEW t \in Task, Commit(t)
    PROVE  LedgerInv'
<1> DEFINE refusal == Refusal(calls[t].principal, calls[t].observation, calls[t].now)
<1>1. Submitting(calls[t]) /\ granted' = granted
  BY DEF Commit, Submitting
<1>2. CASE UNCHANGED <<ledger, admittedBy>>
  BY <1>1, <1>2, LedgerQuiet
<1>3. CASE /\ ~ RecordedMeanwhile(t)
           /\ refusal = "none"
           /\ Record(t, calls[t].principal, calls[t].observation, calls[t].now)
  <2>1. PICK p \in Principal, o \in Observation, at \in 0..MaxClock :
           p = calls[t].principal /\ o = calls[t].observation /\ at = calls[t].now
    BY <1>1, SubmittingType
  <2>2. o.submission_nonce \notin ForeignNonce =>
           granted[o.submission_nonce].issued_at <= at
    BY <1>1, <2>1 DEF TypeInv, CallsCoherent, Coherent, NonceKnown
  <2>3. o.observation_id \notin Recorded
    BY <1>3, <2>1 DEF RecordedMeanwhile
  <2>4. Refusal(p, o, at) = "none" /\ Record(t, p, o, at)
    BY <1>3, <2>1
  <2> QED
    BY <1>1, <2>2, <2>3, <2>4, LedgerRecord
<1> QED
  BY <1>2, <1>3 DEF Commit, Refuse

\* LedgerInv is inductive, given TypeInv.
LEMMA LedgerStep == TypeInv /\ LedgerInv /\ [Next]_vars => LedgerInv'
<1> SUFFICES ASSUME TypeInv, LedgerInv, [Next]_vars PROVE LedgerInv'
  OBVIOUS
<1>1. CASE UNCHANGED vars
  BY <1>1, LedgerQuiet DEF vars
<1>2. CASE Tick
  BY <1>2, LedgerQuiet DEF Tick
<1>3. ASSUME NEW t \in Task, Begin(t) \/ LookUp(t) \/ Verify(t) \/ Abandon(t)
      PROVE  LedgerInv'
  BY <1>3, LedgerQuiet DEF Begin, IssueNonce, Submit, LookUp, Verify, Abandon
<1>4. ASSUME NEW t \in Task, GrantNonce(t) PROVE LedgerInv'
  BY <1>4, LedgerGrant
<1>5. ASSUME NEW t \in Task, Commit(t) PROVE LedgerInv'
  BY <1>5, LedgerCommit
<1> QED
  BY <1>1, <1>2, <1>3, <1>4, <1>5 DEF Next, Step

\* Both invariants hold throughout.
LEMMA LedgerInvariant == Spec => [](TypeInv /\ LedgerInv)
BY TypeInit, TypeStep, LedgerInit, LedgerStep, PTL DEF Spec

\* Whatever the interleaving of callers, no nonce, challenge or piece of
\* evidence backs two decisions of the ledger of presence.rs.
THEOREM SingleUse == Spec => []SpentOnce
<1>1. LedgerInv => SpentOnce
  BY DEF LedgerInv
<1> QED
  BY <1>1, LedgerInvariant, PTL

\* The tables of the ledger stay in step with its record of decisions.
THEOREM TablesAgree == Spec => []LedgerCoherent
<1>1. LedgerInv => LedgerCoherent
  BY DEF LedgerInv
<1> QED
  BY <1>1, LedgerInvariant, PTL

\* The decisions for a principal in a house are numbered 1, 2, ... without gap
\* or repetition up to the current presence sequence.
THEOREM SequencesGapless == Spec => []GaplessSequences
<1>1. LedgerInv => GaplessSequences
  BY DEF LedgerInv
<1> QED
  BY <1>1, LedgerInvariant, PTL

\* Every decision was made under a grant to the same principal and house, by a
\* call that read the clock within the grant's lifetime.
THEOREM AdmissionsUnderGrant == Spec => []AdmittedUnderGrant
<1>1. LedgerInv => AdmittedUnderGrant
  BY DEF LedgerInv
<1> QED
  BY <1>1, LedgerInvariant, PTL

(***************************************************************************)
(* Finality, and agreement of the answers.                                 *)
(***************************************************************************)
\* No step changes or removes a recorded decision: the second lookup finds it.
LEMMA FinalStep ==
    ASSUME TypeInv, [Next]_vars
    PROVE  \A i \in Recorded : decisions'[i] = decisions[i]
<1>1. CASE UNCHANGED decisions
  BY <1>1
<1>2. ASSUME NEW t \in Task, Commit(t)
      PROVE  \A i \in Recorded : decisions'[i] = decisions[i]
  <2>1. CASE ~ RecordedMeanwhile(t) /\
             Record(t, calls[t].principal, calls[t].observation, calls[t].now)
    BY <2>1 DEF RecordedMeanwhile, Record, TypeInv, TypeOK, Recorded
  <2> QED
    BY <1>2, <2>1 DEF Commit, Refuse, ledger
<1> QED
  BY <1>1, <1>2 DEF Next, Tick, Begin, IssueNonce, Submit, Step, GrantNonce,
                    LookUp, Verify, Abandon, vars, ledger

\* A recorded decision is final.
THEOREM DecisionsFinal == Spec => DecisionsAreFinal
<1>1. TypeInv /\ [Next]_vars => [\A i \in Recorded : decisions'[i] = decisions[i]]_vars
  BY FinalStep
<1> QED
  BY <1>1, TypeInit, TypeStep, PTL DEF Spec, DecisionsAreFinal

\* The inductive form of AnswersAgreeWithRecord: the answer's decision is on
\* record, not merely equal to what the table holds.
AnswerSound(c) ==
    c.answer = "Decided" =>
        /\ c.observation.observation_id \in Recorded
        /\ decisions[c.observation.observation_id] =
              [request_digest |-> c.observation, decision |-> c.decision]

AnswersInv == \A t \in Task : AnswerSound(calls[t])

\* An answer that was sound stays so while decisions are final.
LEMMA SoundStaysSound ==
    ASSUME AnswersInv, NEW u \in Task, calls'[u] = calls[u],
           \A i \in Recorded : i \in Recorded' /\ decisions'[i] = decisions[i]
    PROVE  AnswerSound(calls[u])'
BY DEF AnswersInv, AnswerSound

\* A call answered from the record, or without a decision, is sound.
LEMMA AgreeFromRecord ==
    ASSUME TypeInv, NEW t \in Task, decisions' = decisions,
           calls[t].observation.observation_id \in Recorded, AnswerFromRecord(t)
    PROVE  AnswerSound(calls[t])'
<1> DEFINE o == calls[t].observation
           r == decisions[o.observation_id]
<1>1. r \in RecordedDecision
  BY DEF Recorded, TypeInv, TypeOK
<1>2. r = [request_digest |-> r.request_digest, decision |-> r.decision]
  BY <1>1 DEF RecordedDecision
<1>3. CASE r.request_digest = o /\ Respond(t, "Decided", r.decision)
  <2>1. calls'[t] = EndCall(o, "Decided", r.decision)
    BY <1>3 DEF Respond, TypeInv, TypeOK
  <2>2. /\ calls'[t].observation = o
        /\ calls'[t].decision = r.decision
    BY <2>1 DEF EndCall
  <2> QED
    BY <1>2, <1>3, <2>2 DEF AnswerSound, Recorded
<1>4. CASE Respond(t, "Replayed", None)
  BY <1>4 DEF Respond, EndCall, AnswerSound, TypeInv, TypeOK
<1> QED
  BY <1>3, <1>4 DEF AnswerFromRecord

\* A call that records a decision is answered with it.
LEMMA AgreeRecord ==
    ASSUME TypeInv, NEW t \in Task, Submitting(calls[t]),
           UNCHANGED <<now, granted>>,
           Refusal(calls[t].principal, calls[t].observation, calls[t].now) = "none",
           Record(t, calls[t].principal, calls[t].observation, calls[t].now)
    PROVE  AnswerSound(calls[t])'
<1> DEFINE o == calls[t].observation
           d == Decision(calls[t].principal, o, calls[t].now)
           r == [request_digest |-> o, decision |-> d]
<1>1. /\ calls[t].principal \in Principal
      /\ o \in Observation
      /\ o \in DoorwayObservation
      /\ calls[t].now \in 0..MaxClock
  BY SubmittingType
<1>2. o.observation_id \in ObservationId
  BY <1>1 DEF DoorwayObservation
<1>3. r # None
  BY <1>1, DecisionType, NoneAssumption DEF RecordedDecision
<1>4. calls'[t] = EndCall(o, "Decided", d)
  BY DEF Record, Respond, TypeInv, TypeOK
<1>5. calls'[t].observation = o /\ calls'[t].decision = d
  BY <1>4 DEF EndCall
<1>6. decisions'[o.observation_id] = r
  BY <1>2 DEF Record, TypeInv, TypeOK
<1> QED
  BY <1>2, <1>3, <1>5, <1>6 DEF AnswerSound, Recorded

\* AnswersInv is preserved by every step.
LEMMA AgreeStep ==
    ASSUME TypeInv, AnswersInv, [Next]_vars
    PROVE  AnswersInv'
<1>1. \A i \in Recorded : i \in Recorded' /\ decisions'[i] = decisions[i]
  BY FinalStep DEF Recorded
<1>2. ASSUME NEW t \in Task, AnswerSound(calls[t])',
             \A u \in Task \ {t} : calls'[u] = calls[u]
      PROVE  AnswersInv'
  BY <1>1, <1>2, SoundStaysSound DEF AnswersInv
<1>3. CASE UNCHANGED calls
  BY <1>1, <1>3, SoundStaysSound DEF AnswersInv
<1>4. ASSUME NEW t \in Task, Begin(t) \/ Step(t) \/ Abandon(t)
      PROVE  \A u \in Task \ {t} : calls'[u] = calls[u]
  BY <1>4 DEF Begin, IssueNonce, Submit, Step, GrantNonce, LookUp, Verify,
     Commit, Refuse, Record, AnswerFromRecord, Respond, Advance, Abandon,
     TypeInv, TypeOK
<1>5. ASSUME NEW t \in Task, calls'[t].answer # "Decided"
      PROVE  AnswerSound(calls[t])'
  BY <1>5 DEF AnswerSound
<1>6. ASSUME NEW t \in Task, Begin(t) \/ Abandon(t)
      PROVE  calls'[t].answer # "Decided"
  BY <1>6 DEF Begin, IssueNonce, Submit, Abandon, BeginCall, EndCall, IdleCall,
     TypeInv, TypeOK
<1>7. ASSUME NEW t \in Task, GrantNonce(t)
      PROVE  calls'[t].answer # "Decided"
  BY <1>7 DEF GrantNonce, Respond, EndCall, TypeInv, TypeOK
<1>8. ASSUME NEW t \in Task, NEW s, Advance(t, s)
      PROVE  calls'[t].answer = calls[t].answer /\ calls'[t].observation =
             calls[t].observation /\ calls'[t].decision = calls[t].decision
  BY <1>8 DEF Advance, TypeInv, TypeOK, Call
<1>9. ASSUME NEW t \in Task, LookUp(t)
      PROVE  AnswerSound(calls[t])'
  <2>1. decisions' = decisions
    BY <1>9 DEF LookUp, ledger
  <2>2. CASE /\ calls[t].observation.observation_id \in Recorded
             /\ AnswerFromRecord(t)
    BY <2>1, <2>2, AgreeFromRecord
  <2>3. CASE Advance(t, "verify")
    BY <2>1, <2>3, <1>8 DEF AnswersInv, AnswerSound, Recorded
  <2> QED
    BY <1>9, <2>2, <2>3 DEF LookUp
<1>10. ASSUME NEW t \in Task, Verify(t)
       PROVE  AnswerSound(calls[t])'
  <2>1. decisions' = decisions
    BY <1>10 DEF Verify, ledger
  <2>2. CASE Advance(t, "second_lock")
    BY <2>1, <2>2, <1>8 DEF AnswersInv, AnswerSound, Recorded
  <2>3. ASSUME NEW e \in AdmissionError, Respond(t, e, None)
        PROVE  AnswerSound(calls[t])'
    BY <2>3 DEF Respond, EndCall, AnswerSound, AdmissionError, TypeInv, TypeOK
  <2> QED
    BY <1>10, <2>2, <2>3 DEF Verify, AdmissionError
<1>11. ASSUME NEW t \in Task, Commit(t)
       PROVE  AnswerSound(calls[t])'
  <2> DEFINE e == Refusal(calls[t].principal, calls[t].observation, calls[t].now)
  <2>1. Submitting(calls[t]) /\ UNCHANGED <<now, granted>>
    BY <1>11 DEF Commit, Submitting
  <2>2. CASE /\ RecordedMeanwhile(t) /\ AnswerFromRecord(t)
             /\ UNCHANGED <<ledger, admittedBy>>
    BY <2>2, AgreeFromRecord DEF RecordedMeanwhile, ledger
  <2>3. CASE e # "none" /\ Refuse(t, e)
    <3>1. e # "Decided"
      BY <2>3, RefusalType DEF AdmissionError
    <3> QED
      BY <2>3, <3>1 DEF Refuse, Respond, EndCall, AnswerSound, TypeInv, TypeOK
  <2>4. CASE e = "none" /\
             Record(t, calls[t].principal, calls[t].observation, calls[t].now)
    BY <2>1, <2>4, AgreeRecord
  <2> QED
    BY <1>11, <2>2, <2>3, <2>4 DEF Commit
<1>12. ASSUME NEW t \in Task, Begin(t) \/ Step(t) \/ Abandon(t)
       PROVE  AnswerSound(calls[t])'
  BY <1>12, <1>5, <1>6, <1>7, <1>9, <1>10, <1>11 DEF Step
<1> QED
  BY <1>2, <1>3, <1>4, <1>12 DEF Next, Tick, vars

\* All answers to one observation carry the one decision on record for it, and
\* go on doing so: concurrent and later duplicates of a submission converge.
THEOREM DuplicatesConverge == Spec => []AnswersAgreeWithRecord
<1>1. Init => AnswersInv
  BY DEF Init, AnswersInv, AnswerSound, IdleCall
<1>2. TypeInv /\ AnswersInv /\ [Next]_vars => AnswersInv'
  BY AgreeStep
<1>3. AnswersInv => AnswersAgreeWithRecord
  BY DEF AnswersInv, AnswerSound, AnswersAgreeWithRecord
<1> QED
  BY <1>1, <1>2, <1>3, TypeInit, TypeStep, PTL DEF Spec
=============================================================================
