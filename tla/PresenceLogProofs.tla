-------------------------- MODULE PresenceLogProofs --------------------------
(***************************************************************************)
(* The doorway admission engine implements PresenceLog: each of its steps  *)
(* is, in the view given by the instance Log of PresenceAdmission, one     *)
(* atomic step of the log of admissions or no step at all.                 *)
(***************************************************************************)
EXTENDS PresenceCallerProofs

\* What a caller sees of a call, and the entry the log holds for an
\* observation identifier: the two substitutions of the instance Log.
View(c) == [observation |-> c.observation, answer |-> c.answer, decision |-> c.decision]
Views == [t \in Task |-> View(calls[t])]
Entry(i) == [principal |-> admittedBy[i], observation |-> Request(i),
             decision |-> decisions[i].decision]
Entries == {Entry(i) : i \in Recorded}

\* The view is well typed.
LEMMA ViewsType ==
    ASSUME TypeInv
    PROVE  Views \in [Task -> [observation : Observation \cup {None},
                               answer : Answer,
                               decision : PresenceDecision \cup {None}]]
BY DEF Views, View, TypeInv, TypeOK, Call

\* The view of the calls after one of them was replaced.
LEMMA ViewsReplaced ==
    ASSUME TypeInv, NEW t \in Task, NEW r, View(calls[t])' = r,
           \A u \in Task \ {t} : calls'[u] = calls[u]
    PROVE  Views' = [Views EXCEPT ![t] = r]
BY DEF Views, View

\* A response is the log's reply.
LEMMA RespondIsReply ==
    ASSUME TypeInv, NEW t \in Task, NEW a, NEW d, Respond(t, a, d)
    PROVE  Log!Reply(t, a, d)
<1>1. PICK o : o = calls[t].observation
  OBVIOUS
<1>2. View(calls[t])' = [observation |-> o, answer |-> a, decision |-> d]
  BY <1>1, RespondEffect DEF View
<1>3. Views' = [Views EXCEPT ![t] = [observation |-> o, answer |-> a, decision |-> d]]
  BY <1>2, RespondEffect, ViewsReplaced
<1>4. Views[t].observation = o
  BY <1>1 DEF Views, View
<1>5. [Views EXCEPT ![t] = [observation |-> o, answer |-> a, decision |-> d]]
        = [Views EXCEPT ![t].answer = a, ![t].decision = d]
  BY <1>4, ViewsType
<1> QED
  BY <1>3, <1>5 DEF Log!Reply, Views, View

\* A step that leaves ledger and record alone leaves the log alone.
LEMMA LogUnchanged ==
    ASSUME UNCHANGED <<decisions, admittedBy>>
    PROVE  Entries' = Entries
BY DEF Entries, Entry, Recorded, Request

\* A call in progress waits for its reply, in the view of the log.
LEMMA InProgress ==
    ASSUME Unanswered, NEW t \in Task, calls[t].pc # "done"
    PROVE  Log!Waiting(t) /\ Views[t].observation = calls[t].observation
BY DEF Unanswered, UnansweredCall, Log!Waiting, Views, View

\* The view of the initial state.
LEMMA LogStarts == Init => Log!LogInit
BY DEF Init, Log!LogInit, Log!NoReply, IdleCall, Recorded

(***************************************************************************)
(* The steps.                                                              *)
(***************************************************************************)
\* A call begins, or is refused at once: the log's Ask.
LEMMA BeginAsks ==
    ASSUME TypeInv, NEW t \in Task, Begin(t)
    PROVE  \E o \in Observation \cup {None} : Log!Ask(t, o)
<1>1. UNCHANGED <<nonces, decisions, admittedBy>>
  BY DEF Begin, IssueNonce, Submit, ledger
<1>2. \E o \in Observation \cup {None}, a \in AdmissionError \cup {"none"} :
         View(calls[t])' = [observation |-> o, answer |-> a, decision |-> None]
  <2>1. ASSUME NEW p \in Principal, NEW h \in House, IssueNonce(t, p, h)
        PROVE  \E a \in AdmissionError \cup {"none"} :
                  View(calls[t])' = [observation |-> None, answer |-> a, decision |-> None]
    BY <2>1 DEF IssueNonce, BeginCall, EndCall, View, AdmissionError, TypeInv, TypeOK
  <2>2. ASSUME NEW p \in Principal, NEW o \in Observation, Submit(t, p, o)
        PROVE  \E a \in AdmissionError \cup {"none"} :
                  View(calls[t])' = [observation |-> o, answer |-> a, decision |-> None]
    BY <2>2 DEF Submit, BeginCall, EndCall, View, AdmissionError, TypeInv, TypeOK
  <2> QED
    BY <2>1, <2>2 DEF Begin
<1>3. PICK o \in Observation \cup {None}, a \in AdmissionError \cup {"none"} :
         View(calls[t])' = [observation |-> o, answer |-> a, decision |-> None]
  BY <1>2
<1>4. Views' = [Views EXCEPT ![t] =
                  [observation |-> o, answer |-> a, decision |-> None]]
  BY <1>3, OneCallMoves, ViewsReplaced
<1>5. Views'[t].answer = a
  BY <1>3 DEF Views
<1>6. Log!Ask(t, o)
  BY <1>1, <1>4, <1>5, LogUnchanged DEF Log!Ask, Views, View, Entries, Entry
<1> QED
  BY <1>6

\* A dropped call: the log's Withdraw.
LEMMA AbandonWithdraws ==
    ASSUME TypeInv, Unanswered, NEW t \in Task, Abandon(t)
    PROVE  Log!Withdraw(t)
<1>1. UNCHANGED <<nonces, decisions, admittedBy>> /\ calls[t].pc # "done"
  BY DEF Abandon, ledger
<1>2. View(calls[t])' = Log!NoReply
  BY DEF Abandon, IdleCall, View, Log!NoReply, TypeInv, TypeOK
<1>3. Views' = [Views EXCEPT ![t] = Log!NoReply]
  BY <1>2, OneCallMoves, ViewsReplaced
<1> QED
  BY <1>1, <1>3, LogUnchanged, InProgress
     DEF Log!Withdraw, Views, View, Entries, Entry

\* A refusal of a submission: the log's Refuse.
LEMMA RespondRefuses ==
    ASSUME TypeInv, Unanswered, NEW t \in Task, Submitting(calls[t]),
           NEW e \in AdmissionError, Respond(t, e, None),
           UNCHANGED <<nonces, decisions, admittedBy>>
    PROVE  Log!Refuse(t)
<1>1. calls[t].pc # "done"
  BY DEF Submitting
<1>2. Views[t].observation # None
  BY <1>1, InProgress, SubmittingType, NoneAssumption
<1> QED
  BY <1>1, <1>2, LogUnchanged, InProgress, RespondIsReply
     DEF Log!Refuse, Views, View, Entries, Entry

\* A hit of either lookup: the log's Repeat, or a refusal when the identifier
\* is recorded for another observation.
LEMMA HitRepeats ==
    ASSUME TypeInv, LedgerInv, Unanswered, NEW t \in Task, Submitting(calls[t]),
           calls[t].observation.observation_id \in Recorded, AnswerFromRecord(t),
           UNCHANGED <<nonces, decisions, admittedBy>>
    PROVE  Log!Repeat(t) \/ Log!Refuse(t)
<1>1. PICK o \in Observation : o = calls[t].observation
  BY SubmittingType
<1>2. PICK i \in Recorded : i = o.observation_id
  BY <1>1
<1>3. calls[t].pc # "done"
  BY DEF Submitting
<1>4. CASE Request(i) = o /\ Respond(t, "Decided", decisions[i].decision)
  <2>1. PICK x \in Entries : x.observation = o /\ x.decision = decisions[i].decision
    <3>1. Entry(i) \in Entries
      BY <1>2 DEF Entries
    <3>2. Entry(i).observation = o /\ Entry(i).decision = decisions[i].decision
      BY <1>4 DEF Entry
    <3> QED
      BY <3>1, <3>2
  <2>2. Log!Reply(t, "Decided", x.decision)
    BY <1>4, <2>1, RespondIsReply
  <2>3. Views[t].observation = o /\ Log!Waiting(t)
    BY <1>1, <1>3, InProgress
  <2>4. UNCHANGED <<nonces, Entries>>
    BY LogUnchanged
  <2> QED
    BY <2>1, <2>2, <2>3, <2>4 DEF Log!Repeat, Views, View, Entries, Entry
<1>5. CASE Respond(t, "Replayed", None)
  BY <1>5, RespondRefuses DEF AdmissionError
<1> QED
  BY <1>1, <1>2, <1>4, <1>5, LookupAnswers

\* A call that only advances changes nothing the log shows.
LEMMA AdvanceStutters ==
    ASSUME TypeInv, NEW t \in Task, NEW s, Advance(t, s)
    PROVE  Views' = Views
<1>1. View(calls[t])' = Views[t]
  BY AdvanceKeeps DEF View, Views
<1>2. \A u \in Task \ {t} : calls'[u] = calls[u]
  BY AdvanceKeeps
<1> QED
  BY <1>1, <1>2 DEF Views, View

\* The first lookup.
LEMMA LookUpMaps ==
    ASSUME TypeInv, LedgerInv, Unanswered, NEW t \in Task, LookUp(t)
    PROVE  Log!Repeat(t) \/ Log!Refuse(t) \/ UNCHANGED Log!logVars
<1>1. Submitting(calls[t]) /\ UNCHANGED <<nonces, decisions, admittedBy>>
  BY DEF LookUp, Submitting, ledger
<1>2. CASE /\ calls[t].observation.observation_id \in Recorded
           /\ AnswerFromRecord(t)
  BY <1>1, <1>2, HitRepeats
<1>3. CASE Advance(t, "verify")
  <2>1. UNCHANGED <<nonces, Entries, Views>>
    BY <1>1, <1>3, AdvanceStutters, LogUnchanged
  <2> QED
    BY <2>1 DEF Log!logVars, Views, View, Entries, Entry
<1> QED
  BY <1>2, <1>3 DEF LookUp

\* The authorizer and the verifier.
LEMMA VerifyMaps ==
    ASSUME TypeInv, Unanswered, NEW t \in Task, Verify(t)
    PROVE  Log!Refuse(t) \/ UNCHANGED Log!logVars
<1>1. Submitting(calls[t]) /\ UNCHANGED <<nonces, decisions, admittedBy>>
  BY DEF Verify, Submitting, ledger
<1>2. CASE Advance(t, "second_lock")
  <2>1. UNCHANGED <<nonces, Entries, Views>>
    BY <1>1, <1>2, AdvanceStutters, LogUnchanged
  <2> QED
    BY <2>1 DEF Log!logVars, Views, View, Entries, Entry
<1>3. ASSUME NEW e \in AdmissionError, Respond(t, e, None)
      PROVE  Log!Refuse(t)
  BY <1>1, <1>3, RespondRefuses
<1> QED
  BY <1>2, <1>3 DEF Verify, AdmissionError

\* The locked stretch of issue_nonce: the log's Grant or Decline.
LEMMA GrantMaps ==
    ASSUME TypeInv, LedgerInv, Unanswered, NEW t \in Task, GrantNonce(t)
    PROVE  Log!Grant(t) \/ Log!Decline(t)
<1> DEFINE c == calls[t]
           live == LiveNonces(c.now)
           grant == [principal |-> c.principal, house_id |-> c.house_id,
                     issued_at |-> c.now, expires_at |-> c.now + NonceTtl]
<1>1. c.pc = "nonce_lock" /\ UNCHANGED <<decisions, admittedBy>>
  BY DEF GrantNonce
<1>2. UNCHANGED Entries
  BY <1>1, LogUnchanged
<1>3. Log!Waiting(t) /\ Views[t].observation = None
  BY <1>1, InProgress DEF Unanswered, UnansweredCall
<1>4. live \in [Nonce -> NonceGrant \cup {None}]
  BY DEF LiveNonces, TypeInv, TypeOK
<1>5. \A n \in Nonce : live[n] \in {nonces[n], None}
  BY DEF LiveNonces
<1>6. grant \in NonceGrant
  <2>1. c \in Call /\ Coherent(c)
    BY DEF TypeInv, TypeOK, CallsCoherent
  <2>2. c.principal \in Principal /\ c.house_id \in House /\ c.now \in 0..now
    BY <1>1, <2>1, BoundsAssumption DEF Call, Coherent, Time, TypeInv, TypeOK
  <2> QED
    BY <2>2, BoundsAssumption DEF NonceGrant, Time, TypeInv, TypeOK
<1> HIDE DEF live, grant
<1>7. CASE nonces' = live /\ Respond(t, "RateLimited", None)
  <2>1. Log!Lapsed(nonces')
    BY <1>4, <1>5, <1>7 DEF Log!Lapsed
  <2>2. Log!Reply(t, "RateLimited", None)
    BY <1>7, RespondIsReply
  <2> QED
    BY <1>2, <1>3, <2>1, <2>2 DEF Log!Decline, Views, View, Entries, Entry
<1>8. ASSUME NEW n \in FreshNonce, nonces' = [live EXCEPT ![n] = grant],
             Respond(t, "Granted", None)
      PROVE  Log!Grant(t)
  <2>1. n \in Nonce /\ granted[n] = None
    BY <1>8 DEF FreshNonce
  <2>2. nonces[n] = None
    BY <2>1 DEF LedgerInv, LedgerCoherent
  <2>3. \A x \in Entries : x.observation.submission_nonce # n
    BY <2>1 DEF Entries, Entry, LedgerInv, LedgerCoherent
  <2>4. nonces'[n] = grant
    BY <1>4, <1>8, <2>1
  <2>5. Log!Lapsed([nonces' EXCEPT ![n] = None])
    BY <1>4, <1>5, <1>8, <2>1 DEF Log!Lapsed
  <2>6. Log!Reply(t, "Granted", None)
    BY <1>8, RespondIsReply
  <2>7. \E m \in Nonce, g \in NonceGrant :
           /\ \A x \in Entries : x.observation.submission_nonce # m
           /\ nonces[m] = None
           /\ nonces'[m] = g
           /\ Log!Lapsed([nonces' EXCEPT ![m] = None])
    BY <1>6, <2>1, <2>2, <2>3, <2>4, <2>5
  <2> QED
    BY <1>2, <1>3, <2>6, <2>7 DEF Log!Grant, Views, View, Entries, Entry
<1> QED
  BY <1>7, <1>8 DEF GrantNonce, live, grant

\* The table of sequences holds what the log says.
LEMMA SequenceFromLog ==
    ASSUME TypeInv, LedgerInv, NEW p \in Principal, NEW h \in House
    PROVE  Log!SequenceIs(p, h, sequences[<<p, h>>])
<1> DEFINE s == sequences[<<p, h>>]
           own == {x \in Entries : x.principal = p /\ x.observation.house_id = h}
<1>1. {decisions[i].decision.presence_sequence : i \in Of(p, h)} = 1..s
  BY DEF LedgerInv, GaplessSequences
<1>2. s \in Nat
  BY BoundsAssumption DEF TypeInv, TypeOK
<1>3. ASSUME NEW x \in own
      PROVE  \E i \in Of(p, h) :
                x.decision.presence_sequence = decisions[i].decision.presence_sequence
  BY DEF Entries, Entry, Of, LedgerInv, LedgerCoherent
<1>4. ASSUME NEW i \in Of(p, h)
      PROVE  /\ Entry(i) \in own
             /\ Entry(i).decision.presence_sequence
                  = decisions[i].decision.presence_sequence
  BY DEF Entries, Entry, Of, LedgerInv, LedgerCoherent
<1> HIDE DEF s, own
<1>5. \A x \in own : x.decision.presence_sequence <= s
  BY <1>1, <1>2, <1>3
<1>6. s = 0 \/ \E x \in own : x.decision.presence_sequence = s
  <2>1. CASE s # 0
    <3>1. s \in 1..s
      BY <1>2, <2>1
    <3>2. PICK i \in Of(p, h) : decisions[i].decision.presence_sequence = s
      BY <1>1, <3>1
    <3> QED
      BY <1>4, <3>2
  <2> QED
    BY <2>1
<1> QED
  BY <1>5, <1>6 DEF Log!SequenceIs, Entries, Entry, own, s

\* A new decision: the log's Admit.  The tables of spent nonces, challenges
\* and evidence and of sequences stand for the log's own checks.
LEMMA RecordAdmits ==
    ASSUME TypeInv, LedgerInv, Unanswered, NEW t \in Task, NEW p \in Principal,
           NEW o \in Observation, NEW at \in 0..MaxClock, Records(t, p, o, at)
    PROVE  Log!Admit(t, p)
<1> DEFINE grant == nonces[o.submission_nonce]
           s == sequences[<<p, o.house_id>>]
           k == o.observation_id
<1>1. PICK d : d = Decision(p, o, at)
  OBVIOUS
<1>2. /\ o = calls[t].observation
      /\ calls[t].pc # "done"
      /\ k \notin Recorded
      /\ Refusal(p, o, at) = "none"
      /\ Record(t, p, o, at)
  BY DEF Records
<1>3. o.submission_nonce \in Nonce /\ o.house_id \in House
  BY ObservationAssumption DEF DoorwayObservation
<1>4. /\ grant # None
      /\ ~ (grant.expires_at <= at)
      /\ grant.principal = p
      /\ grant.house_id = o.house_id
      /\ o.challenge_id \notin used_challenges
      /\ o.evidence_id \notin used_evidence
      /\ o.previous_presence_sequence = s
  BY <1>2 DEF Refusal, GrantExpired, SequenceConflict
<1>5. at < grant.expires_at
  BY <1>3, <1>4, BoundsAssumption DEF TypeInv, TypeOK, NonceGrant, Time
<1>6. /\ d \in PresenceDecision
      /\ d.decision = IF o.ambiguous THEN "ConfirmationRequired" ELSE "Accepted"
      /\ d.observation_id = o.observation_id
      /\ d.house_id = o.house_id
      /\ d.presence_sequence = o.previous_presence_sequence + 1
      /\ d.recorded_at < grant.expires_at
  BY <1>1, <1>2, <1>4, <1>5, DecisionType DEF Decision
<1>7. Log!Unspent(o)
  <2>1. ASSUME NEW x \in Entries
        PROVE  /\ x.observation.observation_id # o.observation_id
               /\ x.observation.submission_nonce # o.submission_nonce
               /\ x.observation.challenge_id # o.challenge_id
               /\ x.observation.evidence_id # o.evidence_id
    <3>1. PICK i \in Recorded : x = Entry(i)
      BY DEF Entries
    <3>2. x.observation = Request(i)
      BY <3>1 DEF Entry
    <3> QED
      BY <1>2, <1>4, <3>1, <3>2 DEF LedgerInv, LedgerCoherent
  <2> QED
    BY <2>1 DEF Log!Unspent, Entries, Entry
<1>8. Log!SequenceIs(p, o.house_id, o.previous_presence_sequence)
  BY <1>3, <1>4, SequenceFromLog
<1>9. nonces' = [nonces EXCEPT ![o.submission_nonce] = None]
  BY <1>2 DEF Record, Spend
<1>10. Entries' = Entries \cup {[principal |-> p, observation |-> o, decision |-> d]}
  <2>1. /\ Recorded' = Recorded \cup {k}
        /\ decisions'[k] = [request_digest |-> o, decision |-> d]
        /\ admittedBy'[k] = p
        /\ Request(k)' = o
        /\ \A i \in Recorded : /\ decisions'[i] = decisions[i]
                               /\ admittedBy'[i] = admittedBy[i]
                               /\ Request(i)' = Request(i)
    BY <1>1, RecordEffect
  <2>2. /\ Entry(k)' = [principal |-> p, observation |-> o, decision |-> d]
        /\ \A i \in Recorded : Entry(i)' = Entry(i)
    BY <2>1 DEF Entry
  <2> QED
    BY <2>1, <2>2 DEF Entries
<1>11. Log!Reply(t, "Decided", d)
  BY <1>1, <1>2, RespondIsReply DEF Record
<1>12. Log!Waiting(t) /\ Views[t].observation = o
  BY <1>2, InProgress
<1>13. o # None
  BY NoneAssumption
<1> HIDE DEF s, k
<1> QED
  BY <1>4, <1>6, <1>7, <1>8, <1>9, <1>10, <1>11, <1>12, <1>13
     DEF Log!Admit, Views, View, Entries, Entry

\* The second locked stretch.
LEMMA CommitMaps ==
    ASSUME TypeInv, LedgerInv, Unanswered, NEW t \in Task, Commit(t)
    PROVE  \/ Log!Repeat(t)
           \/ Log!Refuse(t)
           \/ \E p \in Principal : Log!Admit(t, p)
<1> DEFINE e == Refusal(calls[t].principal, calls[t].observation, calls[t].now)
<1>1. Submitting(calls[t]) /\ calls[t].pc = "second_lock" /\ UNCHANGED <<now, granted>>
  BY DEF Commit, Submitting
<1>2. CASE /\ RecordedMeanwhile(t)
           /\ AnswerFromRecord(t)
           /\ UNCHANGED <<ledger, admittedBy>>
  BY <1>1, <1>2, HitRepeats DEF RecordedMeanwhile, ledger
<1>3. CASE e # "none" /\ Refuse(t, e)
  <2>1. PICK x \in AdmissionError : x = e
    BY <1>3, RefusalType
  <2> QED
    BY <1>1, <1>3, <2>1, RespondRefuses DEF Refuse, ledger
<1>4. CASE /\ ~ RecordedMeanwhile(t)
           /\ e = "none"
           /\ Record(t, calls[t].principal, calls[t].observation, calls[t].now)
  <2>1. PICK p \in Principal, o \in Observation, at \in 0..MaxClock :
           p = calls[t].principal /\ o = calls[t].observation /\ at = calls[t].now
    BY <1>1, SubmittingType
  <2>2. Records(t, p, o, at)
    BY <1>1, <1>4, <2>1 DEF Records, RecordedMeanwhile
  <2> QED
    BY <2>2, RecordAdmits
<1> QED
  BY <1>2, <1>3, <1>4 DEF Commit

\* Every step of the engine is a step of the log, or none.
LEMMA StepMaps ==
    ASSUME TypeInv, LedgerInv, Unanswered, [Next]_vars
    PROVE  [Log!LogNext]_(Log!logVars)
<1>1. CASE Tick \/ UNCHANGED vars
  <2>1. UNCHANGED <<nonces, decisions, admittedBy, calls>>
    BY <1>1 DEF Tick, vars, ledger
  <2>2. UNCHANGED <<nonces, Entries, Views>>
    BY <2>1, LogUnchanged DEF Views, View
  <2> QED
    BY <2>2 DEF Log!logVars, Views, View, Entries, Entry
<1>2. ASSUME NEW t \in Task, Begin(t) \/ Step(t) \/ Abandon(t)
      PROVE  [Log!LogNext]_(Log!logVars)
  BY <1>2, BeginAsks, GrantMaps, LookUpMaps, VerifyMaps, CommitMaps,
     AbandonWithdraws DEF Step, Log!LogNext
<1> QED
  BY <1>1, <1>2 DEF Next

\* submit, with its two acquisitions of the mutex and the checks in between,
\* behaves as one atomic admission, repetition or refusal on a log of
\* decisions, for every number of callers and every interleaving.
THEOREM LogImplemented == Spec => ImplementsLog
<1>1. TypeInv /\ LedgerInv /\ Unanswered /\ [Next]_vars => [Log!LogNext]_(Log!logVars)
  BY StepMaps
<1> QED
  BY <1>1, LogStarts, CallerInvariant, PTL DEF Spec, ImplementsLog, Log!LogSpec
=============================================================================
