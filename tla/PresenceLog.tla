----------------------------- MODULE PresenceLog -----------------------------
(***************************************************************************)
(* What the doorway admission engine promises: a log of admissions to      *)
(* which a submission adds one entry, or from which it is answered, in a   *)
(* single atomic step.                                                     *)
(*                                                                         *)
(* Nothing is kept besides the log and the pending grants.  Whether a      *)
(* challenge, a piece of evidence or an observation identifier has been    *)
(* spent, and where a principal's presence sequence stands, is read off    *)
(* the log, so an implementation that keeps these in tables of their own   *)
(* must keep them in step with its record of decisions.                    *)
(***************************************************************************)
EXTENDS Naturals

CONSTANTS
    Task, Principal, House, Nonce, Observation, AdmissionError,
    PresenceDecision,  \* the decisions an entry may hold
    NonceGrant, None

VARIABLES
    pending,  \* grants by nonce, or None
    log,      \* set of entries [principal, observation, decision]
    reply     \* each task's question and answer: [observation, answer, decision]

logVars == <<pending, log, reply>>

\* The current presence sequence of p in h is s.
SequenceIs(p, h, s) ==
    LET own == {x \in log : x.principal = p /\ x.observation.house_id = h}
    IN  /\ \A x \in own : x.decision.presence_sequence <= s
        /\ s = 0 \/ \E x \in own : x.decision.presence_sequence = s

\* No entry has used up anything o needs.
Unspent(o) ==
    \A x \in log :
        /\ x.observation.observation_id # o.observation_id
        /\ x.observation.submission_nonce # o.submission_nonce
        /\ x.observation.challenge_id # o.challenge_id
        /\ x.observation.evidence_id # o.evidence_id

NoReply == [observation |-> None, answer |-> "none", decision |-> None]

Waiting(t) == reply[t].answer = "none"

Reply(t, a, d) ==
    reply' = [reply EXCEPT ![t].answer = a, ![t].decision = d]

LogInit ==
    /\ pending = [n \in Nonce |-> None]
    /\ log = {}
    /\ reply = [t \in Task |-> NoReply]

\* A task starts a call, for a nonce (o is None) or with observation o, and
\* waits for its answer or is refused at once.
Ask(t, o) ==
    /\ UNCHANGED <<pending, log>>
    /\ LET a == reply'[t].answer
       IN  /\ a \in AdmissionError \cup {"none"}
           /\ reply' = [reply EXCEPT ![t] =
                 [observation |-> o, answer |-> a, decision |-> None]]

\* Grants may lapse; table is what is left of them.
Lapsed(table) ==
    /\ DOMAIN table = Nonce
    /\ \A n \in Nonce : table[n] \in {pending[n], None}

\* A nonce that no admission ever used is granted to a principal for a house.
Grant(t) ==
    /\ Waiting(t)
    /\ reply[t].observation = None
    /\ \E n \in Nonce, g \in NonceGrant :
          /\ \A x \in log : x.observation.submission_nonce # n
          /\ pending[n] = None
          /\ pending'[n] = g
          /\ Lapsed([pending' EXCEPT ![n] = None])
    /\ Reply(t, "Granted", None)
    /\ UNCHANGED log

\* There is no room for another grant.
Decline(t) ==
    /\ Waiting(t)
    /\ reply[t].observation = None
    /\ Lapsed(pending')
    /\ Reply(t, "RateLimited", None)
    /\ UNCHANGED log

\* The observation of t is admitted for principal p.
Admit(t, p) ==
    LET o == reply[t].observation
        grant == pending[o.submission_nonce]
    IN  /\ Waiting(t)
        /\ o # None
        /\ Unspent(o)
        /\ grant # None
        /\ grant.principal = p
        /\ grant.house_id = o.house_id
        /\ SequenceIs(p, o.house_id, o.previous_presence_sequence)
        /\ \E d \in PresenceDecision :
              /\ d.decision =
                    IF o.ambiguous THEN "ConfirmationRequired" ELSE "Accepted"
              /\ d.observation_id = o.observation_id
              /\ d.house_id = o.house_id
              /\ d.presence_sequence = o.previous_presence_sequence + 1
              /\ d.recorded_at < grant.expires_at
              /\ log' = log \cup
                    {[principal |-> p, observation |-> o, decision |-> d]}
              /\ Reply(t, "Decided", d)
        /\ pending' = [pending EXCEPT ![o.submission_nonce] = None]

\* The observation of t was admitted before: t is told that decision.
Repeat(t) ==
    /\ Waiting(t)
    /\ \E x \in log :
          /\ x.observation = reply[t].observation
          /\ Reply(t, "Decided", x.decision)
    /\ UNCHANGED <<pending, log>>

\* The caller of t gives up waiting.
Withdraw(t) ==
    /\ Waiting(t)
    /\ reply' = [reply EXCEPT ![t] = NoReply]
    /\ UNCHANGED <<pending, log>>

\* The observation of t is refused, which changes nothing else.
Refuse(t) ==
    /\ Waiting(t)
    /\ reply[t].observation # None
    /\ \E e \in AdmissionError : Reply(t, e, None)
    /\ UNCHANGED <<pending, log>>

LogNext ==
    \E t \in Task :
        \/ \E o \in Observation \cup {None} : Ask(t, o)
        \/ Grant(t)
        \/ Decline(t)
        \/ \E p \in Principal : Admit(t, p)
        \/ Repeat(t)
        \/ Refuse(t)
        \/ Withdraw(t)

LogSpec == LogInit /\ [][LogNext]_logVars
=============================================================================
