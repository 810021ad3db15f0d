-------------------------- MODULE QrIssuanceProofs --------------------------
(***************************************************************************)
(* Start-up and the issuance of door codes, for every environment the      *)
(* process may be started in, any number of concurrent requests and any    *)
(* answers of the guard.                                                   *)
(***************************************************************************)
EXTENDS QrIssuance, TLAPS

(***************************************************************************)
(* The inductive invariant.                                                *)
(***************************************************************************)
\* What start-up leaves behind: a process serves only with a configuration
\* that passed every check, and its allowlists are the operator's.
ConfigInv ==
    /\ env \in Environment
    /\ now \in Nat
    /\ phase = "serving" =>
          /\ ~ AuthError
          /\ ~ VisitorConfigError
          /\ ~ Unguarded
          /\ auth = IF env.auth_vars = {} THEN None ELSE env.issuers
          /\ visitors = IF env.visitor_vars = {} THEN None ELSE env.doors
    /\ phase # "serving" => auth = None /\ visitors = None

\* A request waits for the guard only where there is one, and an issued code
\* is the one its door shows at the instant it was handed out.
RequestSound(r) ==
    /\ r.pc = "authorizing" => auth # None
    /\ r.answer = "Issued" =>
          /\ auth # None
          /\ r.identity \in env.issuers \ Malformed
          /\ r.at \in Nat
          /\ r.code.door_id \in env.doors \ BadDoor
          /\ r.code.issued_minute = MinuteOf(r.at)
          /\ r.expires_at = ExpiresAt(r.at)

RequestsInv ==
    /\ requests = [t \in Task |-> requests[t]]
    /\ \A t \in Task : RequestSound(requests[t])

IssuanceInv == ConfigInv /\ RequestsInv

(***************************************************************************)
(* Start-up.                                                               *)
(***************************************************************************)
\* The configuration a process is left with when main has checked it.
LEMMA ConfigMain ==
    ASSUME ConfigInv, main
    PROVE  ConfigInv'
BY DEF ConfigInv, main, AuthError, VisitorConfigError, Unguarded, ValuesInvalid,
       parse_identity_allowlist_fails, parse_door_ids_fails

\* Nothing after start-up touches the configuration.
LEMMA ConfigKept ==
    ASSUME ConfigInv, UNCHANGED <<env, phase, auth, visitors>>, now' \in Nat
    PROVE  ConfigInv'
BY DEF ConfigInv, AuthError, VisitorConfigError, Unguarded, ValuesInvalid,
       parse_identity_allowlist_fails, parse_door_ids_fails

\* The allowlists in force are the ones the operator gave.
LEMMA Allowlists ==
    ASSUME ConfigInv
    PROVE  /\ auth # None => auth = env.issuers /\ phase = "serving"
           /\ visitors # None => visitors = env.doors /\ phase = "serving"
BY DEF ConfigInv

(***************************************************************************)
(* Requests.                                                               *)
(***************************************************************************)
\* A request is replaced by a sound one; the configuration is as it was.
LEMMA ReplaceRequest ==
    ASSUME RequestsInv, NEW t \in Task, NEW r, RequestSound(r),
           requests' = [requests EXCEPT ![t] = r],
           UNCHANGED <<env, auth>>
    PROVE  RequestsInv'
<1>1. requests' = [u \in Task |-> requests'[u]]
  BY DEF RequestsInv
<1>2. requests'[t] = r /\ \A u \in Task \ {t} : requests'[u] = requests[u]
  BY DEF RequestsInv
<1>3. ASSUME NEW u \in Task PROVE RequestSound(requests[u])'
  BY <1>2 DEF RequestsInv, RequestSound
<1> QED
  BY <1>1, <1>3 DEF RequestsInv

\* A request that ends without a code is sound.
LEMMA OverSound ==
    ASSUME NEW stage, stage # "authorizing", NEW answer, answer # "Issued"
    PROVE  RequestSound(Over(stage, answer))
BY DEF RequestSound, Over

\* What a refusal answers is never "Issued".
LEMMA RefusalsAreErrors ==
    /\ visitor_error("InvalidAction") # "Issued"
    /\ visitor_error("InvalidDoor") # "Issued"
BY DEF visitor_error

\* A code is handed to a listed identity for a listed door, by the clock.
LEMMA IssueSound ==
    ASSUME ConfigInv, RequestsInv, NEW t \in Task, NEW i,
           requests[t].pc = "authorizing", authorize_qr_issuer(i) = "Authorized",
           visitors # None, requests[t].door_id \in visitors
    PROVE  RequestSound(Issuing(i, requests[t].door_id, requests[t].action, now))
<1>1. auth # None
  BY DEF RequestsInv, RequestSound
<1>2. i \in env.issuers \ Malformed /\ requests[t].door_id \in env.doors \ BadDoor
  BY <1>1, Allowlists DEF authorize_qr_issuer, ConfigInv, VisitorConfigError,
     parse_door_ids_fails
<1>3. now \in Nat
  BY DEF ConfigInv
<1> QED
  BY <1>1, <1>2, <1>3 DEF RequestSound, Issuing, Issue

\* IssuanceInv is inductive.
LEMMA IssuanceStep == IssuanceInv /\ [Next]_vars => IssuanceInv'
<1> SUFFICES ASSUME ConfigInv, RequestsInv, [Next]_vars
             PROVE  ConfigInv' /\ RequestsInv'
  BY DEF IssuanceInv
<1>1. CASE UNCHANGED vars
  BY <1>1, ConfigKept DEF vars, ConfigInv, RequestsInv, RequestSound
<1>2. CASE main
  <2>1. ASSUME NEW t \in Task
        PROVE  requests[t].pc # "authorizing" /\ requests[t].answer # "Issued"
    BY <1>2 DEF main, ConfigInv, RequestsInv, RequestSound
  <2>2. RequestsInv'
    BY <1>2, <2>1 DEF main, RequestsInv, RequestSound
  <2> QED
    BY <1>2, <2>2, ConfigMain
<1>3. CASE Tick
  <2>1. now' \in Nat
    BY <1>3 DEF Tick, ConfigInv
  <2> QED
    BY <1>3, <2>1, ConfigKept DEF Tick, RequestsInv, RequestSound
<1>4. ASSUME NEW t \in Task, NEW action, NEW door, issue_visitor_qr(t, action, door)
      PROVE  ConfigInv' /\ RequestsInv'
  <2>1. UNCHANGED <<now, env, phase, auth, visitors>>
    BY <1>4 DEF issue_visitor_qr
  <2>2. CASE auth # None /\ requests' = [requests EXCEPT ![t] = Authorizing(action, door)]
    <3>1. RequestSound(Authorizing(action, door))
      BY <2>2 DEF RequestSound, Authorizing
    <3> QED
      BY <2>1, <2>2, <3>1, ConfigKept, ReplaceRequest DEF ConfigInv
  <2>3. ASSUME NEW answer, answer # "Issued", Refuse(t, answer)
        PROVE  ConfigInv' /\ RequestsInv'
    BY <2>1, <2>3, ConfigKept, ReplaceRequest, OverSound DEF Refuse, ConfigInv
  <2> QED
    BY <1>4, <2>2, <2>3, RefusalsAreErrors DEF issue_visitor_qr
<1>5. ASSUME NEW t \in Task, NEW i, Verified(t, i)
      PROVE  ConfigInv' /\ RequestsInv'
  <2>1. UNCHANGED <<now, env, phase, auth, visitors>>
    BY <1>5 DEF Verified
  <2>2. ASSUME NEW answer, answer # "Issued", Refuse(t, answer)
        PROVE  ConfigInv' /\ RequestsInv'
    BY <2>1, <2>2, ConfigKept, ReplaceRequest, OverSound DEF Refuse, ConfigInv
  <2>3. CASE /\ authorize_qr_issuer(i) = "Authorized"
             /\ visitors # None
             /\ requests[t].door_id \in visitors
             /\ IssueCode(t, i)
    <3>1. PICK r : r = Issuing(i, requests[t].door_id, requests[t].action, now)
      OBVIOUS
    <3>2. RequestSound(r)
      BY <1>5, <2>3, <3>1, IssueSound DEF Verified
    <3>3. requests' = [requests EXCEPT ![t] = r]
      BY <2>3, <3>1 DEF IssueCode
    <3> QED
      BY <2>1, <3>2, <3>3, ConfigKept, ReplaceRequest DEF ConfigInv
  <2> QED
    BY <1>5, <2>2, <2>3, RefusalsAreErrors DEF Verified
<1>6. ASSUME NEW t \in Task, Unverified(t) \/ Abandon(t)
      PROVE  ConfigInv' /\ RequestsInv'
  <2>1. UNCHANGED <<now, env, phase, auth, visitors>>
    BY <1>6 DEF Unverified, Abandon
  <2>2. \E stage \in {"idle", "done"}, answer \in {"none", "unauthorized",
                                                   "authentication_unavailable"} :
           requests' = [requests EXCEPT ![t] = Over(stage, answer)]
    BY <1>6 DEF Unverified, Abandon, Refuse, Idle
  <2>3. PICK r : RequestSound(r) /\ requests' = [requests EXCEPT ![t] = r]
    BY <2>2, OverSound
  <2>4. RequestsInv'
    BY <2>1, <2>3, ReplaceRequest
  <2> QED
    BY <2>1, <2>4, ConfigKept DEF ConfigInv
<1> QED
  BY <1>1, <1>2, <1>3, <1>4, <1>5, <1>6 DEF Next, Arrive

\* The state a process starts in.
LEMMA IssuanceInit == Init => IssuanceInv
BY DEF Init, IssuanceInv, ConfigInv, RequestsInv, RequestSound, Idle, Over

(***************************************************************************)
(* The theorems.                                                           *)
(***************************************************************************)
\* A process that serves visitor codes has dual authentication, and no group
\* of variables is configured in part, whatever the environment held.
THEOREM ConfigurationComplete == Spec => []ConfigurationIsComplete
<1>1. ASSUME IssuanceInv PROVE ConfigurationIsComplete
  <2> SUFFICES ASSUME phase = "serving"
               PROVE  /\ visitors # None => auth # None
                      /\ auth # None <=> env.auth_vars = AuthVar
                      /\ auth # None <=> SupabaseUrl \in env.auth_vars
                      /\ visitors # None <=> env.visitor_vars = VisitorVar
    BY DEF ConfigurationIsComplete
  <2>1. /\ env \in Environment
        /\ ~ AuthError /\ ~ VisitorConfigError /\ ~ Unguarded
        /\ auth = IF env.auth_vars = {} THEN None ELSE env.issuers
        /\ visitors = IF env.visitor_vars = {} THEN None ELSE env.doors
    BY <1>1 DEF IssuanceInv, ConfigInv
  <2>2. env.issuers # None /\ env.doors # None
    BY <2>1, IssuanceAssumption DEF Environment
  <2>3. env.auth_vars = {} \/ env.auth_vars = AuthVar
    BY <2>1 DEF AuthError
  <2>4. env.visitor_vars = {} \/ env.visitor_vars = VisitorVar
    BY <2>1 DEF VisitorConfigError
  <2>5. env.visitor_vars # {} => env.auth_vars # {}
    BY <2>1 DEF Unguarded
  <2> QED
    BY <2>1, <2>2, <2>3, <2>4, <2>5, IssuanceAssumption
<1> QED
  BY <1>1, IssuanceInit, IssuanceStep, PTL DEF Spec

\* Codes go only to identities and for doors that the operator listed,
\* whatever the guard answers and in whatever order.
THEOREM OnlyListedIssue == Spec => []IssuedToListed
<1>1. IssuanceInv => IssuedToListed
  BY DEF IssuanceInv, RequestsInv, RequestSound, IssuedToListed, Answered
<1> QED
  BY <1>1, IssuanceInit, IssuanceStep, PTL DEF Spec

\* The window of the code a door shows at an instant: it contains the next
\* Grace + 1 seconds and ends exactly at the expiry that issue reports.
LEMMA WindowOfIssued ==
    ASSUME NEW at \in Nat, NEW c, c.issued_minute = MinuteOf(at)
    PROVE  /\ \A s \in at .. at + Grace + 1 : InWindow(c, s)
           /\ InWindow(c, ExpiresAt(at))
           /\ ~ InWindow(c, ExpiresAt(at) + 1)
<1>1. Minute \in Nat \ {0} /\ Grace \in Nat
  BY IssuanceAssumption
<1>2. PICK m \in Nat : m = MinuteOf(at)
  BY <1>1 DEF MinuteOf
<1>3. m * Minute <= at /\ at < m * Minute + Minute
  BY <1>1, <1>2 DEF MinuteOf
<1>4. PICK start \in Nat : start = m * Minute
  BY <1>1, <1>2
<1>5. ExpiresAt(at) = start + Minute + Grace
  BY <1>1, <1>2, <1>4 DEF ExpiresAt
<1>6. \A s : InWindow(c, s) <=> start <= s /\ s <= start + Minute + Grace
  BY <1>2, <1>4 DEF InWindow
<1> QED
  BY <1>1, <1>3, <1>4, <1>5, <1>6

\* However long the guard took, an issued code is good when it is handed out
\* and for the grace period after it, and dies right after its shown expiry.
THEOREM IssuedFresh == Spec => []IssuedIsFresh
<1>1. IssuanceInv => IssuedIsFresh
  BY WindowOfIssued
     DEF IssuanceInv, RequestsInv, RequestSound, IssuedIsFresh, Answered
<1> QED
  BY <1>1, IssuanceInit, IssuanceStep, PTL DEF Spec
=============================================================================
