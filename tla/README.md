# hhm-api in TLA+

TLA+ models of the stateful parts of the Hacker House Medellín API server
(`src/`, a Rust/Axum service), their TLC configurations, and TLAPS proofs of all
their safety properties and refinements.

    tlc -workers 2 -config PresenceReplay.cfg MCPresenceAdmission
    tlapm PresenceAdmissionProofs.tla

`PROJECT.json` lists components, runs, the source lines behind every
definition, hazards, mutants and theorems.

## The system

All state is in memory and shared by request handlers that run as tokio tasks.
Nothing is persisted, so there is no crash recovery: a restart is `Init`, and
open visits are lost with the process, as `src/README.md:64` says.

| Component | State | Operations | What is hard |
|---|---|---|---|
| Doorway admission engine, `presence.rs` | `PresenceLedger` behind a tokio `Mutex`: pending nonces, used challenges, used evidence, sequences, decisions | `issue_nonce`, `submit` | `submit` locks twice and verifies in between; `now` is captured by the caller; other calls prune expired grants; retries and conflicting reuse race |
| Visitor access, `visitor.rs`, handlers in `main.rs` | `VisitorState` behind an `RwLock`: visits, redemption counters by code | `issue`, `check_in`, `check_out`, `active_visit_count` | the clock is read before the lock; counters and closed visits are purged by whichever check-in comes next; double check-out; the receipt travels only in the response, which may be lost; the audit event comes after the lock |
| Reservation demo and feed, `main.rs` | `records` behind an `RwLock`, a 512-slot broadcast channel, one task per WebSocket | `create_record`, `list_records`, `get_record`, `ws_upgrade`, `websocket` | store and send are two steps; subscription happens after the 101; lag; `select!` cancels `recv`; slow peers |
| QR issuance and dual-auth gate, `auth.rs`, `main.rs` | none of its own | `authorize_qr_issuer`, `issue_visitor_qr` | outcomes of an external guard |
| Start-up and shutdown, `main.rs` | configuration | `main`, `shutdown_signal` | all-or-none groups of variables; requests in progress when ctrl-c arrives |
| CORS and health, `main.rs` | the parsed list of origins | `cors_layer`, `health` | duplicates, blanks and paths in the list |
| Observability, `observability.rs` | the log | `visitor_event` and others | an event is written apart from what it reports |
| Route drift checker, vendored tooling, env and lint scripts | files | CI and developer scripts | none at run time |

The three stateful components share no lock: the doorway engine is not routed
at all yet, and visitor access and reservations keep separate ones. What
connects two of them are the codes: check-in and check-out take what
`issue_visitor_qr` handed out. `VisitorAccess` alone lets a visitor show any code
whose window may have begun; `VisitorSystem` composes it with `QrIssuance` so that a
visitor shows only codes an issuer got.

## Modules

**PresenceAdmission** – `issue_nonce` and `submit` on the ledger. A call is a task
with a program counter; a step is a stretch of code between two acquisitions of
the mutex. `IssueNonce`/`GrantNonce` are the two halves of `issue_nonce` (checks,
then prune, cap, insert under the lock). `Submit` (shape check), `LookUp` (first
locked block), `Verify` (authorizer and verifier, no lock) and `Commit` (second
lookup, checks in the code's order, writes) are `submit`. `Abandon` drops a call
that waits for the mutex. Every call carries the `now` its caller read. An
observation is the record of the fields `submit` reads and stands for its own
digest. `granted` and `admittedBy` are history variables. The shape check, the
authorizer and the verifier are external and may answer anything.

**PresenceLog** – what the engine promises: a log to which a submission adds one
entry, or from which it is answered, in one step. It has no tables of spent
items and no sequence counters; both are read off the log.
`PresenceAdmission!ImplementsLog` is the refinement.

**VisitorAccess** – `CheckIn`/`AdmitVisitor` and `CheckOut`/`CloseVisit` are the
halves of the two handlers before and under the write lock, each whole: purge of
counters, rate limit, eviction, cap, count and insert are one `AdmitVisitor`.
`Respond` is the rest of the handler: the audit event, then the response, which
reaches the visitor or is lost. `audit` counts the events by outcome. Refusals are
the codes of the API (`visitor_error`). A code is its claims; HMAC, base64 and the
receipt's tag are abstracted to "only issued codes and receipts that reached a
visitor verify". `created`, `redeemed` and `known` (the receipts that arrived) are
history variables.

**VisitRegister** – what visitor access promises: room for a number of visits, a
quota of check-ins per code for ever (no purge, no window), and visits that only
the holder of their receipt ends. `VisitorAccess!ImplementsRegister` is the
refinement.

**QrWindow** – which code a door shows at an instant, when `verify` accepts it, and
what the API answers for each `VisitorError`; shared by issuance and redemption.

**QrIssuance** – start-up (`main` over every environment: which variables of the two
groups are set, to which lists, and which have an ill-formed value) and
`issue_visitor_qr` in two steps, before and after the guard it awaits. The guard is external and may answer
anything at any later time.

**VisitorSystem** – one process: `QrIssuance` and `VisitorAccess` by `INSTANCE` on one
clock, `health`, and graceful shutdown (`serving`, `draining`, `stopped`). When the
signal comes, some connections are open whose request has not been read to its
end (`arriving`): these requests still reach their handlers (`Arrives`), or the
connection closes (`Hangup`); no other request begins. `Stop` waits for all of
them. `handed` records the first hand-out of each code, `unserved` the requests of
visitors that found no service configured.

**CorsOrigins** – how `CORS_ORIGINS` becomes the list the CORS layer compares a
browser's `Origin` with: one pass that parses (`parse_cors_origin`), one that keeps the
first of equal origins (`KeepFirst`), both entry by entry. A URI is the parts it is written with, so that `Uri::path`
(`/` for an empty path) is modelled by what it does.

**ReservationEvents** – `create_record` as `create_record` (gate, normalisation,
validation), `Store` (under the lock) and `Announce` (after it); the feed as
`ws_upgrade`, `Subscribe`, `Receive`, `Deliver`, `Ping`, `Pong`, `Disconnect`; and
`list_records` by a subscribed peer. `get_record` is an operator: what a read of
one identifier answers in a state. The channel is kept whole and the ring is
its tail. tokio's `recv` is modelled from its contract: `Lagged` moves the
receiver to the oldest event still in the ring; `send` drops the event when
there is no receiver.

**MC…** – instances for TLC. **…Proofs** – the theorems, see *Proofs*.

Operators marked "Mutant" are wrong versions of the definition that follows
them; each shows that a property notices a plausible mistake in that code.

## Runs

| Run | Shows | Bounds |
|---|---|---|
| `presence_replay` | nothing is spent twice; the tables hold exactly what decisions spent; all answers to one observation agree and decisions are final; a refusal costs no nonce; `Replayed` is answered only for a real conflict or a dead nonce; the two-lock `submit` is one atomic step of `PresenceLog` | 2 callers, 2 identifiers, nonces, challenges, evidences, one foreign nonce, 7 observations that reuse each other's parts, clock 0..2, ttl 2 |
| `presence_binding` | decisions match principal, house and lifetime of the grant; sequences gapless per principal and house, each decision following the one its client knew of | 2 principals, 2 houses, 4 observations, of which two contest the first place in a house and one takes the second, `MaxSequence` 2 |
| `presence_capacity` | both caps hold; a full ledger still answers a retry of what it recorded, and only what is new is refused; every call is answered | caps of 1 |
| `visitor_limits` | at most the limit of check-ins per code, counters exact, names kept only while a visit is open | minute of 1 s, no grace, cap 1, 3 visits, clock 0..3: a counter is purged within the run |
| `visitor_records` | cap on open visits; only closed visits past retention vanish and none reopens; a visit whose response was lost stays open; log and store differ exactly by the requests about to respond, and a check-out is logged only after its check-in; `VisitRegister` is implemented | cap 1, retention 1 s, minute 2 s, grace 1 s, clock 0..4: the windows of consecutive codes overlap |
| `visitor_checkout_limit` | **violation**, see below | 2 visits |
| `qr_issuance` | no half-configured or unguarded service; codes only for listed identities and doors; a code is fresh however long the guard takes | every environment over 2 variables per group, 2 well-formed identities and a malformed one, likewise doors, 2 requests, minute 2 s, clock 0..4 |
| `reservation_feed` | the feed is ordered and loses only what left the ring; an announced reservation can be read at once; listing plus feed misses nothing | 2 peers, 2 handlers, 4 reservations, ring of 2 |
| `reservation_liveness` | only normalised, valid records are stored, within the cap; stored reservations are announced; a turning loop catches up | 720 bodies around the limits of every text, status and stay, 3 identifiers, cap 2, 1 peer, ring of 1 |
| `visitor_system` | every entry goes back to a listed issuer's code, within the expiry shown; that expiry is the last second at which the door accepts the code; draining ends, wherever the requests in progress were and whatever still arrives; a stopped process had logged every visit it opened and closed | one issuing and one visitor request at a time, a listed and an unlisted identity, 1 visit, minute 3 s, grace 1 s, delay 1 s, clock 0..6: a code of the first minute expires at 4, and entering with it after 5 would be seen |
| `cors_origins` | the list is the entries in order of first occurrence; exactly the origins listed as browsers send them are allowed | every list of up to 4 entries, one entry per branch of the parser |
| `cors_slash` | **violation**, see below | one origin with and without its slash, up to 2 entries |

Two concurrent calls are enough for the races in question: each is between one
call's check and another's write, and the shared tables carry the effect of
finished calls over to later ones. Named bounds of the models only: `MaxClock`,
the finite sets of nonces and identifiers (`NonceSupply`, `VisitSupply` keep a call
from starting when the model has no fresh name left), and `MaxDelay`.

`MaxDelay` is an assumption with content. In `check_in` the code is verified against
the `now` read before the lock, but its counter may be purged by a later check-in
whose minute is three or more ahead. `CheckInLimit` holds as long as no request waits
`2*Minute - Grace` seconds (105 s in the code) between its clock reading and the
lock, and fails at that value: with `MaxDelay = 2` in `VisitorLimits.cfg` TLC finds
a code admitted twice. The lock is held only for map operations, so the
assumption is reasonable, but nothing in the code enforces it.

`CHECK_DEADLOCK FALSE` appears where the process may end: a refused configuration
exits (`QrIssuance.cfg`, `CorsOrigins.cfg`, `CorsSlash.cfg`, `VisitorSystem.cfg`), and so
does a drained one (the last).

Symmetry is used in safety runs only, over tasks, visits, peers and identifiers,
which no operator tells apart.

### Fairness

Weak fairness for a call that has begun (in `PresenceAdmission` and `VisitorSystem`): tokio's `Mutex` and `RwLock` queue in
order, their critical sections do not wait, and the verifier is a synchronous
call that returns. Nothing obliges a caller to call, and time need not pass.
Writing the audit event and returning are straight-line code after the lock, so
`Respond` is fair, whether or not the response arrives. The guard's answer is fair
in `VisitorSystem` because its race of providers has a deadline of its own, and
`Stop` because the server's future completes once the last connection does. The
arrival of a request is not fair: a client that never finishes sending holds the
drain up, so `DrainCompletes` starts where nothing is arriving any more.
Subscription and the handler's send are weakly fair too. `Receive` is strongly
fair because `select!` polls its branches in random order: a peer that pings without
end makes `recv` ready over and over, not continuously. `Deliver` and `Pong` are not
fair: a peer may never read.

### Findings

`visitor_checkout_limit`: the repository's README says the QR token, bound to
"`check-in` or `check-out` action" (`src/README.md:57`), is "rate-limited to 128
successful redemptions per door/action/minute token" (line 60). `check_out`
(`src/src/visitor.rs:271`) neither reads nor increments `redemptions`; one
check-out code closes any number of visits within its window.

`cors_slash`: the repository's README says of `CORS_ORIGINS` that "Wildcards, paths, and
query strings are rejected at startup" (`src/README.md:82`). `parse_cors_origin`
(`src/src/main.rs:227`) compares `uri.path()` with `/`, which holds of an origin written
with the path `/` too. Start-up succeeds, and the value is stored as written, so
no browser's `Origin` ever equals it.

### Behaviour worth knowing

- `submit` compares the grant's expiry with the captured `now`, so a decision may be
  recorded after the grant expired by the wall clock, and `recorded_at` need not
  grow with `presence_sequence` across racing calls.
- Decisions are never pruned: a full ledger refuses new observations until restart.
  It goes on answering retries of what it recorded (`RetriesAreHonoured`).
- An open visit is never evicted: if the check-in response, and with it the
  receipt, is lost, its slot is taken until restart
  (`UndeliveredStaysOpen`).
- A WebSocket peer has its 101 before its task subscribes. A listing made in
  that window may miss a reservation that the feed will not carry either;
  `SnapshotPlusStream` starts at the subscription.

## Proofs

The theorems hold for every number of callers, visits, peers and records, and for
every value of the caps, windows and lifetimes that the assumptions below allow.
All have one shape: an inductive invariant, one lemma per action that says it is
kept, and the property read off the invariant (or, for an action property or a
refinement, off a step taken from a state that has it). TLC checked the
invariants on the instances of the runs before they were proved.

| Module | Theorems, by the property each establishes |
|---|---|
| `PresenceAdmissionProofs` | `TypeCorrect`: `TypeOK`; `SingleUse`: `SpentOnce`; `TablesAgree`: `LedgerCoherent`; `SequencesGapless`: `GaplessSequences`; `AdmissionsUnderGrant`: `AdmittedUnderGrant`; `DecisionsFinal`: `DecisionsAreFinal`; `DuplicatesConverge`: `AnswersAgreeWithRecord` |
| `PresenceCallerProofs` | `NoNonceLost`: `NoncesNotLost`; `CapsHold`: `WithinCapacity`; `ReplaysJustified`: `ReplayedIsJustified`; `RetriesHonoured`: `RetriesAreHonoured` |
| `PresenceLogProofs` | `LogImplemented`: `ImplementsLog` |
| `VisitorAccessProofs` | `VisitTypes`: `TypeOK`; `UndeliveredOpen`: `UndeliveredStaysOpen`; `LifecycleHolds`: `VisitLifecycle`; `CapacityKept`: `ActiveWithinCapacity`; `LogAccounts`: `LogReconciles`; `LogInOrder`: `LogOrdered`; and, from `DelayBounded`, `CheckInsLimited`: `CheckInLimit`, `CountersAreExact`: `CountersExact` and `RegisterImplemented`: `ImplementsRegister` |
| `ReservationEventsProofs` | `ValidRecords`: `StoredAreValid`; `StoreCapacity`: `CapacityHolds`; `ReservationTypes`: `TypeOK`; `ReadableOnceAnnounced`: `AnnouncedIsReadable`; `StreamsIntact`: `StreamIntact`; `ListingPlusStream`: `SnapshotPlusStream` |
| `QrIssuanceProofs` | `ConfigurationComplete`: `ConfigurationIsComplete`; `OnlyListedIssue`: `IssuedToListed`; `IssuedFresh`: `IssuedIsFresh` |
| `VisitorSystemProofs` | `StopReconciles`: `StoppedIsReconciled`; `EntriesAccountedFor`: `EntryIsAccountedFor`; `HandedHonoured`: `HandedAreHonoured`; and, from `DelayBounded`, `RegisterKept`: the whole process implements `VisitRegister` |
| `CorsOriginsProofs` | `OriginsListed`: `ListedIsAllowed` |

### Assumptions

The named `ASSUME`s of the modules, which TLC evaluates in the runs of those modules. They say what
kind of number each bound is, that `None` is none of the values it stands beside,
and that what is counted is finite (`FiniteAssumption`, `VisitorFinite`,
`SystemFinite`): the caps compare cardinalities, and the tables of the program
are finite. `VisitorSystem` restates those of `VisitorAccess` for its own constants,
because an instantiated module brings none along.

Four theorems have a hypothesis besides, `DelayBounded`: `Grace + MaxDelay < 2*Minute`,
that is, a wait of less than 105 s for the lock. It is the bound at which TLC finds
`CheckInLimit` violated (see *Runs*), so it cannot be weakened.

### Doorway admission

`TypeOK` alone is not inductive: `Commit` reads the principal, the observation and
the nonce of a call, so `TypeInv` adds `CallsCoherent` (what a call at each stage
carries, and that a non-foreign nonce in flight was granted before the call read
the clock) and `GrantsInPast`. `LedgerInv` conjoins `LedgerCoherent`, `SpentOnce`,
`GaplessSequences` and `AdmittedUnderGrant`; only `GrantNonce` and the recording branch
of `Commit` touch what it speaks of. A new decision spends a nonce that is still
pending, and by `LedgerCoherent`, which makes the tables of used challenges and
evidence exactly those of the recorded requests, no recorded request has a pending
nonce, an unused challenge or unused evidence, which gives `SpentOnce`; a grant takes a nonce never
granted, so it cannot revive a spent one. The new sequence number is one above an
interval `1..s`, hence gapless, and the client's number is checked in the same
critical section. `AnswersInv` follows because a recorded decision is
never overwritten: the second lookup in `Commit` comes before the write, in the
same critical section.

For what callers rely on, nonces have to be accounted for as well. `SpendingInv` says
that a grant which is not pending any more was spent on a recorded request or has
outlived its lifetime. So `Replayed` always has a culprit, and it is a different
observation: if the submission's own identifier were recorded, a lookup would have
answered first.

For the refinement, a `submit` takes its step of `PresenceLog` at the moment its answer
is settled: where a lookup finds the record, where a check refuses it, or where it
records. A first lookup that finds nothing and a verification that succeeds do
not show. The tables
of spent items, which the log does not have, agree with what the log reads off its
entries by `LedgerCoherent` and `SpendingInv` together, so that the checks of `Commit`
and those of the log come to the same.

### Visitor access

`VisitInv` says of a request at each stage what it was let through with: a code of
the right action whose window held the instant it read, a receipt that had
reached its visitor. A receipt on its way to a visitor is in nobody's hands,
which keeps its visit open; that is `UndeliveredStaysOpen`, and part of the
invariant because check-out preserves it only if receipts cannot be guessed.
`LogInv` adds that check-ins are logged or about to be, and that at most as many
receipts have arrived as check-ins were logged. A visit that ended was ended by a
holder of its receipt, so the log has no more check-outs than check-ins.

`CounterInv` says when a counter may be missing: no check-in was counted, or the
code is three minutes old. A purge happens at a minute at least three after the
counter's, which is at least the code's. A request that verified its code within
`Minute + Grace` of the start of that code's minute reaches the lock at most
`MaxDelay` later, by `DelayBounded` before those three minutes are over: it never
starts a counter again. This is the only use of `DelayBounded`, and the reason the
register, whose quotas are for ever, is implemented.

### Reservations and feed

`StoreInv` does not mention the feed, and is proved first. A request under way has
an identifier no other has and, once it waits for the lock, a valid record; one
about to send has stored its record and not announced it. `FeedInv` places every
connection in the channel: what it received stands in it between its
subscription and its position, in order; whatever the ring still holds and it
has not received lies ahead of it; and, if it has listed without lagging, every
stored record is in the listing, was sent to it, lies ahead of it or is about to
be announced. The last part is what `SnapshotPlusStream` needs, and holds because
the listing sees every record whose request has passed the lock.

### Issuance and the whole process

`ConfigInv` carries the checks of `main` from start-up to every later state, with the
allowlists equal to the operator's; `RequestsInv` says a request waits for the guard
only if there is one and ties an issued code to the minute it was handed out in.
`IssuedIsFresh` is then arithmetic on minutes.

`VisitorSystemProofs` shows first that every step of the process is a step of the
visitor service or does not show in it (`AccessStep`): start-up, issuers and
shutdown touch none of its variables, and `Stop` drops no request. That much is how
the composition is built; what it is for is that `VisitInv` and
`LogInv` hold of the process too (`ServiceInvariant`), by the step lemmas of
`VisitorAccessProofs`, and with `CounterInv` so does the refinement of the register.

What `SystemInv` adds is what spans the two components: the allowlists in force are
the operator's (`Listed`), the codes in circulation were handed to a listed issuer, in
their own minute and with the end of their window (`HandedSound`), visitors wait only with such codes
(`CodesHanded`), a process without a visitor service has done nothing (`Dormant`), and
a stopped one has no request. `HandedAreHonoured` follows from `HandedSound` by
arithmetic: the expiry that `issue` computes is the last second of `verify`'s window.
`StoppedIsReconciled` is `LogReconciles` with nobody between
the lock and the log.

### CORS

What a fold over a list computes takes induction over the list. Here the two
passes are steps, and the induction is the one over the behaviour. `CorsInv` says of
both lists (`Follows`) that each element stands in `CORS_ORIGINS` at a place where
just the elements up to it have been seen; `Passes` says how much of its input each
pass has covered. The order of first occurrence follows: an element that comes
earlier was seen at a place where the later one, being none of those up to it
(`NoneTwice`), was not.

### Only model-checked

- Liveness: `CallsAreAnswered`, `StoredIsAnnounced`, `StreamKeepsUp`, `DrainCompletes`. Fairness
  and `ENABLED` are out of this prover's reach.
- The two violations, which are counterexamples.

## Not modelled

- The guard of `shared-auth-lib` (an external crate) and the syntax of configured
  values (a value, a door or an identity is well formed or it is not); the database connection, which no handler uses.
- Log events of authorization and issuance, and how records are rendered and
  exported: nothing reads them. `visitor_event` ignores the result of `send()`; the
  one transport is a closure that writes and returns `Ok`
  (`src/src/observability.rs:12`), so `Respond` logs without fail.
- The numbers of HTTP statuses (the API's error codes are modelled), request
  limits and tracing layers.
- `Closed` from the broadcast channel: every connection task holds the sender.
- At shutdown: WebSocket tasks, which the server does not wait for.
- `scripts/check-route-sync.py`, `scripts/vendor`, `.just`, `.ores-lint`, CI: tooling
  and vendored code outside the service.

## Plan

1. Modelled first, because the races are there: the admission engine, then
   visitor access, then reservations and feed, then issuance (done).
2. The composition of `QrIssuance` and `VisitorAccess` with start-up and shutdown, and
   the properties that span both (done: `VisitorSystem`).
3. An abstract specification of visitor access, and `VisitorAccess` shown to
   implement it (done: `VisitRegister`).
4. CORS and health (done).
5. Proofs of every safety property and of both refinements (done).
6. Open: when the doorway engine is routed, or state is made durable,
   `VisitorSystem` is where the composition and the restart belong.
