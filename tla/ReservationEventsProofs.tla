---------------------- MODULE ReservationEventsProofs ----------------------
(***************************************************************************)
(* Safety of the demo reservations and their feed, for any number of       *)
(* requests, peers and reservations and any capacities.  The store does    *)
(* not depend on the feed: its invariant comes first, and the feed's is    *)
(* proved on top of it.                                                    *)
(***************************************************************************)
EXTENDS ReservationEvents, FiniteSetTheorems, SequenceTheorems, TLAPS

(***************************************************************************)
(* The inductive invariants.                                               *)
(***************************************************************************)
Busy(t) == calls[t].pc \in {"write_lock", "send"}

\* A request that passed the checks holds a valid record under a fresh
\* identifier; one that stored it has yet to announce it.
CallSound(t) ==
    /\ Busy(t) => demo_reservations_enabled /\ calls[t].id \in Id
    /\ calls[t].pc = "write_lock" =>
          /\ calls[t].id \notin Stored
          /\ calls[t].record \in CreateReservation
          /\ Valid(calls[t].record)
    /\ calls[t].pc = "send" => calls[t].id \in Stored \ announced

IdsDistinct ==
    \A t, u \in Task : Busy(t) /\ Busy(u) /\ calls[t].id = calls[u].id => t = u

StoreTypes ==
    /\ demo_reservations_enabled \in BOOLEAN
    /\ records \in [Id -> CreateReservation \cup {None}]
    /\ calls \in [Task -> Call]

StoreInv ==
    /\ StoreTypes
    /\ \A t \in Task : CallSound(t)
    /\ IdsDistinct
    /\ announced \subseteq Stored
    /\ announced # {} => demo_reservations_enabled
    /\ StoredAreValid
    /\ IsFiniteSet(Stored)
    /\ CapacityHolds

\* How far the events that were received reach: the one in hand is not yet.
ReceivedUpTo(c) ==
    IF conns[c].pc = "sending" THEN conns[c].next - 1 ELSE conns[c].next

\* What is known of one connection.
Position(c) ==
    /\ conns[c].pc = "sending" <=> conns[c].taken # None
    /\ Subscribed(c) => conns[c].since <= conns[c].next
    /\ conns[c].next <= Len(channel)
    /\ conns[c].pc = "sending" =>
          /\ conns[c].since < conns[c].next
          /\ conns[c].taken = channel[conns[c].next]
    /\ conns[c].listed # None => Subscribed(c)

\* Every event received stands in the channel since the subscription.
Received(c) ==
    \A k \in DOMAIN conns[c].received :
        \E m \in conns[c].since + 1 .. ReceivedUpTo(c) :
            channel[m] = conns[c].received[k]

Misses(c, i) ==
    /\ conns[c].listed # None /\ conns[c].skipped = 0
    /\ i \notin conns[c].listed
    /\ i \notin SentTo(c) \cup Pending(c)
    /\ ~ Announcing(i)

ConnSound(c) ==
    /\ Position(c)
    /\ Received(c)
    /\ Subscribed(c) => RecentCovered(c)
    /\ InOrder(c, ReceivedUpTo(c))
    /\ \A i \in Stored : ~ Misses(c, i)

FeedInv ==
    /\ channel \in Seq(Id)
    /\ conns \in [Client -> Conn]
    /\ \A k \in 1..Len(channel) : channel[k] \in announced
    /\ \A c \in Client : ConnSound(c)

(***************************************************************************)
(* The store.                                                              *)
(***************************************************************************)
\* What passes the checks after normalisation is a valid reservation.
LEMMA NormalizedValid ==
    ASSUME NEW input \in Input, validate(normalize(input))
    PROVE  normalize(input) \in CreateReservation /\ Valid(normalize(input))
<1> DEFINE r == normalize(input)
<1>1. input \in CreateReservation
  BY ReservationAssumption
<1>2. r \in CreateReservation
  BY <1>1 DEF normalize, Trim, CreateReservation, Text, Status
<1>3. ASSUME NEW f \in RequiredField
      PROVE  r.text[f].padding = 0 /\ r.text[f].chars \in 1..MaxChars[f]
  <2>1. r.text[f] = [padding |-> 0, chars |-> input.text[f].chars]
    BY DEF normalize, Trim
  <2>2. input.text[f].chars \in Nat
    BY <1>1 DEF CreateReservation, Text
  <2>3. Length(r.text[f]) \in 1..MaxChars[f]
    BY DEF validate, validate_required_text
  <2> QED
    BY <2>1, <2>2, <2>3 DEF Length
<1>4. r.notes.padding + r.notes.chars <= MaxNotesChars
  BY DEF validate, Length
<1>5. r.check_out - r.check_in \in 1..MaxStay
  <2>1. r.check_in \in Int /\ r.check_out \in Int
    BY <1>2 DEF CreateReservation
  <2> QED
    BY <2>1, ReservationAssumption DEF validate
<1>6. KnownStatus(r.status)
  BY DEF validate
<1> QED
  BY <1>2, <1>3, <1>4, <1>5, <1>6 DEF Valid

\* The store alone: what its invariant does not mention may change at will.
storeVars == <<demo_reservations_enabled, records, calls, announced>>

\* A request goes from one place to another and the records stay.
LEMMA CallMoves ==
    ASSUME StoreInv, NEW t \in Task, NEW q \in Call,
           calls' = [calls EXCEPT ![t] = q],
           UNCHANGED <<demo_reservations_enabled, records, announced>>,
           q.pc \in {"idle", "done"}
             \/ /\ q.pc = "write_lock"
                /\ demo_reservations_enabled
                /\ q.id \in NewId
                /\ q.record \in CreateReservation
                /\ Valid(q.record)
    PROVE  StoreInv'
<1>1. StoreTypes'
  BY DEF StoreInv, StoreTypes
<1>2. \A u \in Task : calls'[u] = IF u = t THEN q ELSE calls[u]
  BY DEF StoreInv, StoreTypes
<1>3. Stored' = Stored
  BY DEF Stored
<1>4. ASSUME NEW u \in Task PROVE CallSound(u)'
  <2>1. CASE u = t
    <3>1. calls'[u] = q
      BY <1>2, <2>1
    <3> QED
      BY <1>3, <3>1 DEF CallSound, Busy, NewId
  <2>2. CASE u # t
    BY <1>2, <1>3, <2>2 DEF StoreInv, CallSound, Busy
  <2> QED
    BY <2>1, <2>2
<1>5. IdsDistinct'
  BY <1>2 DEF StoreInv, IdsDistinct, Busy, NewId
<1>6. StoredAreValid'
  BY <1>3 DEF StoreInv, StoredAreValid
<1>7. CapacityHolds'
  BY <1>3 DEF StoreInv, CapacityHolds
<1> QED
  BY <1>1, <1>3, <1>4, <1>5, <1>6, <1>7 DEF StoreInv

\* Records of requests.
LEMMA DoneType ==
    ASSUME NEW answer \in {"none", "Created", "Forbidden", "Invalid",
                           "SerializationFailed", "CapacityReached"},
           NEW stage \in {"idle", "done"}
    PROVE  [pc |-> stage, id |-> None, record |-> None, answer |-> answer] \in Call
BY DEF Call

\* The checks before the lock.
LEMMA CreateStep ==
    ASSUME StoreInv, NEW t \in Task, NEW input \in Input, create_record(t, input)
    PROVE  StoreInv'
<1>1. UNCHANGED <<demo_reservations_enabled, records, announced>>
  BY DEF create_record
<1>2. ASSUME NEW answer \in {"Forbidden", "Invalid", "SerializationFailed"},
             Answer(t, answer)
      PROVE  StoreInv'
  BY <1>1, <1>2, DoneType, CallMoves DEF Answer
<1>3. ASSUME require_demo_reservations, validate(normalize(input)),
             NEW i \in NewId,
             calls' = [calls EXCEPT ![t] =
                          [pc |-> "write_lock", id |-> i,
                           record |-> normalize(input), answer |-> "none"]]
      PROVE  StoreInv'
  <2> DEFINE q == [pc |-> "write_lock", id |-> i,
                   record |-> normalize(input), answer |-> "none"]
  <2>1. normalize(input) \in CreateReservation /\ Valid(normalize(input))
    BY <1>3, NormalizedValid
  <2>2. q \in Call
    BY <2>1 DEF Call, NewId
  <2>3. /\ q.pc = "write_lock" /\ q.id \in NewId
        /\ q.record \in CreateReservation /\ Valid(q.record)
    BY <2>1
  <2> HIDE DEF q
  <2>4. calls' = [calls EXCEPT ![t] = q]
    BY <1>3 DEF q
  <2> QED
    BY <1>1, <1>3, <2>2, <2>3, <2>4, CallMoves DEF require_demo_reservations
<1> QED
  BY <1>2, <1>3 DEF create_record

\* Under the lock.
LEMMA StoreStep ==
    ASSUME StoreInv, NEW t \in Task, Store(t)
    PROVE  StoreInv'
<1> DEFINE i == calls[t].id
           q == [pc |-> "send", id |-> i, record |-> None, answer |-> "none"]
<1>1. UNCHANGED <<demo_reservations_enabled, announced>>
  BY DEF Store
<1>2. /\ calls[t].pc = "write_lock" /\ demo_reservations_enabled
      /\ i \in Id /\ i \notin Stored /\ calls[t].record \in CreateReservation
      /\ Valid(calls[t].record)
      /\ Busy(t)
  BY DEF Store, StoreInv, CallSound, Busy
<1>3. CASE AtCapacity
  <2>1. Answer(t, "CapacityReached") /\ UNCHANGED records
    BY <1>3 DEF Store
  <2> QED
    BY <1>1, <2>1, DoneType, CallMoves DEF Answer
<1>4. CASE ~ AtCapacity
  <2>1. /\ records' = [records EXCEPT ![i] = calls[t].record]
        /\ calls' = [calls EXCEPT ![t] = q]
    BY <1>4 DEF Store
  <2>2. /\ \A j \in Id : records'[j] = IF j = i THEN calls[t].record ELSE records[j]
        /\ calls[t].record # None
    BY <1>2, <2>1, ReservationAssumption DEF StoreInv, StoreTypes
  <2>3. Stored' = Stored \cup {i}
    BY <1>2, <2>2 DEF Stored
  <2>4. q \in Call
    BY <1>2 DEF Call
  <2>5. StoreTypes'
    BY <1>1, <1>2, <2>1, <2>4 DEF StoreInv, StoreTypes
  <2>6. \A u \in Task : calls'[u] = IF u = t THEN q ELSE calls[u]
    BY <2>1 DEF StoreInv, StoreTypes
  <2>7. ASSUME NEW u \in Task PROVE CallSound(u)'
    <3>1. CASE u = t
      <4>1. i \notin announced
        BY <1>2 DEF StoreInv
      <4> QED
        BY <1>1, <1>2, <2>3, <2>6, <3>1, <4>1 DEF CallSound, Busy
    <3>2. CASE u # t
      <4>1. calls'[u] = calls[u] /\ CallSound(u)
        BY <2>6, <3>2 DEF StoreInv
      <4>2. calls[u].pc = "write_lock" => calls[u].id # i
        BY <1>2, <3>2 DEF StoreInv, IdsDistinct, Busy
      <4> QED
        BY <1>1, <2>3, <4>1, <4>2 DEF CallSound, Busy
    <3> QED
      BY <3>1, <3>2
  <2>8. IdsDistinct'
    BY <1>2, <2>6 DEF StoreInv, IdsDistinct, Busy
  <2>9. StoredAreValid'
    <3>1. \A j \in Stored' : Valid(records'[j])
      BY <1>2, <2>2, <2>3 DEF StoreInv, StoredAreValid, Stored
    <3> QED
      BY <3>1 DEF StoredAreValid
  <2>10. IsFiniteSet(Stored') /\ Cardinality(Stored') = Cardinality(Stored) + 1
    BY <1>2, <2>3, FS_AddElement DEF StoreInv
  <2>11. CapacityHolds'
    BY <1>4, <2>10, FS_CardinalityType, ReservationAssumption
       DEF StoreInv, AtCapacity, CapacityHolds
  <2> QED
    BY <1>1, <2>3, <2>5, <2>7, <2>8, <2>9, <2>10, <2>11 DEF StoreInv
<1> QED
  BY <1>3, <1>4

\* After the lock: the request is answered, its identifier announced.
LEMMA AnnounceStep ==
    ASSUME StoreInv, NEW t \in Task, Announce(t)
    PROVE  StoreInv'
<1> DEFINE i == calls[t].id
           q == [pc |-> "done", id |-> None, record |-> None, answer |-> "Created"]
<1>1. /\ UNCHANGED <<demo_reservations_enabled, records>>
      /\ announced' = announced \cup {i}
      /\ calls' = [calls EXCEPT ![t] = q]
      /\ calls[t].pc = "send"
  BY DEF Announce, Answer
<1>2. i \in Stored \ announced /\ demo_reservations_enabled /\ Busy(t)
  BY <1>1 DEF StoreInv, CallSound, Busy
<1>3. \A u \in Task : calls'[u] = IF u = t THEN q ELSE calls[u]
  BY <1>1 DEF StoreInv, StoreTypes
<1>4. Stored' = Stored
  BY <1>1 DEF Stored
<1>5. StoreTypes'
  BY <1>1, DoneType DEF StoreInv, StoreTypes
<1>6. ASSUME NEW u \in Task PROVE CallSound(u)'
  <2>1. CASE u = t
    BY <1>3, <2>1 DEF CallSound, Busy
  <2>2. CASE u # t
    <3>1. calls'[u] = calls[u] /\ CallSound(u)
      BY <1>3, <2>2 DEF StoreInv
    <3>2. calls[u].pc = "send" => calls[u].id # i
      BY <1>2, <2>2 DEF StoreInv, IdsDistinct, Busy
    <3> QED
      BY <1>1, <1>4, <3>1, <3>2 DEF CallSound, Busy
  <2> QED
    BY <2>1, <2>2
<1>7. IdsDistinct'
  BY <1>3 DEF StoreInv, IdsDistinct, Busy
<1>8. StoredAreValid'
  BY <1>1, <1>4 DEF StoreInv, StoredAreValid
<1>9. CapacityHolds'
  BY <1>4 DEF StoreInv, CapacityHolds
<1> QED
  BY <1>1, <1>2, <1>4, <1>5, <1>6, <1>7, <1>8, <1>9 DEF StoreInv

\* A dropped handler leaves no trace.
LEMMA AbandonStep ==
    ASSUME StoreInv, NEW t \in Task, Abandon(t)
    PROVE  StoreInv'
<1>1. UNCHANGED <<demo_reservations_enabled, records, announced>>
      /\ calls' = [calls EXCEPT ![t] = IdleCall]
  BY DEF Abandon
<1>2. IdleCall \in Call /\ IdleCall.pc = "idle"
  BY DoneType DEF IdleCall
<1> QED
  BY <1>1, <1>2, CallMoves

\* What does not touch the store keeps its invariant.
LEMMA StoreKept ==
    ASSUME StoreInv, UNCHANGED storeVars
    PROVE  StoreInv'
<1>1. UNCHANGED <<demo_reservations_enabled, records, calls, announced>>
      /\ Stored' = Stored
  BY DEF storeVars, Stored
<1>2. ASSUME NEW t \in Task PROVE CallSound(t)'
  BY <1>1 DEF StoreInv, CallSound, Busy
<1>3. IdsDistinct'
  BY <1>1 DEF StoreInv, IdsDistinct, Busy
<1>4. StoredAreValid' /\ CapacityHolds' /\ StoreTypes'
  BY <1>1 DEF StoreInv, StoredAreValid, CapacityHolds, StoreTypes
<1> QED
  BY <1>1, <1>2, <1>3, <1>4 DEF StoreInv

\* One step, told apart by what it touches.
ConnStep(c) ==
    \/ ws_upgrade(c) \/ Subscribe(c) \/ Receive(c) \/ Deliver(c)
    \/ Ping(c) \/ Pong(c) \/ Disconnect(c) \/ list_records(c)

\* What a connection does leaves the store and the channel alone.
LEMMA ConnStepKeepsStore ==
    ASSUME NEW c \in Client, ConnStep(c)
    PROVE  UNCHANGED storeVars /\ channel' = channel
BY DEF ConnStep, ws_upgrade, Subscribe, Receive, Deliver, Ping, Pong, Disconnect,
       list_records, storeVars

\* Every step keeps the invariant of the store.
LEMMA StoreNext ==
    ASSUME StoreInv, [Next]_vars
    PROVE  StoreInv'
<1>1. CASE UNCHANGED vars
  BY <1>1, StoreKept DEF vars, storeVars
<1>2. ASSUME NEW c \in Client, ConnStep(c) PROVE StoreInv'
  BY <1>2, ConnStepKeepsStore, StoreKept
<1> QED
  BY <1>1, <1>2, CreateStep, StoreStep, AnnounceStep, AbandonStep DEF Next, ConnStep

\* The store starts empty.
LEMMA StoreInit ==
    ASSUME Init
    PROVE  StoreInv
<1>1. Stored = {} /\ announced = {}
  BY DEF Init, Stored
<1>2. IsFiniteSet({}) /\ Cardinality({}) = 0
  BY FS_EmptySet
<1>3. \A t \in Task : calls[t].pc = "idle"
  BY DEF Init, IdleCall
<1>4. StoreTypes
  BY DoneType DEF Init, StoreTypes, IdleCall
<1>5. CapacityHolds /\ StoredAreValid /\ IdsDistinct
  BY <1>1, <1>2, <1>3, ReservationAssumption
     DEF CapacityHolds, StoredAreValid, IdsDistinct, Busy
<1>6. \A t \in Task : CallSound(t)
  BY <1>3 DEF CallSound, Busy
<1> QED
  BY <1>1, <1>2, <1>4, <1>5, <1>6 DEF StoreInv

\* StoreInv is an invariant.
LEMMA StoreInvariant == Spec => []StoreInv
<1>1. Init => StoreInv
  BY StoreInit
<1>2. StoreInv /\ [Next]_vars => StoreInv'
  BY StoreNext
<1> QED
  BY <1>1, <1>2, PTL DEF Spec

\* Whatever was posted, what is stored has passed every check in its
\* normalised form.
THEOREM ValidRecords == Spec => []StoredAreValid
<1>1. StoreInv => StoredAreValid
  BY DEF StoreInv
<1> QED
  BY <1>1, StoreInvariant, PTL

\* The store never outgrows its capacity, however many requests wait for it.
THEOREM StoreCapacity == Spec => []CapacityHolds
<1>1. StoreInv => CapacityHolds
  BY DEF StoreInv
<1> QED
  BY <1>1, StoreInvariant, PTL

(***************************************************************************)
(* The feed.                                                               *)
(***************************************************************************)
\* What a connection's soundness depends on: the connection, the channel, and
\* what is stored and announced.
LEMMA ConnKept ==
    ASSUME NEW c \in Client, ConnSound(c),
           conns'[c] = conns[c], channel' = channel,
           \A i \in Stored' : Announcing(i)' \/ (i \in Stored /\ ~ Announcing(i))
    PROVE  ConnSound(c)'
<1>1. Position(c)'
  BY DEF ConnSound, Position, Subscribed
<1>2. Received(c)'
  BY DEF ConnSound, Received, ReceivedUpTo
<1>3. SentTo(c)' = SentTo(c) /\ Pending(c)' = Pending(c)
  BY DEF SentTo, Pending
<1>4. (Subscribed(c) => RecentCovered(c))'
  BY <1>3 DEF ConnSound, RecentCovered, Subscribed
<1>5. InOrder(c, ReceivedUpTo(c))'
  BY DEF ConnSound, InOrder, ReceivedUpTo
<1>6. (\A i \in Stored : ~ Misses(c, i))'
  BY <1>3 DEF ConnSound, Misses
<1> QED
  BY <1>1, <1>2, <1>4, <1>5, <1>6 DEF ConnSound

\* A step of the store that sends nothing.
LEMMA FeedKept ==
    ASSUME FeedInv, conns' = conns, channel' = channel, announced' = announced,
           \A i \in Stored' : Announcing(i)' \/ (i \in Stored /\ ~ Announcing(i))
    PROVE  FeedInv'
<1>1. ASSUME NEW c \in Client PROVE ConnSound(c)'
  BY ConnKept DEF FeedInv
<1> QED
  BY <1>1 DEF FeedInv

\* Only one connection changes.
LEMMA OneConn ==
    ASSUME FeedInv, NEW c \in Client, channel' = channel, UNCHANGED storeVars,
           conns' \in [Client -> Conn],
           \A d \in Client \ {c} : conns'[d] = conns[d],
           ConnSound(c)'
    PROVE  FeedInv'
<1>1. Stored' = Stored /\ announced' = announced /\ calls' = calls
  BY DEF storeVars, Stored
<1>2. \A i \in Stored' : Announcing(i)' \/ (i \in Stored /\ ~ Announcing(i))
  BY <1>1 DEF Announcing
<1>3. ASSUME NEW d \in Client PROVE ConnSound(d)'
  <2>1. CASE d = c
    BY <2>1
  <2>2. CASE d # c
    BY <1>2, <2>2, ConnKept DEF FeedInv
  <2> QED
    BY <2>1, <2>2
<1> QED
  BY <1>1, <1>3 DEF FeedInv

\* A connection without history: just opened, just subscribed, or closed.
LEMMA BlankConn ==
    ASSUME NEW c \in Client, Len(channel') \in Nat,
           conns'[c].received = <<>>, conns'[c].taken = None,
           conns'[c].pc # "sending", conns'[c].listed = None,
           conns'[c].next \in Nat, conns'[c].next <= Len(channel'),
           Subscribed(c)' => conns'[c].since = Len(channel')
                                /\ conns'[c].next = Len(channel')
    PROVE  ConnSound(c)'
<1>1. DOMAIN conns'[c].received = {}
  OBVIOUS
<1>2. Position(c)'
  BY DEF Position, Subscribed
<1>3. Received(c)' /\ InOrder(c, ReceivedUpTo(c))'
  BY <1>1 DEF Received, InOrder
<1>4. (Subscribed(c) => RecentCovered(c))'
  BY DEF RecentCovered
<1>5. (\A i \in Stored : ~ Misses(c, i))'
  BY DEF Misses
<1> QED
  BY <1>2, <1>3, <1>4, <1>5 DEF ConnSound

\* Connecting, subscribing and disconnecting.
LEMMA ConnectStep ==
    ASSUME FeedInv, NEW c \in Client,
           ws_upgrade(c) \/ Subscribe(c) \/ Disconnect(c)
    PROVE  FeedInv'
<1>1. channel' = channel /\ UNCHANGED storeVars
  BY DEF ws_upgrade, Subscribe, Disconnect, storeVars
<1>2. channel \in Seq(Id) /\ conns \in [Client -> Conn] /\ Len(channel) \in Nat
  BY DEF FeedInv
<1>3. PICK q \in {Connection("upgraded"), Connection("waiting"), Closed} :
         conns' = [conns EXCEPT ![c] = q]
  BY DEF ws_upgrade, Subscribe, Disconnect
<1>4. q \in Conn
  <2>1. <<>> \in Seq(Id)
    OBVIOUS
  <2>2. Connection("upgraded") \in Conn
    BY <1>2, <2>1 DEF Connection, Conn
  <2>3. Connection("waiting") \in Conn
    BY <1>2, <2>1 DEF Connection, Conn
  <2>4. Closed \in Conn
    BY <2>1 DEF Closed, Conn
  <2> QED
    BY <1>3, <2>2, <2>3, <2>4
<1>5. /\ conns' \in [Client -> Conn]
      /\ conns'[c] = q
      /\ \A d \in Client \ {c} : conns'[d] = conns[d]
  BY <1>2, <1>3, <1>4
<1>6. ConnSound(c)'
  <2>1. /\ q.received = <<>> /\ q.taken = None /\ q.listed = None
        /\ q.pc # "sending"
        /\ q.next \in Nat /\ q.next <= Len(channel)
        /\ q.pc \in {"waiting", "sending", "ponging"} =>
              q.since = Len(channel) /\ q.next = Len(channel)
    BY <1>2, <1>3 DEF Connection, Closed
  <2> QED
    BY <1>1, <1>2, <1>5, <2>1, BlankConn DEF Subscribed
<1> QED
  BY <1>1, <1>5, <1>6, OneConn

\* The types of a connection that is there.
LEMMA ConnFields ==
    ASSUME FeedInv, NEW c \in Client
    PROVE  /\ channel \in Seq(Id) /\ Len(channel) \in Nat
           /\ conns[c].since \in Nat /\ conns[c].next \in Nat
           /\ conns[c].skipped \in Nat
           /\ conns[c].received \in Seq(Id)
           /\ \A k \in 1..Len(channel) : channel[k] \in Id
           /\ ConnSound(c)
BY DEF FeedInv, Conn

\* Lag moves the receiver to the oldest event the ring still holds.
LEMMA LagStep ==
    ASSUME FeedInv, NEW c \in Client, Receive(c), Lagging(c)
    PROVE  FeedInv'
<1> DEFINE at == Len(channel) - RingCapacity
<1>1. channel' = channel /\ UNCHANGED storeVars /\ conns[c].pc = "waiting"
  BY DEF Receive, storeVars
<1>2. /\ at \in Nat /\ conns[c].next < at /\ at <= Len(channel)
      /\ conns[c].next \in Nat /\ conns[c].since \in Nat /\ conns[c].skipped \in Nat
      /\ Len(channel) \in Nat
  BY ConnFields, ReservationAssumption DEF Lagging
<1>3. conns' = [conns EXCEPT ![c].next = at,
                             ![c].skipped = @ + (at - conns[c].next)]
  BY DEF Receive, Recv, ResumeAt
<1>4. /\ conns' \in [Client -> Conn]
      /\ \A d \in Client \ {c} : conns'[d] = conns[d]
  BY <1>2, <1>3 DEF FeedInv, Conn
<1>5. /\ conns'[c].pc = "waiting" /\ conns'[c].since = conns[c].since
      /\ conns'[c].next = at /\ conns'[c].taken = conns[c].taken
      /\ conns'[c].received = conns[c].received /\ conns'[c].listed = conns[c].listed
      /\ conns'[c].skipped = conns[c].skipped + (at - conns[c].next)
  BY <1>1, <1>3 DEF FeedInv, Conn
<1>6. Position(c) /\ Received(c) /\ InOrder(c, ReceivedUpTo(c))
  BY DEF FeedInv, ConnSound
<1>7. Position(c)'
  BY <1>1, <1>2, <1>5, <1>6 DEF Position, Subscribed
<1>8. Received(c)'
  BY <1>1, <1>2, <1>5, <1>6 DEF Received, ReceivedUpTo
<1>9. RecentCovered(c)'
  BY <1>1, <1>2, <1>5, ReservationAssumption DEF RecentCovered, Pending
<1>10. InOrder(c, ReceivedUpTo(c))'
  <2>1. /\ ReceivedUpTo(c) = conns[c].next /\ ReceivedUpTo(c)' = at
        /\ conns[c].since + 1 .. conns[c].next \subseteq conns[c].since + 1 .. at
    BY <1>1, <1>2, <1>5 DEF ReceivedUpTo
  <2> HIDE DEF at
  <2> QED
    BY <1>1, <1>5, <1>6, <2>1 DEF InOrder
<1>11. (\A i \in Stored : ~ Misses(c, i))'
  BY <1>2, <1>5 DEF Misses
<1> QED
  BY <1>1, <1>4, <1>7, <1>8, <1>9, <1>10, <1>11, OneConn DEF ConnSound

\* The next event is taken in hand.
LEMMA TakeStep ==
    ASSUME FeedInv, NEW c \in Client, Receive(c), ~ Lagging(c)
    PROVE  FeedInv'
<1> DEFINE n == conns[c].next
<1>1. /\ channel' = channel /\ UNCHANGED storeVars
      /\ conns[c].pc = "waiting" /\ n < Len(channel)
  BY DEF Receive, storeVars
<1>2. /\ n \in Nat /\ conns[c].since \in Nat /\ Len(channel) \in Nat
      /\ channel[n + 1] \in Id /\ channel[n + 1] # None
  BY <1>1, ConnFields, ReservationAssumption
<1>3. conns' = [conns EXCEPT ![c].pc = "sending", ![c].next = @ + 1,
                             ![c].taken = channel[n + 1]]
  BY DEF Receive, Recv
<1>4. /\ conns' \in [Client -> Conn]
      /\ \A d \in Client \ {c} : conns'[d] = conns[d]
  <2>1. conns \in [Client -> Conn]
    BY DEF FeedInv
  <2>2. \A d \in Client \ {c} : conns'[d] = conns[d]
    BY <1>3, <2>1
  <2>3. conns'[c] \in Conn
    BY <1>2, <1>3, <2>1 DEF Conn
  <2>4. conns' = [d \in Client |-> conns'[d]]
    BY <1>3, <2>1
  <2> QED
    BY <2>1, <2>2, <2>3, <2>4
<1>5. /\ conns'[c].pc = "sending" /\ conns'[c].since = conns[c].since
      /\ conns'[c].next = n + 1 /\ conns'[c].taken = channel[n + 1]
      /\ conns'[c].received = conns[c].received /\ conns'[c].listed = conns[c].listed
      /\ conns'[c].skipped = conns[c].skipped
  BY <1>3 DEF FeedInv, Conn
<1>6. ConnSound(c) /\ conns[c].taken = None
  BY <1>1 DEF FeedInv, ConnSound, Position
<1>7. Position(c)'
  BY <1>1, <1>2, <1>5, <1>6 DEF ConnSound, Position, Subscribed
<1>8. ReceivedUpTo(c)' = ReceivedUpTo(c)
  BY <1>1, <1>2, <1>5 DEF ReceivedUpTo
<1>9. Received(c)' /\ InOrder(c, ReceivedUpTo(c))'
  BY <1>1, <1>5, <1>6, <1>8 DEF ConnSound, Received, InOrder
<1>10. SentTo(c)' \cup Pending(c)' = SentTo(c) \cup Pending(c)
  <2>1. SentTo(c)' = SentTo(c) \cup {channel[n + 1]}
    BY <1>2, <1>5, <1>6 DEF SentTo
  <2>2. Pending(c) = Pending(c)' \cup {channel[n + 1]}
    BY <1>1, <1>2, <1>5 DEF Pending
  <2> QED
    BY <2>1, <2>2
<1>11. RecentCovered(c)'
  BY <1>1, <1>5, <1>6, <1>10 DEF ConnSound, RecentCovered, Subscribed
<1>12. Stored' = Stored /\ calls' = calls
  BY <1>1 DEF storeVars, Stored
<1>13. (\A i \in Stored : ~ Misses(c, i))'
  BY <1>5, <1>6, <1>10, <1>12 DEF ConnSound, Misses, Announcing
<1> QED
  BY <1>1, <1>4, <1>7, <1>9, <1>11, <1>13, OneConn DEF ConnSound

\* The event in hand has reached the peer.
LEMMA DeliverStep ==
    ASSUME FeedInv, NEW c \in Client, Deliver(c)
    PROVE  FeedInv'
<1> DEFINE got == conns[c].received
           e == conns[c].taken
           n == conns[c].next
<1>1. /\ channel' = channel /\ UNCHANGED storeVars
      /\ conns[c].pc = "sending"
  BY DEF Deliver, storeVars
<1>2. ConnSound(c) /\ e # None /\ conns[c].since < n /\ e = channel[n]
      /\ n <= Len(channel)
  BY <1>1 DEF FeedInv, ConnSound, Position
<1>3. /\ n \in Nat /\ conns[c].since \in Nat /\ Len(channel) \in Nat
      /\ got \in Seq(Id) /\ Len(got) \in Nat /\ e \in Id
  BY <1>2, ConnFields
<1>4. conns' = [conns EXCEPT ![c].pc = "waiting", ![c].taken = None,
                             ![c].received = Append(@, e)]
  BY DEF Deliver
<1>5. /\ Append(got, e) \in Seq(Id)
      /\ DOMAIN Append(got, e) = DOMAIN got \cup {Len(got) + 1}
      /\ DOMAIN got = 1..Len(got)
      /\ \A k \in DOMAIN got : Append(got, e)[k] = got[k]
      /\ Append(got, e)[Len(got) + 1] = e
  BY <1>3
<1>6. /\ conns' \in [Client -> Conn]
      /\ \A d \in Client \ {c} : conns'[d] = conns[d]
  <2>1. conns \in [Client -> Conn]
    BY DEF FeedInv
  <2>2. \A d \in Client \ {c} : conns'[d] = conns[d]
    BY <1>4, <2>1
  <2>3. conns'[c] \in Conn
    BY <1>4, <1>5, <2>1 DEF Conn
  <2>4. conns' = [d \in Client |-> conns'[d]]
    BY <1>4, <2>1
  <2> QED
    BY <2>1, <2>2, <2>3, <2>4
<1>7. /\ conns'[c].pc = "waiting" /\ conns'[c].since = conns[c].since
      /\ conns'[c].next = n /\ conns'[c].taken = None
      /\ conns'[c].received = Append(got, e) /\ conns'[c].listed = conns[c].listed
      /\ conns'[c].skipped = conns[c].skipped
  BY <1>4 DEF FeedInv, Conn
<1> HIDE DEF got, e, n
<1>8. Position(c)'
  BY <1>1, <1>2, <1>3, <1>7 DEF ConnSound, Position, Subscribed, n
<1>9. ReceivedUpTo(c)' = n /\ ReceivedUpTo(c) = n - 1
  BY <1>1, <1>7 DEF ReceivedUpTo, n
<1>10. Received(c)'
  <2> SUFFICES ASSUME NEW k \in DOMAIN Append(got, e)
               PROVE  \E m \in conns[c].since + 1 .. n :
                          channel[m] = Append(got, e)[k]
    BY <1>1, <1>7, <1>9 DEF Received
  <2>1. CASE k \in DOMAIN got
    BY <1>2, <1>3, <1>5, <1>9, <2>1 DEF ConnSound, Received, got
  <2>2. CASE k = Len(got) + 1
    BY <1>2, <1>3, <1>5, <2>2
  <2> QED
    BY <1>5, <2>1, <2>2
<1>11. InOrder(c, ReceivedUpTo(c))'
  <2> SUFFICES ASSUME NEW j \in DOMAIN Append(got, e),
                      NEW k \in DOMAIN Append(got, e), j < k
               PROVE  \E m, p \in conns[c].since + 1 .. n :
                          /\ m < p
                          /\ channel[m] = Append(got, e)[j]
                          /\ channel[p] = Append(got, e)[k]
    BY <1>1, <1>7, <1>9 DEF InOrder
  <2>1. j \in DOMAIN got
    BY <1>3, <1>5
  <2>2. CASE k \in DOMAIN got
    <3>1. PICK m, p \in conns[c].since + 1 .. n - 1 :
             m < p /\ channel[m] = got[j] /\ channel[p] = got[k]
      BY <1>2, <1>9, <2>1, <2>2 DEF ConnSound, InOrder, got
    <3> QED
      BY <1>3, <1>5, <2>1, <2>2, <3>1
  <2>3. CASE k = Len(got) + 1
    <3>1. PICK m \in conns[c].since + 1 .. n - 1 : channel[m] = got[j]
      BY <1>2, <1>9, <2>1 DEF ConnSound, Received, got
    <3>2. n \in conns[c].since + 1 .. n /\ m < n /\ channel[n] = e
          /\ m \in conns[c].since + 1 .. n
      BY <1>2, <1>3, <3>1
    <3> QED
      BY <1>5, <2>1, <2>3, <3>1, <3>2
  <2> QED
    BY <1>5, <2>2, <2>3
<1>12. SentTo(c)' = SentTo(c) /\ Pending(c)' = Pending(c)
  <2>1. SentTo(c) = {got[k] : k \in DOMAIN got} \cup {e}
    BY <1>2 DEF SentTo, got, e
  <2>2. SentTo(c)' = {Append(got, e)[k] : k \in DOMAIN Append(got, e)}
    BY <1>7 DEF SentTo
  <2>3. SentTo(c)' = SentTo(c)
    BY <1>5, <2>1, <2>2
  <2> QED
    BY <1>1, <1>7, <2>3 DEF Pending, n
<1>13. RecentCovered(c)'
  BY <1>1, <1>2, <1>7, <1>12 DEF ConnSound, RecentCovered, Subscribed
<1>14. Stored' = Stored /\ calls' = calls
  BY <1>1 DEF storeVars, Stored
<1>15. (\A i \in Stored : ~ Misses(c, i))'
  BY <1>2, <1>7, <1>12, <1>14 DEF ConnSound, Misses, Announcing
<1> QED
  BY <1>1, <1>6, <1>8, <1>10, <1>11, <1>13, <1>15, OneConn DEF ConnSound

\* A ping, a pong and a listing lose no event.
LEMMA PingStep ==
    ASSUME FeedInv, NEW c \in Client, Ping(c) \/ Pong(c) \/ list_records(c)
    PROVE  FeedInv'
<1>1. channel' = channel /\ UNCHANGED storeVars /\ Stored' = Stored /\ calls' = calls
  BY DEF Ping, Pong, list_records, storeVars, Stored
<1>2. ConnSound(c) /\ conns \in [Client -> Conn]
  BY DEF FeedInv
<1>3. /\ conns' \in [Client -> Conn]
      /\ \A d \in Client \ {c} : conns'[d] = conns[d]
  <2>1. Stored \in SUBSET Id
    BY DEF Stored
  <2>2. CASE Ping(c) \/ Pong(c)
    <3>1. PICK stage \in {"waiting", "ponging"} :
             conns' = [conns EXCEPT ![c].pc = stage]
      BY <2>2 DEF Ping, Pong
    <3> QED
      BY <1>2, <3>1 DEF Conn
  <2>3. CASE list_records(c)
    <3>1. conns' = [conns EXCEPT ![c].listed = Stored]
      BY <2>3 DEF list_records
    <3>2. Stored \in (SUBSET Id) \cup {None}
      BY <2>1
    <3> HIDE DEF Stored
    <3> QED
      BY <1>2, <3>1, <3>2 DEF Conn
  <2> QED
    BY <2>2, <2>3
<1>4. /\ conns'[c].since = conns[c].since /\ conns'[c].next = conns[c].next
      /\ conns'[c].taken = conns[c].taken /\ conns'[c].received = conns[c].received
      /\ conns'[c].skipped = conns[c].skipped
      /\ conns'[c].pc = "sending" <=> conns[c].pc = "sending"
      /\ Subscribed(c) /\ Subscribed(c)'
      /\ conns'[c].listed = conns[c].listed \/ conns'[c].listed = Stored
  BY <1>2 DEF Ping, Pong, list_records, Conn, Subscribed
<1>5. Position(c)'
  BY <1>1, <1>2, <1>4 DEF ConnSound, Position
<1>6. ReceivedUpTo(c)' = ReceivedUpTo(c)
  BY <1>4 DEF ReceivedUpTo
<1>7. Received(c)' /\ InOrder(c, ReceivedUpTo(c))'
  BY <1>1, <1>2, <1>4, <1>6 DEF ConnSound, Received, InOrder
<1>8. SentTo(c)' = SentTo(c) /\ Pending(c)' = Pending(c)
  BY <1>1, <1>4 DEF SentTo, Pending
<1>9. RecentCovered(c)'
  BY <1>1, <1>2, <1>4, <1>8 DEF ConnSound, RecentCovered
<1>10. (\A i \in Stored : ~ Misses(c, i))'
  BY <1>1, <1>2, <1>4, <1>8 DEF ConnSound, Misses, Announcing
<1> QED
  BY <1>1, <1>3, <1>5, <1>7, <1>9, <1>10, OneConn DEF ConnSound

\* Steps of requests that send nothing.
LEMMA QuietRequest ==
    ASSUME StoreInv, FeedInv, NEW t \in Task,
           (\E input \in Input : create_record(t, input)) \/ Store(t) \/ Abandon(t)
    PROVE  FeedInv'
<1>1. conns' = conns /\ channel' = channel /\ announced' = announced
  BY DEF create_record, Store, Abandon
<1>2. calls \in [Task -> Call] /\ calls[t].pc # "send"
  BY DEF StoreInv, StoreTypes, create_record, Store, Abandon, Free
<1>3. \A u \in Task \ {t} : calls'[u] = calls[u]
  BY <1>2 DEF create_record, Store, Abandon, Answer
<1>4. \A i : Announcing(i) => Announcing(i)'
  BY <1>2, <1>3 DEF Announcing
<1>5. ASSUME NEW i \in Stored', i \notin Stored PROVE Announcing(i)'
  <2>1. /\ Store(t) /\ ~ AtCapacity
        /\ records' = [records EXCEPT ![calls[t].id] = calls[t].record]
    BY <1>5 DEF create_record, Store, Abandon, Stored
  <2>2. i = calls[t].id
    BY <1>5, <2>1 DEF Stored, StoreInv, StoreTypes
  <2>3. calls'[t].pc = "send" /\ calls'[t].id = i
    BY <1>2, <2>1, <2>2 DEF Store
  <2> QED
    BY <2>3 DEF Announcing
<1> QED
  BY <1>1, <1>4, <1>5, FeedKept

\* The event goes to everyone who is subscribed.
LEMMA SendStep ==
    ASSUME StoreInv, FeedInv, NEW t \in Task, Announce(t)
    PROVE  FeedInv'
<1> DEFINE i == calls[t].id
<1>1. /\ conns' = conns /\ announced' = announced \cup {i}
      /\ calls[t].pc = "send" /\ SendEvent(i) /\ Stored' = Stored
  BY DEF Announce, Stored
<1>2. i \in Id /\ calls \in [Task -> Call]
  BY <1>1 DEF StoreInv, StoreTypes, CallSound, Busy
<1>3. \A j : Announcing(j) => Announcing(j)' \/ j = i
  BY <1>2 DEF Announce, Answer, Announcing
<1>4. channel \in Seq(Id) /\ Len(channel) \in Nat
      /\ \A k \in 1..Len(channel) : channel[k] \in announced
  BY DEF FeedInv
<1>5. CASE \A c \in Client : ~ Subscribed(c)
  <2>1. channel' = channel
    BY <1>1, <1>5 DEF SendEvent
  <2>2. ASSUME NEW c \in Client PROVE ConnSound(c)'
    <3>1. ConnSound(c) /\ ~ Subscribed(c)
      BY <1>5 DEF FeedInv
    <3>2. conns[c].listed = None
      BY <3>1 DEF ConnSound, Position
    <3>3. Position(c)' /\ Received(c)' /\ InOrder(c, ReceivedUpTo(c))'
          /\ ~ Subscribed(c)'
      BY <1>1, <2>1, <3>1
         DEF ConnSound, Position, Received, InOrder, ReceivedUpTo, Subscribed
    <3>4. (\A j \in Stored : ~ Misses(c, j))'
      BY <1>1, <3>2 DEF Misses
    <3> QED
      BY <3>3, <3>4 DEF ConnSound
  <2> QED
    BY <1>1, <2>1, <2>2 DEF FeedInv
<1>6. CASE \E c \in Client : Subscribed(c)
  <2>1. channel' = Append(channel, i)
    BY <1>1, <1>6 DEF SendEvent
  <2>2. /\ channel' \in Seq(Id) /\ Len(channel') = Len(channel) + 1
        /\ \A k \in 1..Len(channel) : channel'[k] = channel[k]
        /\ channel'[Len(channel) + 1] = i
    BY <1>2, <1>4, <2>1
  <2>3. \A k \in 1..Len(channel') : channel'[k] \in announced'
    BY <1>1, <1>4, <2>2
  <2>4. ASSUME NEW c \in Client PROVE ConnSound(c)'
    <3> DEFINE s == conns[c].since
               n == conns[c].next
    <3>1. ConnSound(c) /\ s \in Nat /\ n \in Nat /\ n <= Len(channel)
      BY ConnFields DEF ConnSound, Position
    <3>2. Position(c)'
      BY <1>1, <1>4, <2>2, <3>1 DEF ConnSound, Position, Subscribed
    <3>3. /\ ReceivedUpTo(c)' = ReceivedUpTo(c)
          /\ \A m \in s + 1 .. ReceivedUpTo(c) : channel'[m] = channel[m]
      BY <1>1, <1>4, <2>2, <3>1 DEF ReceivedUpTo
    <3>4. Received(c)'
      BY <1>1, <3>1, <3>3 DEF ConnSound, Received
    <3>5. InOrder(c, ReceivedUpTo(c))'
      <4>1. InOrder(c, ReceivedUpTo(c))
        BY <3>1 DEF ConnSound
      <4> QED
        BY <1>1, <3>3, <4>1 DEF InOrder
    <3>6. SentTo(c)' = SentTo(c) /\ Pending(c)' = Pending(c) \cup {i}
      <4>1. n + 1 .. Len(channel') = (n + 1 .. Len(channel)) \cup {Len(channel) + 1}
        BY <1>4, <2>2, <3>1
      <4>2. \A k \in n + 1 .. Len(channel) : channel'[k] = channel[k]
        BY <1>4, <2>2, <3>1
      <4>3. Pending(c)' = {channel'[k] : k \in n + 1 .. Len(channel')}
        BY <1>1 DEF Pending
      <4>4. Pending(c) = {channel[k] : k \in n + 1 .. Len(channel)}
        BY DEF Pending
      <4> HIDE DEF n, i
      <4>5. {channel'[k] : k \in n + 1 .. Len(channel')}
               = {channel[k] : k \in n + 1 .. Len(channel)}
                    \cup {channel'[Len(channel) + 1]}
        BY <4>1, <4>2
      <4>6. Pending(c)' = Pending(c) \cup {i}
        BY <2>2, <4>3, <4>4, <4>5
      <4> QED
        BY <1>1, <4>6 DEF SentTo
    <3>7. (Subscribed(c) => RecentCovered(c))'
      <4>1. /\ Subscribed(c)' => Subscribed(c)
            /\ conns'[c].since = s
        BY <1>1 DEF Subscribed
      <4>2. ASSUME Subscribed(c), NEW k \in s + 1 .. Len(channel'),
                   k > Len(channel') - RingCapacity
            PROVE  channel'[k] \in SentTo(c)' \cup Pending(c)'
        <5>1. CASE k = Len(channel) + 1
          BY <2>2, <3>6, <5>1
        <5>2. CASE k # Len(channel) + 1
          <6>1. /\ k \in s + 1 .. Len(channel) /\ k \in 1..Len(channel)
                /\ k > Len(channel) - RingCapacity
            BY <1>4, <2>2, <3>1, <4>2, <5>2, ReservationAssumption
          <6>2. channel'[k] = channel[k]
            BY <2>2, <6>1
          <6> QED
            BY <3>1, <3>6, <4>2, <6>1, <6>2 DEF ConnSound, RecentCovered
        <5> QED
          BY <5>1, <5>2
      <4> QED
        BY <4>1, <4>2 DEF RecentCovered
    <3>8. (\A j \in Stored : ~ Misses(c, j))'
      BY <1>1, <1>3, <3>1, <3>6 DEF ConnSound, Misses
    <3> QED
      BY <3>2, <3>4, <3>5, <3>7, <3>8 DEF ConnSound
  <2> QED
    BY <1>1, <2>2, <2>3, <2>4 DEF FeedInv
<1> QED
  BY <1>5, <1>6

\* Every step keeps the feed's invariant.
LEMMA FeedNext ==
    ASSUME StoreInv, FeedInv, [Next]_vars
    PROVE  FeedInv'
<1>1. CASE UNCHANGED vars
  <2>1. /\ UNCHANGED <<records, calls, conns, channel, announced>>
        /\ Stored' = Stored
    BY <1>1 DEF vars, Stored
  <2>2. \A i \in Stored' : Announcing(i)' \/ (i \in Stored /\ ~ Announcing(i))
    BY <2>1 DEF Announcing
  <2> QED
    BY <2>1, <2>2, FeedKept
<1>2. ASSUME NEW c \in Client, ConnStep(c) PROVE FeedInv'
  BY <1>2, ConnectStep, LagStep, TakeStep, DeliverStep, PingStep DEF ConnStep
<1>3. ASSUME NEW t \in Task, Announce(t) PROVE FeedInv'
  BY <1>3, SendStep
<1>4. ASSUME NEW t \in Task,
             (\E input \in Input : create_record(t, input)) \/ Store(t) \/ Abandon(t)
      PROVE  FeedInv'
  BY <1>4, QuietRequest
<1> QED
  BY <1>1, <1>2, <1>3, <1>4 DEF Next, ConnStep

\* Nobody is connected at first.
LEMMA FeedInit ==
    ASSUME Init
    PROVE  FeedInv
<1>1. channel = <<>> /\ channel \in Seq(Id) /\ Len(channel) = 0
  BY DEF Init
<1>2. <<>> \in Seq(Id) /\ DOMAIN <<>> = {}
  OBVIOUS
<1>3. conns \in [Client -> Conn] /\ \A c \in Client : conns[c] = Closed
  <2>1. Closed \in Conn
    BY <1>2 DEF Closed, Conn
  <2> QED
    BY <2>1 DEF Init
<1>4. ASSUME NEW c \in Client PROVE ConnSound(c)
  <2>1. Position(c)
    BY <1>1, <1>3 DEF Position, Subscribed, Closed
  <2>2. Received(c) /\ InOrder(c, ReceivedUpTo(c))
    <3>1. DOMAIN conns[c].received = {}
      BY <1>2, <1>3 DEF Closed
    <3> QED
      BY <3>1 DEF Received, InOrder
  <2>3. Subscribed(c) => RecentCovered(c)
    BY <1>3 DEF Subscribed, Closed
  <2>4. \A i \in Stored : ~ Misses(c, i)
    BY <1>3 DEF Misses, Closed
  <2> QED
    BY <2>1, <2>2, <2>3, <2>4 DEF ConnSound
<1> QED
  BY <1>1, <1>3, <1>4 DEF FeedInv

\* FeedInv is an invariant.
LEMMA FeedInvariant == Spec => []FeedInv
<1>1. Init => FeedInv
  BY FeedInit
<1>2. StoreInv /\ FeedInv /\ [Next]_vars => FeedInv'
  BY FeedNext
<1> QED
  BY <1>1, <1>2, StoreInvariant, PTL DEF Spec

\* Types; a request at the send has stored its record and not announced it, and
\* no receiver is ahead of its channel.
THEOREM ReservationTypes == Spec => []TypeOK
<1>1. ASSUME StoreInv, FeedInv PROVE TypeOK
  <2>1. announced \subseteq Id
    BY <1>1 DEF StoreInv, Stored
  <2>2. \A t \in Task : calls[t].pc = "send" => calls[t].id \in Stored \ announced
    BY <1>1 DEF StoreInv, CallSound
  <2>3. \A c \in Client :
          /\ conns[c].pc = "sending" <=> conns[c].taken # None
          /\ Subscribed(c) => conns[c].since <= conns[c].next
          /\ conns[c].next <= Len(channel)
    BY <1>1 DEF FeedInv, ConnSound, Position
  <2> QED
    BY <1>1, <2>1, <2>2, <2>3 DEF StoreInv, StoreTypes, FeedInv, TypeOK
<1> QED
  BY <1>1, StoreInvariant, FeedInvariant, PTL

\* Whoever learns of a reservation, by the answer or by an event, can read it.
THEOREM ReadableOnceAnnounced == Spec => []AnnouncedIsReadable
<1>1. ASSUME StoreInv, FeedInv PROVE AnnouncedIsReadable
  <2>1. \A i \in announced : get_record(i) = "Found"
    BY <1>1 DEF StoreInv, get_record, require_demo_reservations
  <2>2. ASSUME NEW c \in Client PROVE SentTo(c) \cup Pending(c) \subseteq announced
    <3>1. /\ Len(channel) \in Nat /\ conns[c].since \in Nat /\ conns[c].next \in Nat
          /\ conns[c].next <= Len(channel) /\ ConnSound(c)
      BY <1>1, ConnFields DEF ConnSound, Position
    <3>2. \A k \in 1..Len(channel) : channel[k] \in announced
      BY <1>1 DEF FeedInv
    <3>3. Pending(c) \subseteq announced
      BY <3>1, <3>2 DEF Pending
    <3>4. conns[c].taken # None => conns[c].taken \in announced
      BY <3>1, <3>2 DEF ConnSound, Position
    <3>5. ASSUME NEW k \in DOMAIN conns[c].received
          PROVE  conns[c].received[k] \in announced
      <4>1. PICK m \in conns[c].since + 1 .. ReceivedUpTo(c) :
               channel[m] = conns[c].received[k]
        BY <3>1 DEF ConnSound, Received
      <4>2. m \in 1..Len(channel)
        BY <3>1 DEF ReceivedUpTo
      <4> QED
        BY <3>2, <4>1, <4>2
    <3> QED
      BY <3>3, <3>4, <3>5 DEF SentTo
  <2> QED
    BY <2>1, <2>2 DEF AnnouncedIsReadable
<1> QED
  BY <1>1, StoreInvariant, FeedInvariant, PTL

\* Lag costs a connection no more than the ring forgot: the last RingCapacity
\* events reach it, and all it is sent comes once and in order.
THEOREM StreamsIntact == Spec => []StreamIntact
<1>1. ASSUME FeedInv PROVE StreamIntact
  <2> SUFFICES ASSUME NEW c \in Client, Subscribed(c)
               PROVE  RecentCovered(c) /\ InOrder(c, conns[c].next)
    BY DEF StreamIntact
  <2>1. ConnSound(c) /\ conns[c].since \in Nat /\ conns[c].next \in Nat
    BY <1>1, ConnFields
  <2>2. conns[c].since + 1 .. ReceivedUpTo(c)
           \subseteq conns[c].since + 1 .. conns[c].next
    BY <2>1 DEF ReceivedUpTo
  <2>3. InOrder(c, ReceivedUpTo(c))
    BY <2>1 DEF ConnSound
  <2>4. InOrder(c, conns[c].next)
    BY <2>2, <2>3 DEF InOrder
  <2> QED
    BY <2>1, <2>4 DEF ConnSound
<1> QED
  BY <1>1, FeedInvariant, PTL

\* Subscribe, then list, misses no reservation, whatever requests are between
\* the lock and the send at the time.
THEOREM ListingPlusStream == Spec => []SnapshotPlusStream
<1>1. FeedInv => SnapshotPlusStream
  BY DEF FeedInv, ConnSound, Misses, SnapshotPlusStream
<1> QED
  BY <1>1, FeedInvariant, PTL
=============================================================================
