-------------------------- MODULE ReservationEvents --------------------------
(***************************************************************************)
(* The demo reservations of src/main.rs: create_record, list_records and   *)
(* the WebSocket feed of reservation.created events.                       *)
(*                                                                         *)
(* create_record stores the record under the write lock, releases the      *)
(* lock, and then sends the event: two steps, with other requests between  *)
(* them.  A connection is answered 101 before its task subscribes to the   *)
(* channel; its loop then selects between the channel and the socket, and  *)
(* stays inside sender.send for as long as the peer does not read.         *)
(*                                                                         *)
(* Abstracted data: a text is its surrounding white space and its own      *)
(* length, a status its padding, its case and its word, an instant an      *)
(* integer, an event the identifier of its reservation.  A listing is the  *)
(* set of the records it shows, which its order (created_at, fixed when    *)
(* the record is built) depends on alone.                                  *)
(***************************************************************************)
EXTENDS Integers, Sequences, FiniteSets

CONSTANTS
    Task,                 \* concurrent create_record requests
    Client,               \* WebSocket peers
    Id,                   \* what Uuid::new_v4 may return
    Input,                \* request bodies
    RequiredField,        \* member_name, room_type, workspace_plan
    MaxChars,             \* their limits, by field
    MaxNotesChars, MaxStay,
    ReservationStatus,    \* RESERVATION_STATUSES
    MaxDemoReservations,
    RingCapacity,         \* broadcast::channel(512)
    None

Text == [padding: Nat, chars: Nat]

Status == [padding: Nat, uppercase: BOOLEAN, word: STRING]

CreateReservation ==
    [text: [RequiredField -> Text], notes: Text, status: Status,
     check_in: Int, check_out: Int]

ASSUME ReservationAssumption ==
    /\ Input \subseteq CreateReservation
    /\ ReservationStatus \subseteq STRING
    /\ MaxChars \in [RequiredField -> Nat]
    /\ MaxNotesChars \in Nat
    /\ MaxStay \in Nat
    /\ MaxDemoReservations \in Nat
    /\ RingCapacity \in Nat \ {0}
    /\ None \notin CreateReservation
    /\ None \notin Id

VARIABLES
    demo_reservations_enabled,
    records,      \* AppState.records by identifier, or None
    channel,      \* everything sent on AppState.events; its tail is the ring
    calls,        \* create_record requests in progress, or answered, by task
    conns,        \* WebSocket connections by client
    announced     \* history: identifiers whose event was handed to send

vars == <<demo_reservations_enabled, records, channel, calls, conns, announced>>

Call ==
    [pc: {"idle", "write_lock", "send", "done"}, id: Id \cup {None},
     record: CreateReservation \cup {None},
     answer: {"none", "Created", "Forbidden", "Invalid", "SerializationFailed",
              "CapacityReached"}]

\* since: length of the channel when the connection subscribed; next: how far
\* its receiver has read; taken: the event being written to the socket.
\* History: received is what the peer was sent, skipped how many events lag
\* cost it, listed its last listing made while subscribed.
Conn ==
    [pc: {"closed", "upgraded", "waiting", "sending", "ponging"},
     since: Nat, next: Nat, taken: Id \cup {None},
     received: Seq(Id), skipped: Nat, listed: (SUBSET Id) \cup {None}]

IdleCall == [pc |-> "idle", id |-> None, record |-> None, answer |-> "none"]

Connection(pc) ==
    [pc |-> pc, since |-> Len(channel), next |-> Len(channel), taken |-> None,
     received |-> <<>>, skipped |-> 0, listed |-> None]

Closed ==
    [pc |-> "closed", since |-> 0, next |-> 0, taken |-> None,
     received |-> <<>>, skipped |-> 0, listed |-> None]

Stored == {i \in Id : records[i] # None}

Subscribed(c) == conns[c].pc \in {"waiting", "sending", "ponging"}

\* The flag is read from the environment once, at start-up.
Init ==
    /\ demo_reservations_enabled \in BOOLEAN
    /\ records = [i \in Id |-> None]
    /\ channel = <<>>
    /\ calls = [t \in Task |-> IdleCall]
    /\ conns = [c \in Client |-> Closed]
    /\ announced = {}

\* Every route of the demo asks this first.
require_demo_reservations == demo_reservations_enabled

(***************************************************************************)
(* create_record.                                                          *)
(***************************************************************************)
Trim(text) == [padding |-> 0, chars |-> text.chars]

Length(text) == text.padding + text.chars

normalize(input) ==
    [text      |-> [f \in RequiredField |-> Trim(input.text[f])],
     notes     |-> Trim(input.notes),
     status    |-> [padding |-> 0, uppercase |-> FALSE,
                    word |-> input.status.word],
     check_in  |-> input.check_in,
     check_out |-> input.check_out]

validate_required_text(f, text) == Length(text) \in 1..MaxChars[f]

KnownStatus(status) ==
    \E word \in ReservationStatus :
        status = [padding |-> 0, uppercase |-> FALSE, word |-> word]

\* Mutant: a stay of no length passes.
ValidateEmptyStay(input) ==
    /\ \A f \in RequiredField : validate_required_text(f, input.text[f])
    /\ Length(input.notes) <= MaxNotesChars
    /\ input.check_in <= input.check_out
    /\ input.check_out - input.check_in <= MaxStay
    /\ KnownStatus(input.status)

validate(input) ==
    /\ \A f \in RequiredField : validate_required_text(f, input.text[f])
    /\ Length(input.notes) <= MaxNotesChars
    /\ input.check_in < input.check_out
    /\ input.check_out - input.check_in <= MaxStay
    /\ KnownStatus(input.status)

Free(t) == calls[t].pc \in {"idle", "done"}

Answer(t, answer) ==
    calls' = [calls EXCEPT ![t] = [pc |-> "done", id |-> None,
                                   record |-> None, answer |-> answer]]

\* Version 4 identifiers do not repeat.
NewId == {i \in Id \ Stored : \A t \in Task : calls[t].id # i}

\* The part of create_record before the lock.  The event is serialized here,
\* so that a failure leaves nothing stored.
create_record(t, input) ==
    /\ Free(t)
    /\ \/ /\ ~require_demo_reservations
          /\ Answer(t, "Forbidden")
       \/ /\ require_demo_reservations
          /\ ~validate(normalize(input))
          /\ Answer(t, "Invalid")
       \/ /\ require_demo_reservations
          /\ validate(normalize(input))
          /\ \/ Answer(t, "SerializationFailed")
             \/ \E i \in NewId :
                   calls' = [calls EXCEPT ![t] =
                                [pc |-> "write_lock", id |-> i,
                                 record |-> normalize(input), answer |-> "none"]]
    /\ UNCHANGED <<demo_reservations_enabled, records, channel, conns, announced>>

\* Mutant: the capacity test lets one record too many in.
OverCapacity == Cardinality(Stored) > MaxDemoReservations

AtCapacity == Cardinality(Stored) >= MaxDemoReservations

\* Mutant: the record is to be inserted once its event is out.
StoreAfterSend(t) ==
    /\ calls[t].pc = "write_lock"
    /\ ~AtCapacity
    /\ calls' = [calls EXCEPT ![t] =
                    [pc |-> "send", id |-> calls[t].id,
                     record |-> None, answer |-> "none"]]
    /\ UNCHANGED <<demo_reservations_enabled, records, channel, conns, announced>>

\* Mutant: no event is made when nobody is subscribed at the time of storing.
StoreQuietly(t) ==
    /\ calls[t].pc = "write_lock"
    /\ ~AtCapacity
    /\ records' = [records EXCEPT ![calls[t].id] = calls[t].record]
    /\ IF \E c \in Client : Subscribed(c)
       THEN calls' = [calls EXCEPT ![t] =
                         [pc |-> "send", id |-> calls[t].id,
                          record |-> None, answer |-> "none"]]
       ELSE Answer(t, "Created")
    /\ UNCHANGED <<demo_reservations_enabled, channel, conns, announced>>

\* The stretch under the write lock.
Store(t) ==
    /\ calls[t].pc = "write_lock"
    /\ \/ /\ AtCapacity
          /\ Answer(t, "CapacityReached")
          /\ UNCHANGED records
       \/ /\ ~AtCapacity
          /\ records' = [records EXCEPT ![calls[t].id] = calls[t].record]
          /\ calls' = [calls EXCEPT ![t] =
                          [pc |-> "send", id |-> calls[t].id,
                           record |-> None, answer |-> "none"]]
    /\ UNCHANGED <<demo_reservations_enabled, channel, conns, announced>>

\* events.send: without a receiver the event is dropped, and the error with it.
SendEvent(i) ==
    channel' = IF \E c \in Client : Subscribed(c) THEN Append(channel, i)
                                                  ELSE channel

\* After the lock is released: the event goes out and the request is answered.
Announce(t) ==
    /\ calls[t].pc = "send"
    /\ SendEvent(calls[t].id)
    /\ announced' = announced \cup {calls[t].id}
    /\ Answer(t, "Created")
    /\ UNCHANGED <<demo_reservations_enabled, records, conns>>

\* The peer goes away and the handler is dropped: it can only be at the one
\* await of create_record.
Abandon(t) ==
    /\ calls[t].pc = "write_lock"
    /\ calls' = [calls EXCEPT ![t] = IdleCall]
    /\ UNCHANGED <<demo_reservations_enabled, records, channel, conns, announced>>

(***************************************************************************)
(* The WebSocket feed and the listing.                                     *)
(***************************************************************************)
\* ws_upgrade: the peer has its 101, the task is yet to run.
ws_upgrade(c) ==
    /\ conns[c].pc = "closed"
    /\ require_demo_reservations
    /\ conns' = [conns EXCEPT ![c] = Connection("upgraded")]
    /\ UNCHANGED <<demo_reservations_enabled, records, channel, calls, announced>>

\* The first lines of websocket: the receiver starts at the channel's tail.
Subscribe(c) ==
    /\ conns[c].pc = "upgraded"
    /\ conns' = [conns EXCEPT ![c] = Connection("waiting")]
    /\ UNCHANGED <<demo_reservations_enabled, records, channel, calls, announced>>

Lagging(c) == Len(channel) - conns[c].next > RingCapacity

\* Where a receiver that fell out of the ring goes on: the oldest event kept.
ResumeAt == Len(channel) - RingCapacity

\* Mutant: a lagging receiver is told so without being moved.
StayLagging(c) ==
    /\ ~Lagging(c)
    /\ conns' = [conns EXCEPT ![c].pc = "sending", ![c].next = @ + 1,
                              ![c].taken = channel[conns[c].next + 1]]

\* Mutant: a lagging connection subscribes anew.
ResubscribeOnLag(c) ==
    \/ /\ Lagging(c)
       /\ conns' = [conns EXCEPT
                       ![c].next = Len(channel),
                       ![c].skipped = @ + (Len(channel) - conns[c].next)]
    \/ StayLagging(c)

\* recv answers Lagged, moving the receiver, or the next event.
Recv(c) ==
    \/ /\ Lagging(c)
       /\ conns' = [conns EXCEPT ![c].next = ResumeAt,
                                 ![c].skipped = @ + (ResumeAt - conns[c].next)]
    \/ /\ ~Lagging(c)
       /\ conns' = [conns EXCEPT ![c].pc = "sending", ![c].next = @ + 1,
                                 ![c].taken = channel[conns[c].next + 1]]

\* The channel's branch of the select.
Receive(c) ==
    /\ conns[c].pc = "waiting"
    /\ conns[c].next < Len(channel)
    /\ Recv(c)
    /\ UNCHANGED <<demo_reservations_enabled, records, channel, calls, announced>>

\* sender.send returns, and the loop goes round.
Deliver(c) ==
    /\ conns[c].pc = "sending"
    /\ conns' = [conns EXCEPT ![c].pc = "waiting", ![c].taken = None,
                              ![c].received = Append(@, conns[c].taken)]
    /\ UNCHANGED <<demo_reservations_enabled, records, channel, calls, announced>>

\* Mutant: the branch that lost the select had already taken an event.
PingLosingEvent(c) ==
    /\ conns[c].pc = "waiting"
    /\ conns' = [conns EXCEPT ![c].pc = "ponging",
                              ![c].next = IF @ < Len(channel) THEN @ + 1 ELSE @]
    /\ UNCHANGED <<demo_reservations_enabled, records, channel, calls, announced>>

\* The socket's branch of the select: a ping, to be answered by a pong.  (Other
\* messages are ignored.)
Ping(c) ==
    /\ conns[c].pc = "waiting"
    /\ conns' = [conns EXCEPT ![c].pc = "ponging"]
    /\ UNCHANGED <<demo_reservations_enabled, records, channel, calls, announced>>

Pong(c) ==
    /\ conns[c].pc = "ponging"
    /\ conns' = [conns EXCEPT ![c].pc = "waiting"]
    /\ UNCHANGED <<demo_reservations_enabled, records, channel, calls, announced>>

\* The peer closes, the socket errs, or a send fails: the task ends and its
\* receiver is dropped.
Disconnect(c) ==
    /\ conns[c].pc # "closed"
    /\ conns' = [conns EXCEPT ![c] = Closed]
    /\ UNCHANGED <<demo_reservations_enabled, records, channel, calls, announced>>

\* The peer lists the reservations while it is subscribed.
list_records(c) ==
    /\ require_demo_reservations
    /\ Subscribed(c)
    /\ conns' = [conns EXCEPT ![c].listed = Stored]
    /\ UNCHANGED <<demo_reservations_enabled, records, channel, calls, announced>>

\* The answer to a client that reads reservation i.
get_record(i) ==
    IF ~require_demo_reservations THEN "Forbidden"
    ELSE IF i \notin Stored THEN "NotFound" ELSE "Found"

Handler(t) == Store(t) \/ Announce(t)

Next ==
    \/ \E t \in Task :
          \/ \E input \in Input : create_record(t, input)
          \/ Store(t)
          \/ Announce(t)
          \/ Abandon(t)
    \/ \E c \in Client :
          \/ ws_upgrade(c)
          \/ Subscribe(c)
          \/ Receive(c)
          \/ Deliver(c)
          \/ Ping(c)
          \/ Pong(c)
          \/ Disconnect(c)
          \/ list_records(c)

\* The runtime keeps polling every task, and select! polls its branches in
\* random order, so a connection whose peer never stops pinging still gets to
\* its events.  Nothing makes a peer read: sender.send is not fair.
Fairness ==
    /\ \A t \in Task : WF_vars(Handler(t))
    /\ \A c \in Client : WF_vars(Subscribe(c)) /\ SF_vars(Receive(c))

Spec == Init /\ [][Next]_vars /\ Fairness

(***************************************************************************)
(* Properties.                                                             *)
(***************************************************************************)
\* Types; a request at the send has stored its record, a connection that
\* writes has an event in hand, and no receiver is ahead of its channel.
TypeOK ==
    /\ demo_reservations_enabled \in BOOLEAN
    /\ records \in [Id -> CreateReservation \cup {None}]
    /\ channel \in Seq(Id)
    /\ calls \in [Task -> Call]
    /\ conns \in [Client -> Conn]
    /\ announced \subseteq Id
    /\ \A t \in Task : calls[t].pc = "send" => calls[t].id \in Stored \ announced
    /\ \A c \in Client :
          /\ conns[c].pc = "sending" <=> conns[c].taken # None
          /\ Subscribed(c) => conns[c].since <= conns[c].next
          /\ conns[c].next <= Len(channel)

\* What a reservation looks like once it is checked.
Valid(record) ==
    /\ \A f \in RequiredField :
          /\ record.text[f].padding = 0
          /\ record.text[f].chars \in 1..MaxChars[f]
    /\ record.notes.padding + record.notes.chars <= MaxNotesChars
    /\ record.check_out - record.check_in \in 1..MaxStay
    /\ KnownStatus(record.status)

\* validate after normalize: whatever was posted, a stored reservation is
\* trimmed, its texts are within bounds after trimming, its stay is positive
\* and at most MAX_STAY_DAYS, and its status is one of the known words.
StoredAreValid == \A i \in Stored : Valid(records[i])

\* The store never outgrows MAX_DEMO_RESERVATIONS, although any number of
\* requests pass every other check before they get to the lock.
CapacityHolds == Cardinality(Stored) <= MaxDemoReservations

\* The positions of the channel a peer has been, or is being, sent.
SentTo(c) ==
    {conns[c].received[k] : k \in DOMAIN conns[c].received}
        \cup ({conns[c].taken} \ {None})

Pending(c) == {channel[k] : k \in conns[c].next + 1 .. Len(channel)}

\* Whoever learns of a reservation can read it, now and later: the client that
\* was answered 201, and every peer an event about it reached or will reach.
AnnouncedIsReadable ==
    /\ \A i \in announced : get_record(i) = "Found"
    /\ \A c \in Client : SentTo(c) \cup Pending(c) \subseteq announced

\* Of the events since c subscribed, the last RingCapacity are sent to it or
\* still ahead of it.
RecentCovered(c) ==
    \A k \in conns[c].since + 1 .. Len(channel) :
        k > Len(channel) - RingCapacity => channel[k] \in SentTo(c) \cup Pending(c)

\* What c received stands in the same order among the events up to position end.
InOrder(c, end) ==
    \A j, k \in DOMAIN conns[c].received : j < k =>
        \E m, n \in conns[c].since + 1 .. end :
            /\ m < n
            /\ channel[m] = conns[c].received[j]
            /\ channel[n] = conns[c].received[k]

\* Lag (README: "skip dropped broadcast items and continue receiving
\* subsequent events"): whatever a connection was doing, of the events since
\* it subscribed the last RingCapacity are sent to it or still ahead of it, and
\* what it was sent it was sent once, in the order of the channel.
StreamIntact ==
    \A c \in Client :
        Subscribed(c) => RecentCovered(c) /\ InOrder(c, conns[c].next)

Announcing(i) == \E t \in Task : calls[t].pc = "send" /\ calls[t].id = i

\* A peer that lists the reservations after it subscribed misses none: every
\* stored reservation is in the listing, was sent to it, waits for it in the
\* channel, or is one whose handler has yet to send, unless the peer lagged.
\* It rests on create_record storing before it sends, and on recv losing
\* nothing when the other branch of the select wins.
SnapshotPlusStream ==
    \A c \in Client :
        (conns[c].listed # None /\ conns[c].skipped = 0) =>
            \A i \in Stored :
                \/ i \in conns[c].listed
                \/ i \in SentTo(c) \cup Pending(c)
                \/ Announcing(i)

\* Every stored reservation is announced, although the peer that posted it
\* may go away at any await of its handler.
StoredIsAnnounced ==
    \A i \in Id : (records[i] # None) ~> (i \in announced)

\* A connection whose loop keeps coming round, however often it lagged or was
\* pinged, catches up with the channel.
StreamKeepsUp ==
    \A c \in Client :
        []<>(conns[c].pc = "waiting")
            => []<>(conns[c].pc = "waiting" /\ conns[c].next = Len(channel))
=============================================================================
