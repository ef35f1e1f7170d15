--------------------------- MODULE BlynkConnection ---------------------------
(***************************************************************************)
(* Commands and their results across connections to Blynk:                 *)
(* blynk_connection_support.cpp with the loop of blynk_service.cpp, the    *)
(* result reservations and the projection of blynk_remote_support.cpp, and *)
(* the check that ControlTask makes when it drains Blynk's mailbox.        *)
(*                                                                         *)
(* Three tasks meet here.  The MQTT client's task runs the callbacks;      *)
(* BlynkTask polls, handles what came in, observes snapshots, publishes    *)
(* and obeys its UART; ControlTask executes.  A step is one access to the  *)
(* atomics of the boundary, or a part of a task in which it makes none;    *)
(* usable() and accepts() are one step each.  The client itself and the    *)
(* broker are external.                                                    *)
(*                                                                         *)
(* A message is the number of its arrival, and its correlation id too.     *)
(* Left out: payloads and their mapping, events, requests to the firmware  *)
(* service, and the wrap-around of generations.                            *)
(***************************************************************************)
EXTENDS Integers, Sequences, FiniteSets, SequencesExt

CONSTANTS
    StopMessages,        \* the messages that are Stop; others are regular commands
    MaxMessages,         \* bound: messages that arrive
    MaxConnections,      \* bound: connections that are made
    MaxProvisionings,    \* bound: SET and CLEAR requests
    InboundCapacity,     \* blynk_inbound_capacity
    ResultCapacity,      \* BlynkCommandResults::capacity
    MailboxCapacity      \* SpscCommandMailbox::capacity

ASSUME BlynkAssumption ==
    /\ {MaxMessages, MaxConnections, MaxProvisionings} \subseteq Nat
    /\ {InboundCapacity, ResultCapacity, MailboxCapacity} \subseteq Nat \ {0}
    /\ StopMessages \subseteq 1..MaxMessages

VARIABLES
    connected, connection, disconnect,     \* the atomics of the boundary
    client,              \* the MQTT client: none, down or up
    callback,            \* what its task has to do
    inbound,             \* BlynkInboundMailbox
    arrivals,            \* the connection each message came over, so far
    configured,
    step,                \* what BlynkTask does next
    taken,               \* the message BlynkTask has in hand, 0 for none
    poll,                \* BlynkConnectionSnapshot, and the poll under way
    observed,            \* the generations the last poll observed
    pending, feedback,   \* BlynkCommandResults
    candidate,           \* pending_feedback_, 0 for none
    projection,          \* connected, announce (publish_on_connect_), dirty and
                         \* known (has_pending_)
    published,           \* has_last_publish_
    mailbox,             \* translated commands for ControlTask
    executed,            \* commands whose results are in the snapshot
    announced,           \* history: the last connection whose first status is settled
    overlapped,          \* history: a connection came up while its client was stopped
    provisionings

boundary == <<connected, connection, disconnect>>
results == <<pending, feedback, candidate>>
status == <<projection, published, announced>>
vars == <<boundary, client, callback, inbound, arrivals, configured, step, taken, poll,
          observed, results, status, mailbox, executed, overlapped, provisionings>>

Messages == 1..MaxMessages
IsStop(message) == message \in StopMessages
Limit(message, capacity) == IF IsStop(message) THEN capacity ELSE capacity - 1

(***************************************************************************)
(* The boundary.                                                           *)
(***************************************************************************)
Usable ==
    /\ poll.connected /\ connected
    /\ disconnect = poll.disconnect
    /\ connection = poll.connection

Accepts(generation) == generation # 0 /\ connected /\ connection = generation

(***************************************************************************)
(* The task of the MQTT client.                                            *)
(***************************************************************************)
CallbackVars == <<configured, step, taken, poll, observed, results, status, mailbox,
                  executed, provisionings>>

\* BlynkTask stops its client, and the client's task has not ended yet.
BeingStopped == step \in {"stopDisconnect", "stopClient"}

\* Subscribing may fail; then the link stays, and the connection is none.
LinkComesUp ==
    /\ client = "down" /\ callback = "idle"
    /\ connection < MaxConnections /\ disconnect <= MaxConnections
    /\ client' = "up"
    /\ callback' \in {"count", "disconnect"}
    /\ UNCHANGED <<boundary, inbound, arrivals, overlapped, CallbackVars>>

LinkIsLost ==
    /\ client = "up" /\ callback = "idle"
    /\ client' = "down"
    /\ callback' = "disconnect"
    /\ UNCHANGED <<boundary, inbound, arrivals, overlapped, CallbackVars>>

\* callback_connected(): the generation first, then connected.
CallbackCountsConnection ==
    /\ callback = "count"
    /\ connection' = connection + 1
    /\ callback' = "connect"
    /\ UNCHANGED <<connected, disconnect, client, inbound, arrivals, overlapped,
                   CallbackVars>>

CallbackConnects ==
    /\ callback = "connect"
    /\ connected' = TRUE
    /\ overlapped' = (overlapped \/ BeingStopped)
    /\ callback' = "idle"
    /\ UNCHANGED <<connection, disconnect, client, inbound, arrivals, CallbackVars>>

\* callback_disconnected()
CallbackDisconnects ==
    /\ callback = "disconnect"
    /\ connected' = FALSE
    /\ callback' = "countDisconnect"
    /\ UNCHANGED <<connection, disconnect, client, inbound, arrivals, overlapped,
                   CallbackVars>>

CallbackCountsDisconnect ==
    /\ callback = "countDisconnect"
    /\ disconnect' = disconnect + 1
    /\ callback' = "idle"
    /\ UNCHANGED <<connected, connection, client, inbound, arrivals, overlapped,
                   CallbackVars>>

\* MQTT_EVENT_DATA: a message of a connection that is accepted.
MessageArrives ==
    /\ client = "up" /\ callback = "idle"
    /\ Len(arrivals) < MaxMessages
    /\ Accepts(connection)
    /\ arrivals' = Append(arrivals, connection)
    /\ callback' = "push"
    /\ UNCHANGED <<boundary, client, inbound, overlapped, CallbackVars>>

CallbackPushes ==
    LET message == Len(arrivals)
    IN
    /\ callback = "push"
    /\ inbound' = IF Len(inbound) < Limit(message, InboundCapacity)
                  THEN Append(inbound, message) ELSE inbound
    /\ callback' = "idle"
    /\ UNCHANGED <<boundary, client, arrivals, overlapped, CallbackVars>>

MqttTask ==
    \/ LinkComesUp \/ LinkIsLost \/ MessageArrives
    \/ CallbackCountsConnection \/ CallbackConnects
    \/ CallbackDisconnects \/ CallbackCountsDisconnect
    \/ CallbackPushes

(***************************************************************************)
(* BlynkTask: its UART, and stop_mqtt().                                   *)
(***************************************************************************)
MqttVars == <<client, callback, inbound, arrivals, overlapped>>

\* handle_disconnect(), together with a poll that may have found a new connection.
Cleanup(started) ==
    /\ pending' = {} /\ feedback' = <<>> /\ candidate' = 0
    /\ projection' = [projection EXCEPT !.connected = started, !.announce = started,
                                        !.dirty = IF started THEN projection.known ELSE @]

Activate ==
    /\ projection' = [projection EXCEPT !.connected = TRUE, !.announce = TRUE,
                                        !.dirty = projection.known]
    /\ UNCHANGED results

\* SET or CLEAR, whose record is written first.
Provision ==
    /\ step = "uart"
    /\ provisionings < MaxProvisionings
    /\ provisionings' = provisionings + 1
    /\ configured' \in BOOLEAN
    /\ connected' = FALSE
    /\ step' = "stopDisconnect"
    /\ UNCHANGED <<connection, disconnect, MqttVars, taken, poll, observed, results, status,
                   mailbox, executed>>

StopCountsDisconnect ==
    /\ step = "stopDisconnect"
    /\ disconnect' = disconnect + 1
    /\ step' = "stopClient"
    /\ UNCHANGED <<connected, connection, MqttVars, configured, taken, poll, observed,
                   results, status, mailbox, executed, provisionings>>

\* The client's task ends after the callback it is in.
StopClient ==
    /\ step = "stopClient" /\ callback = "idle"
    /\ client' = IF configured THEN "down" ELSE "none"
    /\ Cleanup(FALSE)
    /\ step' = "before"
    /\ UNCHANGED <<boundary, callback, inbound, arrivals, overlapped, configured, taken,
                   poll, observed, published, announced, mailbox, executed, provisionings>>

(***************************************************************************)
(* BlynkTask: poll().                                                      *)
(***************************************************************************)
PollVars == <<boundary, MqttVars, configured, taken, mailbox, executed, provisionings>>

\* Also where the UART has nothing to say.
ReadDisconnect ==
    /\ step \in {"uart", "before"}
    /\ poll' = [poll EXCEPT !.disconnect = disconnect]
    /\ step' = "connected"
    /\ UNCHANGED <<PollVars, observed, results, status>>

ReadConnected ==
    /\ step = "connected"
    /\ poll' = [poll EXCEPT !.connected = connected]
    /\ step' = "connection"
    /\ UNCHANGED <<PollVars, observed, results, status>>

ReadConnection ==
    /\ step = "connection"
    /\ poll' = [poll EXCEPT !.connection = connection]
    /\ step' = "after"
    /\ UNCHANGED <<PollVars, observed, results, status>>

PollAgain ==
    /\ step = "after" /\ disconnect # poll.disconnect
    /\ step' = "before"
    /\ UNCHANGED <<PollVars, poll, observed, results, status>>

\* Mutant of ObservedConnection: also a connection that is half published.
ObservedAnyway == poll.connection

ObservedConnection == IF poll.connected THEN poll.connection ELSE observed.connection

\* Mutant of CleanupIsRequired: only when the poll finds no connection.
CleanupWhenDown == disconnect # observed.disconnect /\ ~poll.connected

CleanupIsRequired == disconnect # observed.disconnect

FinishPoll ==
    LET started == poll.connected /\ poll.connection # observed.connection
    IN
    /\ step = "after" /\ disconnect = poll.disconnect
    /\ \/ CleanupIsRequired /\ Cleanup(started)
       \/ ~CleanupIsRequired /\ started /\ Activate
       \/ ~CleanupIsRequired /\ ~started /\ UNCHANGED <<results, projection>>
    /\ observed' = [disconnect |-> disconnect, connection |-> ObservedConnection]
    /\ step' = "inbound"
    /\ UNCHANGED <<PollVars, poll, published, announced>>

(***************************************************************************)
(* BlynkTask: process_inbound().                                           *)
(***************************************************************************)
InboundVars == <<boundary, client, callback, arrivals, overlapped, configured, poll,
                 observed, status, executed, provisionings>>

BeginTurn ==
    /\ step = "inbound"
    /\ step' = IF Usable THEN "front" ELSE "observe"
    /\ UNCHANGED <<InboundVars, inbound, taken, results, mailbox>>

\* Mutant of LeftForNextPoll: what a newer connection sent is taken now.
NothingIsLeft(generation) == FALSE

\* The first command of a newer connection waits for the cleanup of the next poll.
LeftForNextPoll(generation) ==
    generation # poll.connection /\ Accepts(generation)

IsStale(generation) == generation # poll.connection

TakeInbound ==
    LET message == Head(inbound)
        isLeft == inbound # <<>> => LeftForNextPoll(arrivals[message])
    IN
    /\ step = "front"
    /\ \/ /\ isLeft
          /\ step' = "observe"
          /\ UNCHANGED <<inbound, taken>>
       \/ /\ ~isLeft
          /\ inbound' = Tail(inbound)
          /\ IF IsStale(arrivals[message])
             THEN step' = "inbound" /\ UNCHANGED taken
             ELSE step' = "map" /\ taken' = message
    /\ UNCHANGED <<InboundVars, results, mailbox>>

ResultsHaveRoom == Cardinality(pending) + Len(feedback) < ResultCapacity

\* The command is mapped between two checks of the connection; then its result is
\* tracked.  A Stop without room for its result goes on.
MapCommand ==
    /\ step = "map"
    /\ \/ /\ ~Usable
          /\ step' = "observe" /\ taken' = 0
          /\ UNCHANGED pending
       \/ /\ Usable /\ ResultsHaveRoom
          /\ pending' = pending \cup {taken}
          /\ step' = "check"
          /\ UNCHANGED taken
       \/ /\ Usable /\ ~ResultsHaveRoom
          /\ IF IsStop(taken) THEN step' = "check" /\ UNCHANGED taken
                             ELSE step' = "inbound" /\ taken' = 0
          /\ UNCHANGED pending
    /\ UNCHANGED <<InboundVars, inbound, feedback, candidate, mailbox>>

CheckConnection ==
    /\ step = "check"
    /\ IF Usable THEN step' = "admit" /\ UNCHANGED <<taken, pending>>
                 ELSE step' = "observe" /\ taken' = 0 /\ pending' = pending \ {taken}
    /\ UNCHANGED <<InboundVars, inbound, feedback, candidate, mailbox>>

\* The command is stamped with the connection of the poll.  Refused, it has a result.
AdmitCommand ==
    /\ step = "admit"
    /\ \/ /\ Len(mailbox) < Limit(taken, MailboxCapacity)
          /\ mailbox' = Append(mailbox, [message |-> taken, generation |-> poll.connection])
          /\ UNCHANGED <<pending, feedback>>
       \/ /\ Len(mailbox) >= Limit(taken, MailboxCapacity)
          /\ feedback' = IF taken \in pending \/ ResultsHaveRoom
                         THEN Append(feedback, taken) ELSE feedback
          /\ pending' = pending \ {taken}
          /\ UNCHANGED mailbox
    /\ step' = "inbound" /\ taken' = 0
    /\ UNCHANGED <<InboundVars, inbound, candidate>>

(***************************************************************************)
(* BlynkTask: observe_snapshot() and publish_outbound().                   *)
(***************************************************************************)
OutboundVars == <<boundary, MqttVars, configured, taken, poll, observed, mailbox, executed,
                  provisionings>>

\* What is observed equals what was last published, or not; the first settles the
\* status of this connection without a message.
ObserveSnapshot ==
    /\ step = "observe"
    /\ step' = "publish"
    /\ \E changed \in BOOLEAN :
          /\ projection' = [projection EXCEPT !.known = TRUE,
                                              !.dirty = ~published \/ changed]
          /\ announced' = IF projection.connected /\ published /\ ~changed
                          THEN poll.connection ELSE announced
    /\ LET seen == pending \cap executed
       IN feedback' = feedback \o SetToSeq(seen) /\ pending' = pending \ seen
    /\ UNCHANGED <<OutboundVars, candidate, published>>

\* Not every turn observes.
SkipObserving ==
    /\ step = "observe"
    /\ step' = "publish"
    /\ UNCHANGED <<OutboundVars, results, status>>

\* The first message of a connection is not held back by the minimum interval.
StatusIsDue(intervalPassed) ==
    /\ projection.connected /\ projection.dirty
    /\ projection.announce \/ ~published \/ intervalPassed

\* publish(): it may fail, for each message on its own.
PublishOutbound(sentResult, sentStatus) ==
    LET next == IF candidate # 0 THEN candidate
                ELSE IF feedback # <<>> THEN Head(feedback) ELSE 0
    IN
    /\ step = "publish" /\ Usable /\ client = "up"
    /\ candidate' = IF sentResult THEN 0 ELSE next
    /\ feedback' = IF candidate = 0 /\ feedback # <<>> THEN Tail(feedback) ELSE feedback
    /\ \E intervalPassed \in BOOLEAN :
          IF sentStatus /\ StatusIsDue(intervalPassed)
          THEN /\ projection' = [projection EXCEPT !.dirty = FALSE, !.announce = FALSE]
               /\ published' = TRUE
               /\ announced' = poll.connection
          ELSE UNCHANGED status
    /\ step' = "uart"
    /\ UNCHANGED <<OutboundVars, pending>>

SkipPublishing ==
    /\ step = "publish" /\ ~(Usable /\ client = "up")
    /\ step' = "uart"
    /\ UNCHANGED <<OutboundVars, results, status>>

BlynkTask ==
    \/ Provision \/ StopCountsDisconnect \/ StopClient
    \/ ReadDisconnect \/ ReadConnected \/ ReadConnection \/ PollAgain \/ FinishPoll
    \/ BeginTurn \/ TakeInbound \/ MapCommand \/ CheckConnection \/ AdmitCommand
    \/ ObserveSnapshot \/ SkipObserving \/ SkipPublishing
    \/ \E sentResult, sentStatus \in BOOLEAN : PublishOutbound(sentResult, sentStatus)

(***************************************************************************)
(* ControlTask, and the specification.                                     *)
(***************************************************************************)
\* Mutant of Executes: the connection of a drained command is not looked at.
ExecutesAll(generation) == TRUE

Executes(generation) == Accepts(generation)

Drain ==
    LET command == Head(mailbox)
    IN
    /\ mailbox # <<>>
    /\ mailbox' = Tail(mailbox)
    /\ executed' = IF Executes(command.generation)
                   THEN executed \cup {command.message} ELSE executed
    /\ UNCHANGED <<boundary, MqttVars, configured, step, taken, poll, observed, results,
                   status, provisionings>>

Init ==
    /\ connected = FALSE /\ connection = 0 /\ disconnect = 0
    /\ configured \in BOOLEAN
    /\ client = IF configured THEN "down" ELSE "none"
    /\ callback = "idle"
    /\ inbound = <<>> /\ arrivals = <<>>
    /\ step = "uart" /\ taken = 0
    /\ poll = [connected |-> FALSE, connection |-> 0, disconnect |-> 0]
    /\ observed = [connection |-> 0, disconnect |-> 0]
    /\ pending = {} /\ feedback = <<>> /\ candidate = 0
    /\ projection = [connected |-> FALSE, announce |-> FALSE, dirty |-> FALSE, known |-> FALSE]
    /\ published = FALSE /\ announced = 0
    /\ mailbox = <<>> /\ executed = {}
    /\ overlapped = FALSE /\ provisionings = 0

Next == MqttTask \/ BlynkTask \/ Drain


(***************************************************************************)
(* Fairness: the tasks are scheduled, a second passes between observations *)
(* at last, and what is published in vain again and again is published at  *)
(* last.  Nothing is assumed of the links.                                 *)
(***************************************************************************)
Callbacks ==
    \/ CallbackCountsConnection \/ CallbackConnects
    \/ CallbackDisconnects \/ CallbackCountsDisconnect
    \/ CallbackPushes

Spec ==
    /\ Init /\ [][Next]_vars
    /\ WF_vars(Callbacks) /\ WF_vars(BlynkTask) /\ WF_vars(Drain)
    /\ SF_vars(ObserveSnapshot) /\ SF_vars(PublishOutbound(TRUE, TRUE))

(***************************************************************************)
(* Properties.                                                             *)
(***************************************************************************)

\* ControlTask executes a command only in the connection that the command came over,
\* and while it lasts, though links come and go while the command is in the inbound
\* mailbox, in BlynkTask's hands and in the application's mailbox.
ExecutedInItsConnection ==
    [][\A message \in executed' \ executed :
          connected /\ connection = arrivals[message]]_vars

\* While links come and go, what BlynkTask is about to publish as results answers
\* commands of the connection it publishes them to; save for a connection that came up
\* while BlynkTask stopped its client.
FeedbackIsForItsConnection ==
    (step = "publish" /\ Usable /\ ~overlapped) =>
        \A message \in ToSet(feedback) \cup ({candidate} \ {0}) :
            arrivals[message] = connection

\* A command of the connection that is up leaves the inbound mailbox only into the
\* hands of BlynkTask, whatever connection its poll had seen: it is not discarded as
\* one of an earlier connection.
LiveCommandIsNotDiscarded ==
    [][\A message \in ToSet(inbound) \ ToSet(inbound') :
          connected /\ connection = arrivals[message] => taken' = message]_vars

\* A result that is awaited will come or be given up: its command is in BlynkTask's
\* hands, in the mailbox or executed, or a disconnect is counted that BlynkTask has not
\* cleaned up after; so no reservation is lost with a command that ControlTask discards,
\* save in a connection that came up while BlynkTask stopped its client.  And when it
\* comes there is a place for it: "the shared reservation invariant makes this
\* unreachable for a tracked ID" (blynk_remote_support.cpp).
ReservationsAreKept ==
    /\ \A message \in pending :
          \/ message = taken
          \/ \E entry \in ToSet(mailbox) : entry.message = message
          \/ message \in executed
          \/ disconnect # observed.disconnect
          \/ callback = "countDisconnect" \/ BeingStopped
          \/ overlapped
    /\ Cardinality(pending) + Len(feedback) <= ResultCapacity

\* The status is published to every connection, or found to be what was published
\* last, unless the connection ends before; also to one that a poll met half way
\* through its callback; save for one that came up while BlynkTask stopped its client.
EveryConnectionIsAnnounced ==
    connected ~> (announced = connection \/ ~connected \/ overlapped)

=============================================================================
