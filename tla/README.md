# TLA+ models of mqtt5

mqtt5 is a header-only MQTT 5 client in C++17, written with senders and receivers
on top of Boost.Asio.  This directory holds TLA+ modules that model its behaviour,
TLC configurations that check them on small instances, and proofs, checked by TLAPS,
that hold for every value of the constants.

    tlc -config MCPublishFlow.cfg MCPublishFlow.tla     # model-check one run
    tlapm PublishProofs.tla                              # check the proofs

Paths below are relative to `src/include/mqtt5` of the repository; "client" without a
file is `client.hpp`.

## 1. The system

One `client<Stream>` object runs on one `io_context` thread.  Every operation of
the network or of a timer ends as a completion that the io_context dispatches; the
completion becomes an event of a Boost.SML state machine, whose actions are the
handlers `handle_packet(...)`.  User code runs either between two handlers or, when
a receiver is told a result, in the middle of one.

| component | state | operations | what must hold |
|---|---|---|---|
| connection state machine (client 323–457, 467–534, 707–798; `detail/connect_sender.hpp`, `detail/event_emitting_receiver.hpp`) | four regions, `connect_receivers_`, two timers, `keep_alive_used_`, the one read, the writes | handshaker, `close`, events of packets, timers, ends of operations | the regions agree; one read, never none; handshakes and silence are timed; waiting handshakers are told |
| outgoing publishes (client 61–74, 142–160, 527–555, 633–665, 690–705; `detail/publish_sender.hpp`) | packet identifiers, send quota, `queued_publishes_`, `published_messages_` | publishers; CONNACK, PUBACK, PUBREC, PUBCOMP | order, no loss, one result each, within the receive maximum, each acknowledgement its own publish |
| incoming publishes (client 588–631, 667–688, 410–414) | `client_receive_quota_`, `received_qos2_states_` | PUBLISH, PUBREL, end of the write of a PUBACK | QoS 2 handed out once, acknowledged only if handed out, quota exact |
| filtered subscribers (client 115–140; `detail/filter_subscribe_sender.hpp`) | `publish_waiters_` | filtered_subscriber, delivery | each waiter told the first match, a looping one all of them |
| subscribe and unsubscribe requests (client 557–586; `detail/subscribe_sender.hpp`, `detail/unsubscribe_sender.hpp`) | `subscribe_messages_`, `unsubscribe_messages_` | requests, SUBACK, UNSUBACK | each request told its own answer |
| topic filters (`topic_filter.hpp`) | none | parse, print, match | agrees with the definition of a match |
| framing (`connection.hpp`, `transport/data_fetcher.hpp`, `protocol/control_packet.hpp`, `protocol/header.hpp`, `protocol/varlen_int.hpp`, `protocol/fixed_int.hpp`) | `read_buffer_`, the writers under way | read a packet, write a packet | packets come out as they went in, however writes and reads cut the stream |
| properties (`protocol/properties.hpp`) and packet bodies (`protocol/*.hpp`) | none | serialize, deserialize | what is written is read back |
| options (`connect_options.hpp`, `publish_options.hpp`; client 225–260, 746–793) | `connect_opts_`, the modifiers of a publisher | handshaker, publisher, `send_connect` | the packet is the one the user asked for |
| enumerations, unused templates, `transport/data_writer.hpp` (unused), samples, tests | none | — | — |

Components share the client object.  They interact through

- packets: the state machine dispatches each to its handler only in `connected`
  (client 424–437), CONNACK only in `handshaking` (420);
- packet identifiers: publishes, subscribes and unsubscribes draw from one
  generator;
- the CONNACK handler, which sets both quotas and raises `handshake_done_evt`;
- `close()`, called by users, timers, the quota complaint and acknowledgements of
  the wrong kind: it cancels operations whose completions are dispatched later;
- receivers, which call back into the client from inside handlers.

Hard to test, and what the models are for:

- a receiver publishes from inside the PUBACK handler, between the return of an entry and
  that of its quota; a waiter subscribes again while the list it was in is
  walked;
- a completion that is queued when its timer is cancelled or its socket closed;
- quotas and packet identifiers at their limits, acknowledgements that match nothing
  or the wrong kind of publish, repeated PUBLISH, PUBREC and PUBREL;
- connection loss between any two steps, and what is left behind by it;
- options that a later handshaker replaces while they are in use;
- writes that are started without waiting for one another.

`PROJECT.json` lists them under "hazards", each at its line, with the properties
that watch it.  Those without a property say why.

## 2. The modules

| module | models | |
|---|---|---|
| `PublisherContract` | what publishers promise a user, abstractly | in order, one fate each, only after being handed over |
| `PublishFlow` | outgoing publishes against any server | refines `PublisherContract` |
| `PublishSession` | `PublishFlow` with a server that follows the protocol | extends `PublishFlow` |
| `ReceiveFlow` | incoming publishes and filtered subscribers against any server | |
| `ReceiveSession` | `ReceiveFlow` with a server that follows the protocol | extends `ReceiveFlow` |
| `ConnectionSM` | the state machine, its timers, its read and its writes | |
| `KeepAlive` | the timers in seconds: handshake, pings, keep alive | |
| `Requests` | subscribes and unsubscribes, sharing identifiers with publishes, and a server that answers in any order | |
| `TopicFilter` | parsing, printing and matching, with the definition of a match beside them | |
| `Framing` | fields and packets in bytes, the writers and the reader of a stream that is cut anywhere, over several connections | |
| `Packets` | bodies and properties of packets, written and read by the program or written by a peer | |
| `ClientPackets` | the CONNECT and the PUBLISH the client makes from options and arguments | extends `Packets` |
| `PublishProofs`, `ReceiveProofs` | the theorems about the flow and the session each is named for, section 5 | |
| `ConnectionProofs`, `KeepAliveProofs`, `RequestsProofs`, `TopicFilterProofs`, `FramingProofs` | the theorems about the module each is named for | |
| `SequenceLemmas` | what appending to, erasing from, counting in and putting together sequences does | used by the proofs |
| `MC...` | instances for TLC | |

Every module names variables after the members they model (a comment at each
declaration gives the member), has one action per handler or operation, and keeps
history variables apart: they record what the properties speak about and no action
reads them, except to enforce a bound.

Definitions named `...Fault` are not the program.  Each is a likely slip in the
definition right below it (a quota not returned, an entry not erased, a timer not armed)
and exists to show that a property would notice: with the fault in place of
the definition, TLC finds the property violated.

### PublishFlow

| code | action |
|---|---|
| `publish_sender::operation::start`, QoS 0 / above | `PublishQos0` / `Publish` |
| `subscribe_sender`, `unsubscribe_sender` drawing an identifier | `TakeRequestIdentifier` |
| `handle_packet(connack)` | `HandleConnack` |
| `handle_packet(puback)` | `HandlePuback` up to the call of the receiver, `PubackReturn` from there; `HandleUnknownPuback` |
| `handle_packet(pubrec)` | `HandlePubrec`, `HandlePubrecError`, `HandleUnknownPubrec`; `HandlePubrecMismatch` up to the call of the receiver, `PubrecReturn` from there |
| `handle_packet(pubcomp)` | `HandlePubcomp` |
| `close()` | `Close` |

A handler is one step, save where it calls a receiver and goes on afterwards:
then `handler` says that the program is inside the call, and what the receiver does
are the steps until the handler returns.  Where the call is the last
thing a handler does, what the receiver does is a step after it.  A publish is its
number in the order of starting, its QoS and its identifier; topics and
payloads matter to nothing here.

The server is unconstrained: any acknowledgement with any identifier.
`PublishSession` adds the protocol: PUBACK and PUBREC in order, PUBCOMP to PUBREL,
refusal in PUBREC, packets in order in both directions, and a disconnect that loses an
arbitrary tail of what was under way to the client.  There identifiers go round: the
generator does not look whether one is in use (client 66–73), and the handlers find a
publish by it.  `SharedOnlyByQos2` says when two publishes in flight can have the same
one: only behind a QoS 2 publish, while the socket is open and the window and the requests
fit into the identifiers.  After a close it fails in larger instances (7 publishes, 3 identifiers,
receive maximum 3): a PUBACK already read still returns quota and a publish that is never
acknowledged keeps its identifier.  The history variable `shared` names those that had, and only they are excepted
from `AckFinishesItsPublish` and `NotCutOff`.

### ReceiveFlow

| code | action |
|---|---|
| `filter_subscribe_sender::operation::start` | `Subscribe` |
| `handshaker` / its sender started | `Handshaker` / `StartHandshake` |
| `handle_packet(connack)` | `HandleConnack` |
| `handle_packet(publish)` | `HandlePublish` |
| `handle_packet(pubrel)` | `HandlePubrel` |
| end of a write: `puback_sent_evt`, the continuation of `disconnector` | `WriteCompletes` |
| `close()` | `Close` |

`publish_waiters_` is a function from filters to the sets of their receivers: a receiver waits
in one place at most, and since those of a filter are told the same message one after the
other, their order in the list is not part of the model.  `told[r]` is the numbers of the
deliveries r was told.  Receivers in `Loops` subscribe again from inside `set_value`; since matching groups are
taken out of the list before any receiver is told (client 124–133), the outcome is that
of `StillWaiting`.  `ReceiveSession` adds a server that keeps within the receive
maximum and may send PUBLISH and PUBREL of a QoS 2 exchange again.

`handshaker` replaces `connect_opts_` when it is called, whether or not its sender is
started (client 226), and the CONNACK and PUBACK handlers use what is there then.  So
the client may count against another receive maximum than the one it announced:
`ReceiveQuotaAccounted` bounds what it grants by the smallest and the largest of the maxima
its options have had since the CONNECT, and is exact while there is only one; `NotAccused`
holds as long as none below the announced one took its place.

### ConnectionSM

One variable per region; an event is offered to the regions in their order, so an
action is the sum of what they do.  `ready` is the queue of the io_context: a
completion that is in it is dispatched even if the timer was cancelled or the
socket closed after it was posted.  Actions of the outside world (`PacketArrives`,
`WriteCompletes`, timers, `PeerFails`) post completions, `Run` dispatches the
oldest.  User code inside a handler may close the socket and write; `HandleThenReceive`
lets it.  Time is abstracted: an armed timer may expire at any moment.

`connected` has no transition for `disconnect_evt` in the code (client 424–438), and so
none in the model: after a loss `conn` stays `connected`, as `is_connected()`
does.

### KeepAlive

The timers of `ConnectionSM` with seconds left instead of "may expire at any moment".
What happens takes no time; the clock advances when nothing is queued, no timer is due
and the peer owes no answer.  `SpeaksInTime` and `SilenceBounded` are what the two sides
of a keep alive promise each other; `EndedForAReason` is what it must not do: close a
connection to a peer that does its part.  Its exceptions are what the code does: an
expiry that is queued when the timer is armed anew, a handshake timer that nothing
cancels without a keep alive, and a keep alive so short that the answer to a ping,
sent at half of it, can come too late.  With a keep alive of 1 second the ping
interval is 0 (client 719) and the client pings without end; the model lets the
clock go on after `MaxBurst` pings.

### Requests

`Start` is `start` of `subscribe_sender` and of `unsubscribe_sender`, `HandleAnswer`
the two handlers of answers, `DrawForPublish` a publish taking an identifier from the
same generator.  Unlike a publish, a request is not bounded by any quota, and the server
may answer in any order; so identifiers go round while a request waits.
`AnswerReachesItsRequest` says exactly what an answer found by identifier alone
(client 560) can be trusted for: it is the right one unless the two requests are a whole
round of the generator apart.

### TopicFilter

Operators, one per function of `topic_filter.hpp`; the state machine only types a filter
and a name, character by character.  `Matches` walks the two lists of levels as the code
does; what it is compared with in `MatchesWhatFits` is the definition of a match by the
existence of a way to fit the levels.  The assertions of the constructor look at the last
level of a filter and miss the one in front of a separator at its end: `#/`, `sport#/` and
`a+/` are accepted, although lines 24–25 and 43 say that they are not valid.  `ValidIsKept` says
that a valid filter is accepted and printed as it was, and an invalid one accepted only if its
last level is empty.

### Framing

| code | action |
|---|---|
| `connection::control_packet_writer` started | `StartWriting` |
| `write_all`: a `write_some` done / the next one called | `WriteSome` / `WriteRest` |
| `connection::control_packet_reader` started | `StartReading` |
| `data_reader::operation::start`, `read_some_receiver` | `ReadSome` |
| `header::inplace_deserializer`, its predicate / transformer | `HeaderNeeds` / `ReadHeader` |
| `data_fetcher::get_data`, `control_packet::inplace_deserializer` | `BodyNeeds`, `ReadBody` |
| `close()`, `socket_connector` | `Close`, `Reopen` |

A byte is a number below twice `Base`, which is 128 in the program.  A body is a sequence
of integers, strings and bytes, written as `fixed_int`, `string` and `binary` write them
and taken apart by the layout of the packet's type.  `send_message` starts a writer
without waiting for the one before it (client 496), and a write may take only a part of
its bytes; the rest then goes out behind whatever was started in between.  The history
variable `torn` says that this has happened, and the properties are claimed without it:
they show that it is the only way in which writers can harm each other.  Nor is the buffer
emptied between connections (connection 60); `stale` says that an earlier
connection left bytes in it.

### Packets

A wire is a sequence of fields, each of a kind: reading a field as another kind is a
misread.  `Members` are the properties a `properties_t` has members for, with the type
of each, its default and the type its value is asked for as; `Storage` is the
table of `activate_id`.  `FieldsWritten` and `FieldsRead` are the conditions of
`serialize_body` and of `deserialize`: they look at different things (an identifier or a
quality of service, an optional or a flag, properties or a length), and `ReadsBack`
says that they agree.  Topics, payload bytes and reason codes that fill the rest of a
body are items, read until nothing is left.  `Make` makes a packet, user
actions fill in properties, `Write` or `PeerWrites` writes it, `Read` reads it.

### ClientPackets

| code | action |
|---|---|
| `publisher`, `reusable_publisher` | `Publisher` |
| `publish_sender::operation::start`, up to the send | `StartPublisher` |
| `send_connect` | `SendConnect` |

The arguments of a publisher are told apart by their types (publish_options 144–180):
options are applied at once, everything else that can be called when the publisher
starts.  `Unlisted` are the structs that `is_publish_option` lacks; they count as
modifiers, and `OptionsTakeEffect` is claimed unless one of them and another argument set
the same field.  `ConnectAsAsked` compares what a server reads from the CONNECT with
the options of the handshaker; it says which two of them do not arrive.

## 3. Runs

| run | instance | shows |
|---|---|---|
| `MCPublishFlow` | 3 publishes, any server | no loss, quota exact, one fate each, in order: refinement of `PublisherContract` |
| `MCPublishSession` | 5 publishes, QoS 1 and 2 mixed, 3 identifiers, fairness | the server's window is respected; identifiers wrap, and an acknowledgement still ends the publish it answers unless two shared one; a correct server causes no close but for those; a publish finishes unless QoS 2 ones starve it |
| `MCPublishStarved` | 2 QoS 2 publishes, window 1, fairness | **violated**, see findings |
| `MCReceiveFlow` | 3 PUBLISH, 3 receivers, any server | nothing delivered twice, waiters hear what they are due |
| `MCReceiveSession` | 3 messages, a packet sent again, 2 handshakers with receive maxima 1 and 2, closes, fairness | QoS 2 is handed on once, and acknowledged only if handed on; the receive quota balances, also while options are replaced; a server that keeps to its window is not accused unless a QoS 2 message was handled or the options were replaced by smaller ones; a looping subscriber hears every message |
| `MCConnection` | 2 handshakers, 3 packets, errors, fairness | regions, read and timers stay in step; handshakes end, after a loss everything rests |
| `MCKeepAlive` | keep alives 0 to 4 and 7 seconds, 2 handshakes, a peer that may die | the client speaks in time, drops a silent peer in time, keeps one that answers, and paces its pings |
| `MCConnectionKeepAlive` | 1 handshaker | **violated**, see findings |
| `MCRequests` | 4 requests and a publish, 2 identifiers, a close, fairness | each request held once until it is answered, answered while the connection lasts, by its own answer unless identifiers went round |
| `MCTopicFilter` | every filter of up to 4, every name of up to 5 characters | parsing, printing and matching agree with their definitions |
| `MCFraming` | 2 packets on each of 2 connections, any cuts by reads, one by writes | no byte lost or moved, every packet out as soon as it is there, failure only where deserved |
| `MCClientPackets` | every type of packet, any 2 properties, up to 2 items; publishers with up to 3 arguments; 2,720 connect options | packets read back as written, named cases apart; what a peer writes is understood; a server reads the PUBLISH and the CONNECT that were asked for |

### Bounds

Every bound is a constant named in its module.

- `U16Max` (65535 in the program) is small where wrap-around is the matter (3 in
  `MCPublishSession`: the fifth publish takes the identifier of the second) and otherwise
  larger than the number of publishes.  `UnsetQuota`, the 65535 before a
  CONNACK, likewise; `EarlyAssumption` says that fewer publishes precede the
  CONNACK than it admits.
- 3 or 4 publishes with receive maxima 0, 1 and 2 give a queue of two behind a full
  window, both ends of the queue, an acknowledgement out of order and one that
  matches nothing.
- `MaxSpurious` = 1 made-up PUBACK: `WindowRespected` counts them, and the proof covers
  any number.
- `MaxReady` = 4 queued completions in `ConnectionSM` hold a timeout of either timer
  and the ends of the read and the write at the same time.
- 3 PUBLISH packets with a receive maximum of 2 exhaust the quota, two topics and
  two filters give a filter that matches both, shared and unshared groups, and
  a QoS 2 exchange overlapping another.
- Two packet identifiers and five draws take `Requests` round the generator twice; five
  requests would add a further identical round.
- A filter of four characters holds three levels, `+` and `#` in every place, empty levels
  at either end; a name is one longer, so that `#` has something to swallow.  One letter
  is enough beside `/`, `+`, `#` and `$`: matching only compares levels for equality.
- `Framing` counts in base 2, so that a string of 16 bytes is too long for its length; the
  bodies have lengths of one, three, four and five digits, five being the most there are; four
  bytes at a time hold parts of two packets.  Two packets are what it takes for one to be
  written into the other, and two connections for one to leave bytes to the next.
- `Packets` cuts 8, 16 and 32 bits to 3, 4 and 5, the integers tried being the ends of each
  width and one beyond.  Two properties at a time find one displaced or doubled by
  another; a third would meet no further rule.  Three arguments give two that set the same
  field and a third whose order to both matters.
- The keep alives of `KeepAlive` are none, one with a ping interval of 0, odd and even ones, and
  values shorter and longer than the handshake's five seconds; a second handshake meets what the
  first left behind.
- Deadlock is not checked: the bounded systems stop when the bounds are used up.

Packet identifiers of the receive side are interchangeable, and symmetry is used for
them in `MCReceiveFlow`; no run with a liveness property uses it.

### Fairness

The io_context runs every ready completion and calls a handler to its end: `WF` of
the client's steps and of `Return`.  A timer that stays armed expires: `WF`
of the two timers.  `KeepAlive` needs no fairness: its bounds are counted in seconds.  For progress of publishes, requests and deliveries the server
and the network are taken to go on working, or the property says "or the connection
is closed": nothing in the client tells a pending publish or request that the
connection is gone, so nothing could be promised otherwise.  Users owe nothing.

## 4. Findings

1. **QoS 2 publishes starve the publishers** (`MCPublishStarved`).  `start` takes a
   unit of send quota (`detail/publish_sender.hpp:107`); only the PUBACK handler
   gives one back (client 554).  After as many QoS 2 publishes as the receive maximum
   every further publisher is queued for ever.  The README (line 37) says "A
   reusable_publisher can be used multiple times."  The same leak follows a refusal in
   PUBREC; `QuotaAccounted` gives the exact balance.
2. **A Server Keep Alive of 0 is not heeded** (`MCConnectionKeepAlive`).  client 521
   takes 0 for absent; client 305–307 says that `get_actual_keep_alive` "will always
   reflect what is used by both server and client".

Noticed while modelling, contradicted by nothing the repository states, and
therefore no findings (nearly all are in "hazards"): QoS 2 messages never give back receive
quota; a lost connection leaves the state machine in `connected`; without a keep
alive the handshake timer is never retired; handshakers of a failed handshake are not
told; CONNACK's reason code is not looked at; any error reported by a read
or a write ends the program; the read buffer outlives a connection; a packet with a
subscription identifier cannot be written and is misread; the user properties of a PUBLISH are
written twice, those of a last will not at all; three of the option structs count as
modifiers of a message they cannot modify; a message expiry interval is read through
16 bits; the length of a string of more than 65,535 bytes wraps; `clean_start` is sent
inverted; writes that overlap may tear each other's packets; a keep alive of one second
pings without a pause; connect options replaced during a handshake are taken for those
the CONNECT carried.  Nor is anybody told whose publish, request or wait was pending when the
connection was lost; the progress properties end there.

One more is contradicted by comments but has no run of its own, since `ValidIsKept` shows how
far it goes: an invalid filter passes the assertions of `topic_filter`, and does so only if its
last level is empty.  Without that exception TLC refutes the property with `#/`.

## 5. Proofs

Every theorem holds for all values of the constants that satisfy the ASSUMEs of its module:
any number of publishes, messages, receivers or requests, any receive maximum, any keep
alive, any order of events.  In each module one inductive invariant carries the rest.  Its
theorem is called `Inductive`; it is proved with one lemma per action, and the properties
follow from it.  TLC checked each of these invariants on the instance of its run, and some
on larger ones, before they were proved.

### PublishProofs: any server

| theorem | property |
|---|---|
| `TypeCorrect` | `[]TypeOK` |
| `OrderCorrect` | `[]SentInOrder` |
| `QueueCorrect` | `[]QueueOnlyWithoutQuota` |
| `GrantCorrect` | `[]QuotaWithinGrant` |
| `WindowCorrect` | `[]WindowRespected` |
| `QuotaCorrect` | `[]QuotaAccounted` |
| `HeldCorrect` | `[]PendingHeldOnce` |
| `FateCorrect` | `FateIsFinal` |
| `ContractCorrect` | `Spec => ImplementsContract` |

`IInv` is `TypeOK` and

- `OrderInv`: what was sent and what is queued are, pointwise, the first, second, ...
  publish.  `SentInOrder` says the same of whole sequences, which is what a reader wants
  and what a prover does not;
- `HeldInv`: an entry in flight was sent and is pending, no publish is in flight
  twice, what was not sent is pending.  `FateIsFinal` rests on it: a handler
  tells the receiver of the entry it erases;
- `EarlyInv`: before the CONNACK the unset quota pays for the early publishes.
  It makes the queue empty until the CONNACK, without which
  `QueueOnlyWithoutQuota` would not survive a CONNACK that raises the quota;
- `QuotaInv`: the quota properties, none of which is inductive without the others.

`HeldCorrect` adds `CoverInv`: a publish that was sent and is pending is in flight.  With
`HeldInv`, the two sets that `PendingHeldOnce` counts are empty or have one element.
`ContractCorrect` maps every step to a step of `PublisherContract` or to a stutter, given `IInv`.
`SentInOrder`, `QuotaWithinGrant` and `FateIsFinal` have no run of their own:
`ImplementsContract` and `QuotaAccounted` cover them on the instance.

### PublishProofs: a server that follows the protocol

| theorem | property |
|---|---|
| `SessionInductive` | `[]SessionIInv` |
| `ServerWindowCorrect` | `[]ServerWindow` |
| `NotCutOffCorrect` | `[]NotCutOff` |
| `AckCorrect` | `AckFinishesItsPublish` |

Identifiers are used again while they are in use, so nothing can be said about an
identifier that is not a matter of counting.  What is still to be said about a publish goes
round as one *token*: a PUBLISH or PUBREL on the wire, a duty of the server, an
acknowledgement under way.  Apart from a token there may be an exchange that awaits its
PUBREL.  `SessionIInv` is `IInv` of the publish flow, the types, and

- `TokenInv`: for every identifier there are at most as many tokens as publishes in flight;
  and, up to an acknowledgement of the wrong kind, at most as many of QoS 2 as publishes of
  QoS 2.  An acknowledgement therefore always finds a publish, and no PUBREL is sent for an unknown one;
- `AwaitInv`: at most as many exchanges await a PUBREL as PUBRELs and PUBRECs with their
  identifier are under way, one apart while the client is about to close over a PUBREC of
  the wrong kind.  The server then finds an exchange for every PUBREL;
- `LoadInv`: what the server has to answer or will have to fits what it granted, less what
  the client may still send (`Room`).  With `AwaitInv` this bounds all exchanges, `ServerWindow`:
  those that await a PUBREL are counted once, by the packet that brings it;
- `SharedInv` and `OwnInv`: two publishes in flight with one identifier are in `shared`, and every token with
  the identifier of one that is not is about that publish and of its QoS.  `NotCutOff` and
  `AckFinishesItsPublish` follow from it, one step at a time (`FateStep`);
- `ClosedWindow`: after a close, the server's exchanges stay as they were.

The steps of the session are first reduced to six events (`SessionEvents`: nothing the counts
see, a publish goes, an acknowledgement finishes one or releases it, a packet arrives, the
server answers), and every part of the invariant is shown for each of these.  TLC checked all parts
on the instance of `MCPublishSession` and on one of 655,835 states.

### PublishProofs: packet identifiers

| theorem | property |
|---|---|
| `IdentifiersInductive` | `[]IdentifierIInv` |
| `SharingCorrect` | `[]SharedOnlyByQos2` |

Nothing in the client looks whether an identifier is in use; they are drawn in turn from 1 to
`U16Max`.  Two publishes in flight then have the same one only if as many draws as there are
identifiers lie between them.  `IdentifierIInv` adds to `SessionIInv`

- `ApartInv`: how many draws ago a publish that waits or is in flight drew its identifier, as long as
  the generator has not gone round; and that publishes fewer draws apart than there are identifiers have
  different ones, which survives the generator going round;
- `InOrderInv`: publishes are in flight in the order in which they went;
- `SpanInv`: the publishes that went since a QoS 1 publish in flight, itself included, and the quota
  left fit what was granted.  A publish that finishes gives a unit of quota back, so this stays true only if
  none that finishes has a QoS 1 publish ahead of it;
- `TurnInv`: they do not.  What is on the wire, what the server has to
  acknowledge and what PUBACKs are under way are three queues of the same QoS 1 publishes, each in
  order, and together exactly those in flight (`PairedInv`).

The first two bound nothing without the third, and the third needs that a PUBACK finds the
publish it is for and not one behind it with the same identifier, which is the property itself: the four
are inductive together.  The hypothesis `Ample` (the socket is open, and the window and the
requests leave identifiers enough) is that of the property; TLC finds it violated without.

### ReceiveProofs

| theorem | property |
|---|---|
| `TypeCorrect` | `[]TypeOK` |
| `StoredCorrect` | `[]StoredOnce` |
| `DeliveredCorrect` | `[]DeliveredOnce` |
| `QuotaCorrect` | `[]ReceiveQuotaAccounted` |
| `WaitersCorrect` | `[]WaitersServed` |
| `Qos2Correct` | `SessionSpec => []Qos2Once` |
| `AcknowledgedCorrect` | `SessionSpec => []AcknowledgedMeansDelivered` |
| `AccusedCorrect` | `SessionSpec => []NotAccused` |

The first five are about `ReceiveFlow`, whatever the server sends.  `IInv` is `TypeOK` and

- `KeptInv`: kept and handed-out messages are different arrivals, and the identifiers of
  what is kept are different, so that PUBREL finds the entry it means;
- `QuotaInv`: the balance of the receive quota between the maxima seen, the one in the options
  being one of them (a new one only widens the range), and that before the CONNACK nothing is
  written or charged: the CONNACK handler sets the quota whatever it was;
- `WaitersInv`: who waits under which filter, as a function of what was delivered since
  it started.

With a server that follows the protocol, `SessionIInv` (theorem `SessionInductive`) adds

- `MessageInv`: packets, kept messages and exchanges are about published messages, so
  that a message is determined by its number;
- `ClientInv`: a message that was handed on is not under way again; where a PUBREL
  is ahead of a PUBLISH with its identifier, it belongs to an earlier exchange and nothing
  of the message has arrived.  This is what makes an identifier safe to use again;
- `ExchangeInv`: the server has one exchange per identifier, and a PUBLISH under way belongs
  to one;
- on an open socket `ReplyInv`: which answers may be under way for an exchange in each of its
  stages, and in which order.  What the client is writing and what is under
  way are one queue for it, since they do not overtake each other.  After a close answers
  are lost and only the rest is needed;
- `WindowInv`: the exchanges fit the announced receive maximum, and the client's quota is at least
  what of them has not arrived.  On an open socket the latter follows from the balance of the quota;
  after it closes, what the client had read is still handled while its answers go nowhere, so it is
  an invariant of its own, by an injection from messages under way to units of quota.

TLC checked `SessionIInv` on 1,001,636 states of the instance of `MCReceiveSession`.

### ConnectionProofs

| theorem | property |
|---|---|
| `TypeCorrect` | `[]TypeOK` |
| `RegionsCorrect` | `[]RegionsInStep` |
| `ReaderCorrect` | `[]OneReader` |

`IInv` is `TypeOK`, `RegionsInStep` and `ReaderInv`: at most one packet or end of a read is
queued, none while a read is pending, and none is left when a new connection starts to
read.  `RegionsInStep` is not inductive alone: a packet of an earlier connection, dispatched
after a reconnection, would start a second read.

### KeepAliveProofs

| theorem | property |
|---|---|
| `TypeCorrect` | `[]TypeOK` |
| `SpeechCorrect` | `[]SpeaksInTime` |
| `SilenceCorrect` | `[]SilenceBounded` |
| `EndCorrect` | `[]EndedForAReason` |
| `PaceCorrect` | `[]PingsPaced` |

The argument adds what has passed to what is left: the seconds since the client spoke and the
ping timer (`PingInv`), those since the peer spoke and the keep alive timer (`SilenceInv`), those of
the handshake and its timer (`HandshakeInv`).  `ReasonInv` says when an expiry that is still queued can have been
queued, and `AnswerInv` that whatever brings the next packet of a peer that answers (a packet
queued, a question it owes an answer to, the ping timer, an expired ping timer) comes before
the keep alive ends.  `EndInv` remembers it.  `AnswerTime` must be positive (`TimesAssumption`): a peer that
answers in no time at all would, with a keep alive of one second on a clock of whole seconds, be
dropped between two pings of the same second, and TLC shows it.

### RequestsProofs

| theorem | property |
|---|---|
| `TypeCorrect` | `[]TypeOK` |
| `HeldCorrect` | `[]PendingHeldOnce` |
| `AnswerCorrect` | `AnswerReachesItsRequest` |

`MadeInv` says which identifier a request drew: `IsDrawn` counts back from the generator, as
long as it has not gone round.  `IdInv` says that two requests fewer draws apart
than there are identifiers have different ones; unlike `MadeInv` it survives the generator going round, and
`AnswerReachesItsRequest` is a consequence of it and of the search from the front.  `HeldInv` is
the order and the completeness of the two lists.

### TopicFilterProofs

| theorem | property |
|---|---|
| `TextsRead` | `[]TextInv` |
| `ValidKept` | `[]ValidIsKept` |
| `MatchingCorrect` | `[]MatchesWhatFits` |

`Parse` is a fold over the characters of a text and `Text` one over its levels.  A fold is unrolled:
that the function it is the last value of exists is an induction, and what one
character or one level more does follows (`ParseAppend`, `CatAppend`).  The induction is over the
natural numbers, of which the provers can apply the rule to a set (`SetInduction`) though not to a
predicate.  `TextInv` says of the filter and of the name that their levels print as
the text and that the first level begins as the text does: a character more, or a separator, keeps both
(`SplitPrints`, `SplitFirst`).  `ValidKept` is then a matter of the assertions, and `MatchingCorrect`
compares both definitions level by level, for a filter that ends with `#` against every number of levels
it can stand for (`ExpandedLevels`).

### FramingProofs

| theorem | property |
|---|---|
| `LengthReadsBack`, `PacketReadsBack` | a length, and a body, say what they were written for |
| `FramingInductive` | `[]IInv` |
| `BytesCorrect` | `[]NoByteLost` |
| `NothingHeldBackCorrect` | `[]NothingHeldBack` |

These hold for every base above 1, every number of digits, every set of layouts and packets, and any
number of packets, cuts and connections.  The first half of the module is about bytes.
`Digits`, `Power` and `FixedInt` are recursive functions: that there is a function with the given
equation is proved once (`RecursionExists`), for definitions that go back to a lower number.  `Value`,
`IntegerOf` and `Deserialize` are folds, unrolled like those of `TopicFilter`.  By induction over
digits, bytes and fields it follows that each reads back what was written, and, what the
stream needs, that it does so with anything behind it: a length is there as soon as its last
digit is and never before (`LengthIsThere`, `LengthComes`).

The second half is the invariant.  `IInv` is the types and

- `ReadInv`: with the socket open, nothing stale and nothing torn, the packets read so far, in bytes, then what is in hand
  of the next one, the buffer, the wire and what the writers have left are together the packets sent
  (`StreamIs`); and the reader in the middle of a packet has that packet's type and length (`ReaderIs`).
  `NoByteLost` says this of the packets as they came out, which is the same if they all can be understood;
- `CallsInv`: no writer has two calls; every call carries a part of its packet that is not empty; and
  the packets of which nothing was written yet are the last ones sent, their calls in that order and behind
  those for the rest of others.  Without it the bytes of the oldest call need not be the next ones: if another
  writer before it had something left, that packet would be in the middle, and so torn
  (`NothingBefore`), or untouched, and so behind it;
- `SentInv`: only the last packet sent can be one that is not understood, since what reads it may fail;
- `ClosedInv`: on a closed socket nothing is under way, so that a new connection begins with an empty stream.

A step then moves bytes from one part of the stream to the next.  `WriteSome` is the hard one, `ReadHeader`
and `ReadBody` cut a packet off the front: since the stream goes on with the encoding of the next packet
(`NextPacket`), what the header and the body are found to be is what that packet has (`HeaderMoves`,
`BodyMoves`).

### Assumptions

`PublishFlow`: `U16Max` is positive (`U16MaxAssumption`), quotas fit (`QuotaAssumption`),
QoS is 1 or 2 (`QosAssumption`), bounds are naturals (`BoundsAssumption`), and fewer than
`UnsetQuota` publishes precede the CONNACK (`EarlyAssumption`).  The other modules assume
of their constants that sets are what they are named for, bounds naturals and times positive.
`Framing` assumes that packets have fields of values their kinds can have, in the order of the layout of
their type, that what takes all the bytes left comes last (`LayoutsAssumption`, `PacketsAssumption`), and
that a body is no longer than a length can say (`LengthAssumption`): `serialize` throws otherwise.

### Only model-checked

- `Packets`, `ClientPackets`: what they check is a table of members, identifiers and flags against another one,
  with constants that list the tables of the program.  There is nothing more general to prove.
- Liveness, in every module: the provers have no rules for fairness and ENABLED.

## 6. Not modelled

- The contents of topics, payloads, strings and binary data: `Packets` and
  `ClientPackets` carry them as items, `Framing` counts their bytes.
- Bodies that are malformed: `Packets` shows when a field is misread, not what
  comes of it; `Framing` reads the fields of well-formed bodies only.
- A second connection that meets what an earlier one left behind (pending publishes,
  QoS 2 states, the read buffer).  `ConnectionSM` has the reconnection of the state
  machine, `PublishSession` and `ReceiveSession` last for one connection.
- p0443 senders, Asio, Beast, SML, span-lite: external.  The models take
  from them that completions are dispatched in the order they were posted.
- The resolver and the TCP connect of `socket_connector` other than their success.
- `transport/data_writer.hpp` is included by nothing.

## 7. What could be added

1. `Client`: connection, publishes and receives composed, with reconnection and what a
   lost connection leaves behind.
