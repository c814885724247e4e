---------------------------- MODULE PublishFlow ----------------------------
(***************************************************************************)
(* The sending half of mqtt5::client: publishers, packet identifiers, the  *)
(* send quota the server grants, the queue of publishes that wait for      *)
(* quota, the publishes in flight, and the handlers of CONNACK, PUBACK,    *)
(* PUBREC and PUBCOMP.                                                     *)
(*                                                                         *)
(* The client runs on one io_context thread, so a handler is one step.     *)
(* There is one exception: PUBACK, and a PUBREC for a QoS 1 publish, call  *)
(* the publisher's receiver in their middle, and what the receiver does    *)
(* (typically: publish again) happens before the rest of the handler.      *)
(* `handler' says that the program is inside that call.                    *)
(*                                                                         *)
(* The server is unconstrained here: any acknowledgement with any          *)
(* identifier may be handled whenever the client is connected.  What a     *)
(* server that follows the protocol adds is in PublishSession.             *)
(***************************************************************************)
EXTENDS Integers, Sequences, SequencesExt, FiniteSets

CONSTANTS
    U16Max,         \* largest std::uint16_t; 65535 in the program
    UnsetQuota,     \* both send quotas before any CONNACK; 65535 in the program
    ReceiveMaxima,  \* the receive_maximum values a CONNACK may carry
    QosLevels,      \* the qualities of service above 0 that publishers use
    MaxPublishes,   \* bound on the number of publishes with QoS 1 or 2
    MaxEarly,       \* bound on those made before the CONNACK
    MaxRequests,    \* bound on the subscribes and unsubscribes
    MaxSpurious,    \* bound on the PUBACKs that match nothing in flight
    MaxQos0,        \* bound on the number of publishes with QoS 0
    MaxWire         \* bound on the packets in the way of a publish or a PUBREL

ASSUME U16MaxAssumption == U16Max \in Nat /\ U16Max > 0
ASSUME QuotaAssumption == UnsetQuota \in 1 .. U16Max /\ ReceiveMaxima \subseteq 0 .. U16Max
ASSUME QosAssumption == QosLevels \subseteq {1, 2}
ASSUME BoundsAssumption ==
    /\ MaxPublishes \in Nat /\ MaxRequests \in Nat
    /\ MaxSpurious \in Nat /\ MaxQos0 \in Nat /\ MaxWire \in Nat
\* Fewer publishes precede the CONNACK than the unset quota admits.
ASSUME EarlyAssumption == MaxEarly \in Nat /\ MaxEarly < UnsetQuota

VARIABLES
    connected,   \* the connection state machine is in `connected'
    open,        \* the socket is open
    nextId,      \* packet_identifier_generator_t::next_
    maxQuota,    \* server_max_send_quota_
    quota,       \* server_send_quota_
    queue,       \* queued_publishes_
    inflight,    \* published_messages_
    handler,     \* "none", or the handler a receiver is being called from
    wire,        \* packets handed to the socket, oldest first
    sent,        \* history: the publishes handed to the socket, in order
    outcome,     \* history: outcome[n] is what the n-th publish's receiver was told
    qos0,        \* history: number of publishes with QoS 0
    requests,    \* history: number of subscribes and unsubscribes
    early,       \* history: publishes sent before the CONNACK
    leaked,      \* history: exchanges that ended and returned no quota
    spurious     \* history: PUBACKs that matched nothing in flight

history == <<sent, outcome, qos0, requests, early, leaked, spurious>>
vars == <<connected, open, nextId, maxQuota, quota, queue, inflight, handler, wire, history>>

U16 == 0 .. U16Max
Increment(n) == IF n = U16Max THEN 0 ELSE n + 1
Decrement(n) == IF n = 0 THEN U16Max ELSE n - 1

\* A publish: `op' is its number in the order the publishers were started.
Message == [op : 1 .. MaxPublishes, qos : QosLevels, id : U16]
States == {"waiting_puback", "waiting_pubrec", "waiting_pubcomp"}
InFlight == [op : 1 .. MaxPublishes, qos : QosLevels, id : U16, state : States]
Outcomes == {"pending", "completed", "rejected", "done"}
Handlers == {"none", "puback", "puback_mismatch", "pubrec_mismatch"}

PublishPacket(m) == [type |-> "publish", op |-> m.op, qos |-> m.qos, id |-> m.id]
PubrelPacket(id, known) == [type |-> "pubrel", id |-> id, known |-> known]
Packet ==
    [type : {"publish"}, op : 0 .. MaxPublishes, qos : {0} \cup QosLevels, id : U16]
    \cup [type : {"pubrel"}, id : U16, known : BOOLEAN]

TypeOK ==
    /\ connected \in BOOLEAN /\ open \in BOOLEAN
    /\ nextId \in 1 .. U16Max
    /\ maxQuota \in U16 /\ quota \in U16
    /\ queue \in Seq(Message)
    /\ inflight \in Seq(InFlight)
    /\ handler \in Handlers
    /\ wire \in Seq(Packet)
    /\ sent \in Seq(1 .. MaxPublishes)
    /\ outcome \in Seq(Outcomes)
    /\ qos0 \in Nat /\ requests \in Nat /\ early \in Nat /\ leaked \in Nat /\ spurious \in Nat
-----------------------------------------------------------------------------
Init ==
    /\ connected = FALSE /\ open = TRUE
    /\ nextId = 1
    /\ maxQuota = UnsetQuota /\ quota = UnsetQuota
    /\ queue = <<>> /\ inflight = <<>>
    /\ handler = "none"
    /\ wire = <<>>
    /\ sent = <<>> /\ outcome = <<>>
    /\ qos0 = 0 /\ requests = 0 /\ early = 0 /\ leaked = 0 /\ spurious = 0

\* Variants named ...Fault are not the program: each is what a likely slip in
\* the definition below it would be, and a property below rules it out.

\* The generator does not skip 0.
IdentifierZeroFault == nextId' = Increment(nextId)

\* packet_identifier_generator_t::operator(): 1 follows the largest identifier.
TakeIdentifier ==
    nextId' = IF Increment(nextId) = 0 THEN 1 ELSE Increment(nextId)

\* send_message: what is written to a closed socket goes nowhere.  A handler
\* that closes the socket does so before it sends.
SendMessage(p) ==
    wire' = IF open' THEN Append(wire, p) ELSE wire

\* The member initializer of in_flight_publish::state_ is never overridden.
FirstStateFault(qos) == "waiting_puback"

FirstState(qos) == IF qos = 2 THEN "waiting_pubrec" ELSE "waiting_puback"

\* start_fn that does not pay for the publish.
StartPublishFreeFault(m, q) ==
    /\ quota' = q
    /\ SendMessage(PublishPacket(m))
    /\ inflight' = Append(inflight, [op |-> m.op, qos |-> m.qos, id |-> m.id,
                                     state |-> FirstState(m.qos)])
    /\ sent' = Append(sent, m.op)

\* start_fn of publish_sender, run with q as the value of server_send_quota_.
StartPublish(m, q) ==
    /\ quota' = Decrement(q)
    /\ SendMessage(PublishPacket(m))
    /\ inflight' = Append(inflight, [op |-> m.op, qos |-> m.qos, id |-> m.id,
                                     state |-> FirstState(m.qos)])
    /\ sent' = Append(sent, m.op)

\* publish_sender::operation::start with QoS 0: sent at once, nothing is kept.
PublishQos0 ==
    /\ qos0 < MaxQos0
    /\ qos0' = qos0 + 1
    /\ UNCHANGED open
    /\ SendMessage(PublishPacket([op |-> 0, qos |-> 0, id |-> 0]))
    /\ UNCHANGED <<connected, nextId, maxQuota, quota, queue, inflight, handler,
                   sent, outcome, requests, early, leaked, spurious>>

\* publish_sender::operation::start with QoS 1 or 2.  The identifier is taken
\* before it is known whether the publish is sent or queued.
Publish(qos) ==
    LET m == [op |-> Len(outcome) + 1, qos |-> qos, id |-> nextId] IN
    /\ Len(outcome) < MaxPublishes
    /\ Len(wire) < MaxWire
    /\ connected \/ early < MaxEarly
    /\ UNCHANGED <<connected, open, maxQuota, handler, qos0, requests, leaked, spurious>>
    /\ TakeIdentifier
    /\ outcome' = Append(outcome, "pending")
    /\ early' = IF connected THEN early ELSE early + 1
    /\ \/ /\ quota > 0
          /\ StartPublish(m, quota)
          /\ UNCHANGED queue
       \/ /\ quota = 0
          /\ queue' = Append(queue, m)
          /\ UNCHANGED <<quota, inflight, wire, sent>>

\* subscribe_sender and unsubscribe_sender draw from the same identifiers.
TakeRequestIdentifier ==
    /\ requests < MaxRequests
    /\ requests' = requests + 1
    /\ TakeIdentifier
    /\ UNCHANGED <<connected, open, maxQuota, quota, queue, inflight, handler, wire,
                   sent, outcome, qos0, early, leaked, spurious>>
-----------------------------------------------------------------------------
(* The handlers *)

\* handle_packet(connack): both quotas are set, whatever is already in flight.
HandleConnack(receiveMaximum) ==
    /\ ~connected
    /\ connected' = TRUE
    /\ maxQuota' = receiveMaximum
    /\ quota' = receiveMaximum
    /\ UNCHANGED <<open, nextId, queue, inflight, handler, wire, history>>

\* Acknowledgements are taken to arrive in the order of the publishes.
IsFirstFault(i, id) == i = 1

\* std::find_if over published_messages_.
IsFirst(i, id) ==
    /\ inflight[i].id = id
    /\ \A j \in 1 .. i - 1 : inflight[j].id # id

Unknown(id) == \A i \in DOMAIN inflight : inflight[i].id # id

\* The entry is not erased.
FinishFault(i, o) ==
    /\ outcome' = [outcome EXCEPT ![inflight[i].op] = o]
    /\ UNCHANGED inflight

\* The entry is erased, and its receiver told o.
Finish(i, o) ==
    /\ inflight' = RemoveAt(inflight, i)
    /\ outcome' = [outcome EXCEPT ![inflight[i].op] = o]

\* The queue is popped at the wrong end.
NewestFirstFault ==
    \/ (quota >= maxQuota \/ queue = <<>>) /\ UNCHANGED <<quota, queue, inflight, wire, sent>>
    \/ /\ quota < maxQuota
       /\ queue # <<>>
       /\ StartPublish(Last(queue), Increment(quota))
       /\ queue' = Front(queue)

\* The quota is returned but no queued publish is started.
OnlyCountFault ==
    /\ quota' = IF quota < maxQuota THEN Increment(quota) ELSE quota
    /\ UNCHANGED <<queue, inflight, wire, sent>>

MaybeSendQueuedPublish ==
    \/ /\ quota >= maxQuota
       /\ UNCHANGED <<quota, queue, inflight, wire, sent>>
    \/ /\ quota < maxQuota
       /\ queue = <<>>
       /\ quota' = Increment(quota)
       /\ UNCHANGED <<queue, inflight, wire, sent>>
    \/ /\ quota < maxQuota
       /\ queue # <<>>
       /\ StartPublish(Head(queue), Increment(quota))
       /\ queue' = Tail(queue)

\* handle_packet(puback) up to and including the call of the receiver.  What
\* the receiver publishes comes as Publish steps, then PubackReturn.
HandlePuback(id) ==
    /\ connected
    /\ handler = "none"
    /\ \E i \in DOMAIN inflight :
        /\ IsFirst(i, id)
        /\ \/ /\ inflight[i].state = "waiting_puback"
              /\ Finish(i, "completed")
              /\ handler' = "puback"
           \/ /\ inflight[i].state # "waiting_puback"
              /\ Finish(i, "done")
              /\ handler' = "puback_mismatch"
    /\ UNCHANGED <<connected, open, nextId, maxQuota, quota, queue, wire,
                   sent, qos0, requests, early, leaked, spurious>>

\* The rest of handle_packet(puback): close() after a mismatch, and in every
\* case maybe_send_queued_publish.
PubackReturn ==
    /\ handler \in {"puback", "puback_mismatch"}
    /\ handler' = "none"
    /\ open' = (open /\ handler # "puback_mismatch")
    /\ MaybeSendQueuedPublish
    /\ UNCHANGED <<connected, nextId, maxQuota, outcome, qos0, requests, early, leaked, spurious>>

\* handle_packet(puback) when no publish in flight has the identifier.
HandleUnknownPuback(id) ==
    /\ connected
    /\ handler = "none"
    /\ Unknown(id)
    /\ spurious < MaxSpurious
    /\ spurious' = spurious + 1
    /\ UNCHANGED <<connected, open, nextId, maxQuota, handler, outcome, qos0, requests, early, leaked>>
    /\ MaybeSendQueuedPublish

\* handle_packet(pubrec) with a reason code above no_matching_subscribers.
HandlePubrecError(id) ==
    /\ connected
    /\ handler = "none"
    /\ \E i \in DOMAIN inflight : IsFirst(i, id) /\ Finish(i, "rejected")
    /\ leaked' = leaked + 1
    /\ UNCHANGED <<connected, open, nextId, maxQuota, quota, queue, handler, wire,
                   sent, qos0, requests, early, spurious>>

\* handle_packet(pubrec) with a success code, for a publish that awaits it or
\* has already been released: the PUBREL is sent, or sent again.
HandlePubrec(id) ==
    /\ connected
    /\ handler = "none"
    /\ Len(wire) < MaxWire
    /\ UNCHANGED <<connected, open, nextId, maxQuota, quota, queue, handler, history>>
    /\ \E i \in DOMAIN inflight :
        /\ IsFirst(i, id)
        /\ inflight[i].state # "waiting_puback"
        /\ inflight' = [inflight EXCEPT ![i].state = "waiting_pubcomp"]
        /\ SendMessage(PubrelPacket(id, TRUE))

\* handle_packet(pubrec) for a QoS 1 publish, up to and including the call of
\* the receiver.
HandlePubrecMismatch(id) ==
    /\ connected
    /\ handler = "none"
    /\ \E i \in DOMAIN inflight :
        /\ IsFirst(i, id)
        /\ inflight[i].state = "waiting_puback"
        /\ Finish(i, "done")
    /\ handler' = "pubrec_mismatch"
    /\ leaked' = leaked + 1
    /\ UNCHANGED <<connected, open, nextId, maxQuota, quota, queue, wire,
                   sent, qos0, requests, early, spurious>>

\* The rest of handle_packet(pubrec) after a mismatch: close().
PubrecReturn ==
    /\ handler = "pubrec_mismatch"
    /\ handler' = "none"
    /\ open' = FALSE
    /\ UNCHANGED <<connected, nextId, maxQuota, quota, queue, inflight, wire, history>>

\* handle_packet(pubrec) when no publish in flight has the identifier.
HandleUnknownPubrec(id) ==
    /\ connected
    /\ handler = "none"
    /\ Unknown(id)
    /\ Len(wire) < MaxWire
    /\ UNCHANGED open
    /\ SendMessage(PubrelPacket(id, FALSE))
    /\ UNCHANGED <<connected, nextId, maxQuota, quota, queue, inflight, handler, history>>

\* handle_packet(pubcomp): the publish is finished in whatever state it is,
\* and the quota it took is not given back.  An unknown identifier is ignored.
HandlePubcomp(id) ==
    /\ connected
    /\ handler = "none"
    /\ \E i \in DOMAIN inflight : IsFirst(i, id) /\ Finish(i, "completed")
    /\ leaked' = leaked + 1
    /\ UNCHANGED <<connected, open, nextId, maxQuota, quota, queue, handler, wire,
                   sent, qos0, requests, early, spurious>>
-----------------------------------------------------------------------------
(* The transport *)

\* The oldest packet leaves.
Transmit ==
    /\ wire # <<>>
    /\ wire' = Tail(wire)
    /\ UNCHANGED <<connected, open, nextId, maxQuota, quota, queue, inflight, handler, history>>

\* client::close(), called by the user or by a timeout, or the peer hangs up.
Close ==
    /\ open
    /\ open' = FALSE
    /\ UNCHANGED <<connected, nextId, maxQuota, quota, queue, inflight, handler, wire, history>>

User == PublishQos0 \/ TakeRequestIdentifier \/ \E qos \in QosLevels : Publish(qos)

Return == PubackReturn \/ PubrecReturn

Handle(id) ==
    \/ HandlePuback(id) \/ HandleUnknownPuback(id)
    \/ HandlePubrec(id) \/ HandlePubrecError(id)
    \/ HandlePubrecMismatch(id) \/ HandleUnknownPubrec(id)
    \/ HandlePubcomp(id)

Next ==
    \/ User
    \/ \E rm \in ReceiveMaxima : HandleConnack(rm)
    \/ \E id \in U16 : Handle(id)
    \/ Return
    \/ Transmit \/ Close

Spec == Init /\ [][Next]_vars
-----------------------------------------------------------------------------
(* Properties *)

Ops(s) == [i \in DOMAIN s |-> s[i].op]

\* Publishes with QoS 1 and 2 reach the socket in the order in which their
\* publishers were started, none lost and none twice: what was sent followed
\* by what is queued is the first, the second, ... publish.  A receiver that
\* publishes from inside the PUBACK handler must not overtake the queue.
SentInOrder == sent \o Ops(queue) = [n \in 1 .. Len(outcome) |-> n]

\* A publish waits in queued_publishes_ only while there is no quota, so
\* that a later publisher finds no quota either and queues behind it.
QueueOnlyWithoutQuota == queue # <<>> => quota = 0

\* server_send_quota_ never exceeds what the server granted and never wraps
\* below zero, whatever the server acknowledges.
QuotaWithinGrant == quota <= maxQuota

\* Every publish whose receiver was not told its fate yet is in exactly one
\* place, once, from where a packet can finish it; no finished one is.
PendingHeldOnce ==
    \A n \in DOMAIN outcome :
        Cardinality({i \in DOMAIN queue : queue[i].op = n})
          + Cardinality({i \in DOMAIN inflight : inflight[i].op = n})
        = IF outcome[n] = "pending" THEN 1 ELSE 0

\* The unit of quota that the rest of a PUBACK handler will give back.
Returning == IF handler = "none" \/ handler = "pubrec_mismatch" THEN 0 ELSE 1

\* Flow control: the publishes in flight and the quota left never exceed the
\* receive maximum of the CONNACK, save for those sent before the CONNACK
\* and for PUBACKs the server made up.
WindowRespected ==
    connected => quota + Len(inflight) + Returning <= maxQuota + early + spurious

\* The accounting of the quota: with no publish before the CONNACK and no
\* made-up PUBACK, what is left of the receive maximum is what is in flight
\* plus one unit for every exchange that did not end with a PUBACK.
QuotaAccounted ==
    connected /\ early = 0 /\ spurious = 0 =>
        quota + Len(inflight) + Returning + leaked = maxQuota

\* A receiver is told its publish's fate at most once.
FateIsFinal ==
    [][\A n \in DOMAIN outcome : outcome[n] # "pending" => outcome'[n] = outcome[n]]_vars

\* The publishers keep the contract of PublisherContract, whatever the server
\* acknowledges: in order, one fate each, and only for what was handed over.
Contract == INSTANCE PublisherContract WITH
    handed <- sent, fate <- outcome, Fates <- Outcomes \ {"pending"}
ImplementsContract == Contract!Spec
=============================================================================
