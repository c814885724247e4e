---------------------------- MODULE ReceiveFlow -----------------------------
(***************************************************************************)
(* The receiving half of mqtt5::client: PUBLISH with QoS 0, 1 and 2, the   *)
(* messages kept until their PUBREL, the receive quota the client grants,  *)
(* and the receivers of filtered_subscriber that wait for a message.       *)
(*                                                                         *)
(* The client runs on one io_context thread, so a handler is one step.     *)
(* A receiver may subscribe again from inside set_value, as the loop       *)
(* `while(true) co_await client.filtered_subscriber(...)' does: such a     *)
(* receiver is in Loops, and it is back before the handler returns.        *)
(*                                                                         *)
(* The server is unconstrained here; ReceiveSession adds one that follows  *)
(* the protocol.  Topics and filters are related by the constant Matches:  *)
(* how topic_filter::matches decides is not a matter of this module.       *)
(***************************************************************************)
EXTENDS Integers, Sequences, SequencesExt, FiniteSets

CONSTANTS
    ReceiveMaxima,   \* receive maxima in the options of handshakers
    UnsetQuota,      \* receive maximum and quota before; 65535 in the program
    Ids,             \* packet identifiers the server uses
    Topics, Filters,
    Matches,         \* <<topic, filter>> for which matches() holds
    Receivers,       \* the operations filtered_subscriber makes
    FilterOf,        \* their filters
    Loops,           \* those that subscribe again when they are told
    QosLevels,       \* the qualities of service the server uses
    MaxHandshakers,  \* bound on the calls of handshaker(opts)
    MaxArrivals,     \* bound on the PUBLISH packets handled
    MaxOutgoing      \* bound on the writes under way when a PUBREL is handled

ASSUME QuotaAssumption == UnsetQuota \in Nat /\ ReceiveMaxima \subseteq 0 .. UnsetQuota
ASSUME WaitersAssumption ==
    /\ Matches \subseteq Topics \X Filters
    /\ FilterOf \in [Receivers -> Filters]
    /\ Loops \subseteq Receivers
ASSUME QosAssumption == QosLevels \subseteq 0 .. 2
ASSUME BoundsAssumption ==
    MaxHandshakers \in Nat /\ MaxArrivals \in Nat /\ MaxOutgoing \in Nat

VARIABLES
    conn,          \* the connection state machine: idle, handshaking, connected
    open,          \* the socket is open
    receiveMaximum,  \* connect_opts_.receive_maximum
    announced,     \* the receive maximum in the CONNECT
    receiveQuota,  \* client_receive_quota_
    stored,        \* received_qos2_states_
    waiters,       \* publish_waiters_: the receivers_ of every filter_, in no order
    outgoing,      \* packets being written, oldest first
    handshakers,   \* history: the number of calls of handshaker(opts)
    replaced,      \* history: receive maxima that took the announced one's place
    arrivals,      \* history: the number of PUBLISH packets handled
    leaked,        \* history: those with QoS 2 that took quota
    delivered,     \* history: the calls of deliver_to_publish_waiters
    told,          \* history: the calls each receiver was told in, by their numbers
    since,         \* history: Len(delivered) when a receiver started, or -1
    excess         \* history: PUBLISH packets handled without quota

options == <<receiveMaximum, announced, handshakers, replaced>>
history == <<arrivals, leaked, delivered, told, since, excess>>
vars == <<conn, open, options, receiveQuota, stored, waiters, outgoing, history>>

\* A PUBLISH; `op' tells the messages of the server apart.
Publication == [op : Nat, qos : QosLevels, id : Ids, topic : Topics]
Answers == {"puback", "pubrec", "pubcomp"}
Answer(type, id) == [type |-> type, id |-> id]
DisconnectPacket == [type |-> "disconnect"]

TypeOK ==
    /\ conn \in {"idle", "handshaking", "connected"} /\ open \in BOOLEAN
    /\ receiveMaximum \in 0 .. UnsetQuota /\ announced \in 0 .. UnsetQuota
    /\ receiveQuota \in 0 .. UnsetQuota
    /\ stored \in Seq(Publication)
    /\ waiters \in [Filters -> SUBSET Receivers]
    /\ outgoing \in Seq([type : Answers, id : Ids] \cup {DisconnectPacket})
    /\ handshakers \in Nat /\ replaced \subseteq ReceiveMaxima
    /\ arrivals \in Nat /\ leaked \in Nat
    /\ delivered \in Seq(Publication)
    /\ told \in [Receivers -> Seq(Nat)]
    /\ since \in [Receivers -> {-1} \cup Nat]
    /\ excess \in Nat

Init ==
    /\ conn = "idle" /\ open = TRUE
    /\ receiveMaximum = UnsetQuota /\ announced = UnsetQuota
    /\ receiveQuota = UnsetQuota
    /\ stored = <<>>
    /\ waiters = [f \in Filters |-> {}]
    /\ outgoing = <<>>
    /\ handshakers = 0 /\ replaced = {}
    /\ arrivals = 0 /\ leaked = 0 /\ delivered = <<>>
    /\ told = [r \in Receivers |-> <<>>]
    /\ since = [r \in Receivers |-> -1]
    /\ excess = 0
-----------------------------------------------------------------------------
(* Parts of handlers.  Variants named ...Fault are not the program: each   *)
(* is what a likely slip in the definition below it would be, and a        *)
(* property rules it out.                                                  *)

\* What is written to a closed socket goes nowhere.
Write(packets) == outgoing' = IF open THEN outgoing \o packets ELSE outgoing

\* The receivers that subscribed again are lost with their group.
StillWaitingFault(f) == {}

\* A group that was told is erased; who subscribed again forms a new one.
StillWaiting(f) == waiters[f] \cap Loops

\* deliver_to_publish_waiters: the matching groups are taken out of
\* publish_waiters_ first, then every receiver in them is told.
Deliver(p) ==
    LET matched == {f \in Filters : <<p.topic, f>> \in Matches}
        called == {r \in Receivers : FilterOf[r] \in matched /\ r \in waiters[FilterOf[r]]} IN
    /\ delivered' = Append(delivered, p)
    /\ told' = [r \in Receivers |->
                 IF r \in called THEN Append(told[r], Len(delivered) + 1) ELSE told[r]]
    /\ waiters' = [f \in Filters |-> IF f \in matched THEN StillWaiting(f) ELSE waiters[f]]

DeliverNothing == UNCHANGED <<delivered, told, waiters>>

Known(id) == \E i \in DOMAIN stored : stored[i].id = id

\* Nobody looks for the identifier first.
StoreFault(p) == stored' = Append(stored, p)

\* A second PUBLISH with the identifier of a stored one is dropped.
Store(p) == stored' = IF Known(p.id) THEN stored ELSE Append(stored, p)

\* The stored message is handed out but not erased.
ReleaseFault(i) == UNCHANGED stored

\* The wrong entries are erased with it.
ReleaseAllFault(i) == stored' = <<>>

Release(i) == stored' = RemoveAt(stored, i)

\* The quota is taken without a look at what is left.
ChargeFault == receiveQuota' = receiveQuota - 1 /\ UNCHANGED excess

\* A PUBLISH without quota is counted, but handled like any other.
Charge ==
    \/ /\ receiveQuota > 0
       /\ receiveQuota' = receiveQuota - 1
       /\ UNCHANGED excess
    \/ /\ receiveQuota = 0
       /\ excess' = excess + 1
       /\ UNCHANGED receiveQuota

\* A sent PUBACK returns no quota.
RestoreFault == UNCHANGED receiveQuota

\* puback_sent_handler: the limit is that of the latest options.
Restore ==
    receiveQuota' = IF conn = "connected" /\ receiveQuota < receiveMaximum
                    THEN receiveQuota + 1 ELSE receiveQuota

\* DISCONNECT with quota_exceeded goes out ahead of the answer.
Complaint == IF receiveQuota = 0 THEN <<DisconnectPacket>> ELSE <<>>
-----------------------------------------------------------------------------
(* The user *)

\* filter_subscribe_sender::operation::start.
Subscribe(r) ==
    /\ since[r] = -1
    /\ since' = [since EXCEPT ![r] = Len(delivered)]
    /\ waiters' = [waiters EXCEPT ![FilterOf[r]] = @ \cup {r}]
    /\ UNCHANGED <<conn, open, options, receiveQuota, stored, outgoing,
                   arrivals, leaked, delivered, told, excess>>

\* The quota is replaced with the options, whatever of it is in use.
HandshakerFault(m) ==
    /\ handshakers < MaxHandshakers
    /\ handshakers' = handshakers + 1
    /\ receiveMaximum' = m
    /\ receiveQuota' = m
    /\ replaced' = IF conn = "idle" THEN replaced ELSE replaced \cup ({m} \ {announced})
    /\ UNCHANGED <<conn, open, announced, stored, waiters, outgoing, history>>

\* handshaker(opts) takes the place of the options at once, whatever is under
\* way; its sender may be started then, later or never.
Handshaker(m) ==
    /\ handshakers < MaxHandshakers
    /\ handshakers' = handshakers + 1
    /\ receiveMaximum' = m
    /\ replaced' = IF conn = "idle" THEN replaced ELSE replaced \cup ({m} \ {announced})
    /\ UNCHANGED <<conn, open, announced, receiveQuota, stored, waiters, outgoing, history>>

\* A handshaker's operation is started: send_connect.
StartHandshake ==
    /\ conn = "idle" /\ open
    /\ handshakers > 0
    /\ conn' = "handshaking"
    /\ announced' = receiveMaximum
    /\ UNCHANGED <<open, receiveMaximum, handshakers, replaced, receiveQuota, stored,
                   waiters, outgoing, history>>

\* client::close(): the writes under way are cancelled.
Close ==
    /\ open
    /\ open' = FALSE
    /\ outgoing' = <<>>
    /\ UNCHANGED <<conn, options, receiveQuota, stored, waiters, history>>
-----------------------------------------------------------------------------
(* The handlers *)

\* handle_packet(connack).
HandleConnack ==
    /\ conn = "handshaking"
    /\ conn' = "connected"
    /\ receiveQuota' = receiveMaximum
    /\ UNCHANGED <<open, options, stored, waiters, outgoing, history>>

\* handle_packet(publish).
HandlePublish(p) ==
    /\ conn = "connected"
    /\ arrivals < MaxArrivals
    /\ arrivals' = arrivals + 1
    /\ leaked' = IF p.qos = 2 /\ receiveQuota > 0 THEN leaked + 1 ELSE leaked
    /\ UNCHANGED <<conn, open, options, since>>
    /\ \/ /\ p.qos = 0
          /\ Deliver(p)
          /\ UNCHANGED <<receiveQuota, stored, outgoing, excess>>
       \/ /\ p.qos = 1
          /\ Charge
          /\ Write(Append(Complaint, Answer("puback", p.id)))
          /\ Deliver(p)
          /\ UNCHANGED stored
       \/ /\ p.qos = 2
          /\ Charge
          /\ Store(p)
          /\ Write(Append(Complaint, Answer("pubrec", p.id)))
          /\ DeliverNothing

\* handle_packet(pubrel): PUBCOMP is sent whether the identifier is known or
\* not.  The quota the PUBLISH took is not given back.
HandlePubrel(id) ==
    /\ conn = "connected"
    /\ Write(<<Answer("pubcomp", id)>>)
    /\ \/ \E i \in DOMAIN stored :
            /\ stored[i].id = id
            /\ Release(i)
            /\ Deliver(stored[i])
       \/ /\ ~Known(id)
          /\ DeliverNothing
          /\ UNCHANGED stored
    /\ UNCHANGED <<conn, open, options, receiveQuota, arrivals, leaked, since, excess>>

\* The oldest write completes.  After PUBACK that is puback_sent_evt, after
\* DISCONNECT it is close(), which cancels the writes behind it.
WriteCompletes ==
    /\ outgoing # <<>>
    /\ \/ /\ Head(outgoing).type = "disconnect"
          /\ open' = FALSE
          /\ outgoing' = <<>>
          /\ UNCHANGED receiveQuota
       \/ /\ Head(outgoing).type = "puback"
          /\ outgoing' = Tail(outgoing)
          /\ Restore
          /\ UNCHANGED open
       \/ /\ Head(outgoing).type \in {"pubrec", "pubcomp"}
          /\ outgoing' = Tail(outgoing)
          /\ UNCHANGED <<open, receiveQuota>>
    /\ UNCHANGED <<conn, options, stored, waiters, history>>

Next ==
    \/ \E r \in Receivers : Subscribe(r)
    \/ \E m \in ReceiveMaxima : Handshaker(m)
    \/ StartHandshake \/ Close \/ HandleConnack \/ WriteCompletes
    \/ \E qos \in QosLevels, id \in Ids, topic \in Topics :
        HandlePublish([op |-> arrivals + 1, qos |-> qos, id |-> id, topic |-> topic])
    \/ \E id \in Ids : Len(outgoing) < MaxOutgoing /\ HandlePubrel(id)

Spec == Init /\ [][Next]_vars
-----------------------------------------------------------------------------
(* Properties *)

\* No message is kept twice, nor is one kept that was handed out already: a
\* PUBREL finds at most the one message it is about.
StoredOnce ==
    /\ \A i, j \in DOMAIN stored : i # j => stored[i].id # stored[j].id
    /\ \A i \in DOMAIN stored, j \in DOMAIN delivered : stored[i].op # delivered[j].op

\* No PUBLISH is handed to the waiters twice, however often the server sends
\* PUBREL: the entry is erased before its receivers are told.
DeliveredOnce ==
    \A i, j \in DOMAIN delivered : i # j => delivered[i].op # delivered[j].op

Pubacks(s) == Cardinality({i \in DOMAIN s : s[i].type = "puback"})

\* The receive maxima of the CONNECT and of the options that took its place.
MaximaSeen == {announced} \cup replaced

\* The receive quota: until one PUBLISH too many arrives, what is left of it,
\* what PUBACKs still have to give back and one unit for every QoS 2 PUBLISH,
\* which nothing gives back, make up the receive maximum.  If a handshaker
\* replaced the options meanwhile, they stay between the smallest and the
\* largest of those the client has had since the CONNECT.
ReceiveQuotaAccounted ==
    conn = "connected" /\ open /\ excess = 0 =>
        LET granted == receiveQuota + Pubacks(outgoing) + leaked IN
        /\ \E m \in MaximaSeen : m <= granted
        /\ \E m \in MaximaSeen : granted <= m

\* What a receiver was due: the calls with a matching message since it started.
Due(r) ==
    {n \in since[r] + 1 .. Len(delivered) : <<delivered[n].topic, FilterOf[r]>> \in Matches}

Earliest(calls) == {n \in calls : \A m \in calls : n <= m}

\* A receiver hears the first message that matches after it subscribed, once;
\* one that always subscribes again misses none and hears none twice, whoever
\* else shares its filter or waits for the same message.
WaitersServed ==
    \A r \in Receivers : since[r] >= 0 =>
        /\ ToSet(told[r]) = IF r \in Loops THEN Due(r) ELSE Earliest(Due(r))
        /\ \A i, j \in DOMAIN told[r] : i < j => told[r][i] < told[r][j]
=============================================================================
