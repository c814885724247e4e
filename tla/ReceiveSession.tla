--------------------------- MODULE ReceiveSession ---------------------------
(***************************************************************************)
(* ReceiveFlow composed with a server that follows the MQTT 5 protocol,    *)
(* over one connection that delivers packets in order.  The server is not  *)
(* part of the repository: it is modelled from what the handlers of        *)
(* mqtt5::client expect of it.                                             *)
(*                                                                         *)
(* The server keeps within the receive maximum of the CONNECT, uses an     *)
(* identifier for one exchange at a time, and in a QoS 2 exchange may send *)
(* the PUBLISH or the PUBREL again while it has not seen the answer.       *)
(*                                                                         *)
(* A write completes when its packet has left; the completion is in the    *)
(* queue of the io_context before any answer to the packet can be.         *)
(***************************************************************************)
EXTENDS ReceiveFlow

CONSTANTS
    MaxMessages,  \* bound on the messages the server publishes
    MaxResends,   \* bound on the packets it sends again
    MayClose      \* the connection may be closed

ASSUME SessionAssumption ==
    /\ MaxMessages \in Nat /\ MaxResends \in Nat /\ MayClose \in BOOLEAN
    /\ MaxArrivals >= MaxMessages + MaxResends

VARIABLES
    toClient,   \* packets on their way to the client, oldest first
    toServer,   \* packets on their way to the server, oldest first
    exchanges,  \* the server's unfinished exchanges
    published,  \* the messages the server has published, in order
    resends     \* packets sent again

server == <<exchanges, published, resends>>
sessionVars == <<vars, toClient, toServer, server>>

Publish(e) == [type |-> "publish", message |-> e.message]
Pubrel(id) == [type |-> "pubrel", id |-> id]

SessionInit ==
    /\ Init
    /\ toClient = <<>> /\ toServer = <<>>
    /\ exchanges = {} /\ published = <<>> /\ resends = 0
-----------------------------------------------------------------------------
(* The server *)

\* A new message.  With QoS 0 there is no exchange to remember.
ServerPublish(m) ==
    /\ open /\ conn # "idle"
    /\ Len(published) < MaxMessages
    /\ published' = Append(published, m)
    /\ LET e == [message |-> m, stage |-> "sent"] IN
        /\ toClient' = Append(toClient, Publish(e))
        /\ \/ /\ m.qos > 0
              /\ Cardinality(exchanges) < announced
              /\ \A f \in exchanges : f.message.id # m.id
              /\ exchanges' = exchanges \cup {e}
           \/ /\ m.qos = 0
              /\ UNCHANGED exchanges
    /\ UNCHANGED <<vars, toServer, resends>>

ServerResend(e) ==
    /\ open
    /\ e.message.qos = 2
    /\ resends < MaxResends
    /\ resends' = resends + 1
    /\ toClient' = Append(toClient, IF e.stage = "sent" THEN Publish(e) ELSE Pubrel(e.message.id))
    /\ UNCHANGED <<vars, toServer, exchanges, published>>

\* The exchanges an answer is about: QoS 1 ends with PUBACK, QoS 2 goes on
\* with PUBREL after PUBREC and ends with PUBCOMP.
Concerned(answer) ==
    {e \in exchanges :
        /\ e.message.id = answer.id
        /\ e.message.qos = IF answer.type = "puback" THEN 1 ELSE 2
        /\ answer.type = "pubcomp" => e.stage = "released"}

ServerReceive ==
    /\ open
    /\ toServer # <<>>
    /\ toServer' = Tail(toServer)
    /\ LET answer == Head(toServer)
           concerned == Concerned(answer) IN
        IF answer.type = "pubrec"
        THEN /\ exchanges' = (exchanges \ concerned)
                             \cup {[e EXCEPT !.stage = "released"] : e \in concerned}
             /\ toClient' = Append(toClient, Pubrel(answer.id))
        ELSE /\ exchanges' = exchanges \ concerned
             /\ UNCHANGED toClient
    /\ UNCHANGED <<vars, published, resends>>
-----------------------------------------------------------------------------
(* The client's steps *)

\* The server answers the CONNECT before it sends anything else.
ClientConnects ==
    /\ StartHandshake
    /\ toClient' = Append(toClient, [type |-> "connack"])
    /\ UNCHANGED <<toServer, server>>

ClientReceive ==
    /\ toClient # <<>>
    /\ LET p == Head(toClient) IN
        \/ p.type = "connack" /\ HandleConnack
        \/ p.type = "publish" /\ HandlePublish(p.message)
        \/ p.type = "pubrel" /\ HandlePubrel(p.id)
    /\ toClient' = Tail(toClient)
    /\ UNCHANGED <<toServer, server>>

ClientWrites ==
    /\ WriteCompletes
    /\ toServer' = IF open' THEN Append(toServer, Head(outgoing)) ELSE toServer
    /\ UNCHANGED <<toClient, server>>

\* What was already read from the socket is still dispatched after close().
Disconnect ==
    /\ MayClose
    /\ Close
    /\ \E n \in 0 .. Len(toClient) : toClient' = SubSeq(toClient, 1, n)
    /\ UNCHANGED <<toServer, server>>

SessionNext ==
    \/ \E qos \in QosLevels, id \in Ids, topic \in Topics :
        ServerPublish([op |-> Len(published) + 1, qos |-> qos, id |-> id, topic |-> topic])
    \/ \E e \in exchanges : ServerResend(e)
    \/ ServerReceive
    \/ ClientConnects \/ ClientReceive \/ ClientWrites \/ Disconnect
    \/ \E m \in ReceiveMaxima : Handshaker(m) /\ UNCHANGED <<toClient, toServer, server>>
    \/ \E r \in Receivers : Subscribe(r) /\ UNCHANGED <<toClient, toServer, server>>

SessionSpec == SessionInit /\ [][SessionNext]_sessionVars

\* The io_context runs every ready completion, the server answers what it
\* receives.  The user owes nothing and the server need not publish.
SessionFairness ==
    /\ WF_sessionVars(ServerReceive)
    /\ WF_sessionVars(ClientReceive)
    /\ WF_sessionVars(ClientWrites)

FairSession == SessionSpec /\ SessionFairness
-----------------------------------------------------------------------------
(* Properties *)

\* A QoS 2 message is handed to the waiters at most once, however often its
\* PUBLISH and its PUBREL arrive.
Qos2Once ==
    \A i, j \in DOMAIN delivered :
        delivered[i].qos = 2 /\ i # j => delivered[i].op # delivered[j].op

\* The server forgets a message only after the client has handed it on: an
\* acknowledgement is never sent for a message that is then lost.
AcknowledgedMeansDelivered ==
    \A i \in DOMAIN published :
        published[i].qos > 0 =>
            \/ \E e \in exchanges : e.message.op = i
            \/ \E j \in DOMAIN delivered : delivered[j].op = i

\* A server that keeps within the receive maximum of the CONNECT is not told
\* that it did not, however its messages and the PUBACKs cross: unless QoS 2
\* messages have used up quota, which nothing gives back, or a later handshaker
\* has brought a smaller receive maximum, which no server was told of.
NotAccused == leaked = 0 /\ (\A m \in replaced : m >= announced) => excess = 0

\* A receiver that always subscribes again hears of every matching message
\* that was still on its way when it subscribed, as long as the socket is open.
EveryMessageHeard ==
    \A r \in Loops, n \in 1 .. MaxMessages :
        /\ n \in DOMAIN published /\ since[r] >= 0
        /\ <<published[n].topic, FilterOf[r]>> \in Matches
        /\ \A i \in DOMAIN delivered : delivered[i].op # n
        ~> (\E i \in DOMAIN told[r] : delivered[told[r][i]].op = n) \/ ~open
=============================================================================
