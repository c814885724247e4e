--------------------------- MODULE PublishSession ---------------------------
(***************************************************************************)
(* PublishFlow composed with a server that follows the MQTT 5 protocol,    *)
(* over one connection that delivers packets in order.  The server is not  *)
(* part of the repository: it is modelled from what the handlers of        *)
(* mqtt5::client expect of it.                                             *)
(*                                                                         *)
(* The server answers a QoS 1 publish with PUBACK and a QoS 2 publish with *)
(* PUBREC, each kind in the order of the publishes, and a PUBREL with      *)
(* PUBCOMP.  It may refuse a QoS 2 publish in the PUBREC.                  *)
(*                                                                         *)
(* Acknowledgements carry, as `op', the publish they answer.  The client   *)
(* does not see it; the properties do.                                     *)
(***************************************************************************)
EXTENDS PublishFlow

CONSTANTS
    MayClose,    \* the connection may be closed
    MayRefuse    \* the server may refuse a QoS 2 publish

ASSUME SwitchAssumption == MayClose \in BOOLEAN /\ MayRefuse \in BOOLEAN

VARIABLES
    toClient,    \* packets on their way to the client, oldest first
    exchanges,   \* the server's unfinished exchanges, oldest first
    shared       \* history: publishes that were in flight under one identifier

sessionVars == <<vars, toClient, exchanges, shared>>

Ack(type, e) == [type |-> type, op |-> e.op, id |-> e.id]

\* CONNECT has been sent; the CONNACK is on its way.
SessionInit ==
    /\ Init
    /\ \E rm \in ReceiveMaxima :
        toClient = <<[type |-> "connack", receiveMaximum |-> rm]>>
    /\ exchanges = <<>>
    /\ shared = {}

\* Identifiers go round, and nothing looks whether one is still in use.
NoteShared ==
    shared' = shared \cup
        {inflight'[i].op : i \in {j \in DOMAIN inflight' :
            \E k \in DOMAIN inflight' : k # j /\ inflight'[k].id = inflight'[j].id}}
-----------------------------------------------------------------------------
(* The server *)

Opened(p, stage) == Append(exchanges, [op |-> p.op, id |-> p.id, stage |-> stage])
Staged(i, stage) == [exchanges EXCEPT ![i].stage = stage]

\* Positions of the exchanges with identifier id that await a PUBREL.
AwaitingRel(id) ==
    {i \in DOMAIN exchanges : exchanges[i].id = id /\ exchanges[i].stage = "await_rel"}

ServerReceive ==
    /\ open
    /\ Transmit
    /\ LET p == Head(wire) IN
        \/ /\ p.type = "publish" /\ p.qos = 0
           /\ UNCHANGED exchanges
        \/ /\ p.type = "publish" /\ p.qos = 1
           /\ exchanges' = Opened(p, "ack_due")
        \/ /\ p.type = "publish" /\ p.qos = 2
           /\ IF AwaitingRel(p.id) = {}
              THEN exchanges' = Opened(p, "rec_due")
              ELSE \E i \in AwaitingRel(p.id) : exchanges' = Staged(i, "rec_due")
        \/ /\ p.type = "pubrel"
           /\ IF AwaitingRel(p.id) = {}
              THEN exchanges' = Opened([op |-> 0, id |-> p.id], "comp_due")
              ELSE \E i \in AwaitingRel(p.id) : exchanges' = Staged(i, "comp_due")
    /\ UNCHANGED <<toClient, shared>>

\* The oldest exchange in the given stage.
Oldest(i, stage) ==
    /\ exchanges[i].stage = stage
    /\ \A j \in 1 .. i - 1 : exchanges[j].stage # stage

Answer(i, type) == toClient' = Append(toClient, Ack(type, exchanges[i]))
Over(i) == exchanges' = RemoveAt(exchanges, i)

SendPuback == \E i \in DOMAIN exchanges :
    Oldest(i, "ack_due") /\ Answer(i, "puback") /\ Over(i)

SendPubrec == \E i \in DOMAIN exchanges :
    /\ Oldest(i, "rec_due")
    /\ \/ Answer(i, "pubrec") /\ exchanges' = Staged(i, "await_rel")
       \/ MayRefuse /\ Answer(i, "refused") /\ Over(i)

SendPubcomp == \E i \in DOMAIN exchanges :
    Oldest(i, "comp_due") /\ Answer(i, "pubcomp") /\ Over(i)

ServerAnswer ==
    /\ open
    /\ SendPuback \/ SendPubrec \/ SendPubcomp
    /\ UNCHANGED <<vars, shared>>
-----------------------------------------------------------------------------
(* The client's steps *)

\* The state machine dispatches the packet at the head of the stream.
ClientReceive ==
    /\ toClient # <<>>
    /\ LET p == Head(toClient) IN
        \/ p.type = "connack" /\ HandleConnack(p.receiveMaximum)
        \/ p.type = "puback" /\ (HandlePuback(p.id) \/ HandleUnknownPuback(p.id))
        \/ p.type = "pubrec" /\ (\/ HandlePubrec(p.id) \/ HandlePubrecMismatch(p.id)
                                 \/ HandleUnknownPubrec(p.id))
        \/ p.type = "refused" /\ (HandlePubrecError(p.id) \/ HandleUnknownPubrec(p.id))
        \/ p.type = "pubcomp" /\ HandlePubcomp(p.id)
        \/ p.type = "pubcomp" /\ connected /\ handler = "none" /\ Unknown(p.id) /\ UNCHANGED vars
    /\ toClient' = Tail(toClient)
    /\ NoteShared
    /\ UNCHANGED exchanges

\* What was already read from the socket is still dispatched after close().
Disconnect ==
    /\ MayClose
    /\ Close
    /\ \E n \in 0 .. Len(toClient) : toClient' = SubSeq(toClient, 1, n)
    /\ UNCHANGED <<exchanges, shared>>

SessionNext ==
    \/ (User \/ Return) /\ NoteShared /\ UNCHANGED <<toClient, exchanges>>
    \/ ClientReceive
    \/ ServerReceive \/ ServerAnswer
    \/ Disconnect

SessionSpec == SessionInit /\ [][SessionNext]_sessionVars

\* The io_context runs every ready completion; the network and the server do
\* not stop.  The user owes nothing.
SessionFairness ==
    /\ WF_sessionVars(ClientReceive)
    /\ WF_sessionVars(Return /\ NoteShared /\ UNCHANGED <<toClient, exchanges>>)
    /\ WF_sessionVars(ServerReceive)
    /\ WF_sessionVars(open /\ SendPuback /\ UNCHANGED <<vars, shared>>)
    /\ WF_sessionVars(open /\ SendPubrec /\ UNCHANGED <<vars, shared>>)
    /\ WF_sessionVars(open /\ SendPubcomp /\ UNCHANGED <<vars, shared>>)

FairSession == SessionSpec /\ SessionFairness
-----------------------------------------------------------------------------
(* Properties *)

\* What the server has granted: its receive maximum, and the publishes sent
\* before its CONNACK was handled.
Granted == early + (IF connected THEN maxQuota ELSE 0)

\* Flow control as the server sees it: the exchanges it has open are at most
\* what it granted.
ServerWindow == Len(exchanges) <= Granted

\* Packet identifiers in flight: with a server that acknowledges in order, one is
\* taken again only while the older publish that has it is a QoS 2 one.  PUBACKs
\* return the quota of the QoS 1 publishes behind it, and each lets another
\* publish take an identifier, however long its own exchange lasts.  Once the
\* socket is closed nothing holds: a PUBACK that was read before still returns
\* quota, while the publish before it can no longer be acknowledged.
SharedOnlyByQos2 ==
    open /\ Granted + requests <= U16Max =>
    \A i, j \in DOMAIN inflight :
        i < j /\ inflight[i].id = inflight[j].id => inflight[i].qos = 2

\* An acknowledgement finishes the publish it answers and no other, although
\* the client looks it up by a packet identifier that is used again; only
\* publishes that have shared one in flight may be taken for each other.
AckFinishesItsPublish ==
    [][\A n \in DOMAIN outcome :
        outcome'[n] # outcome[n] /\ n \notin shared =>
            toClient # <<>> /\ Head(toClient).op = n]_sessionVars

\* A server that follows the protocol never makes the client complete a publish
\* as done and close the connection, but where two publishes shared an identifier.
NotCutOff == \A n \in DOMAIN outcome : outcome[n] = "done" => n \in shared

\* Every publish is told its fate, unless the connection is closed or it is
\* queued behind QoS 2 publishes that have used up the whole receive maximum.
FinishesUnlessStarved ==
    \A n \in 1 .. MaxPublishes :
        Len(outcome) >= n ~>
            \/ Len(outcome) >= n /\ outcome[n] # "pending"
            \/ ~open
            \/ leaked >= maxQuota /\ \E i \in DOMAIN queue : queue[i].op = n

\* Every publish is eventually told its fate.
EveryPublishFinishes ==
    \A n \in 1 .. MaxPublishes :
        Len(outcome) >= n ~> Len(outcome) >= n /\ outcome[n] # "pending"
=============================================================================
