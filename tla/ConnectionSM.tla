---------------------------- MODULE ConnectionSM ----------------------------
(***************************************************************************)
(* The connection state machine of mqtt5::client (connection_sm_t) with    *)
(* what drives it: the handshaker, the socket, the one read operation, the *)
(* write operations and the two timers.                                    *)
(*                                                                         *)
(* The state machine has four orthogonal regions, one variable each.  An   *)
(* event is offered to all of them in the order connection, receiver,      *)
(* ping, keep alive; a region without a matching transition ignores it.    *)
(* `start_handshake' is left within the event that enters it.              *)
(*                                                                         *)
(* The program is one io_context thread: `ready' is its queue of completed *)
(* operations, and a step that dispatches its head runs the whole handler. *)
(* Cancelling a timer or closing the socket does not take back what is in  *)
(* `ready' already: this is where the races are.                           *)
(*                                                                         *)
(* Time is abstracted: an armed timer may expire at any moment.  Module     *)
(* KeepAlive is about when they do.                                        *)
(***************************************************************************)
EXTENDS Naturals, Sequences, SequencesExt

CONSTANTS
    KeepAlives,     \* keep alive times the user may ask for; 0 is "none"
    MaxHandshakes,  \* bound on the calls of a handshaker
    MaxPackets,     \* bound on the packets that arrive
    MaxReady,       \* bound on the completions in `ready' when another is posted
    MayFail         \* reads and writes may fail with an error

ASSUME KeepAlivesAssumption == KeepAlives \subseteq Nat
ASSUME BoundsAssumption ==
    /\ MaxHandshakes \in Nat /\ MaxPackets \in Nat /\ MaxReady \in Nat
    /\ MayFail \in BOOLEAN

VARIABLES
    conn,            \* region idle / handshaking / connected
    rx,              \* region rx_idle / rx_receiving
    ping,            \* region ping_idle / ping_waiting
    keepAlive,       \* region keep_alive_idle / keep_alive_waiting
    open,            \* the socket is open
    reading,         \* the read operation is pending
    writing,         \* a write operation is pending
    pingTimer,       \* connect_and_ping_timer_: "off", or what the wait is for
    keepAliveTimer,  \* keep_alive_timer_: a wait is pending
    ready,           \* completions waiting for the io_context, oldest first
    keepAliveUsed,   \* keep_alive_used_
    waiting,         \* number of connect_receivers_
    alive,           \* std::terminate has not been called
    handshakes,      \* history: calls of a handshaker
    packets,         \* history: packets received
    agreed           \* history: the keep alive the server uses

regions == <<conn, rx, ping, keepAlive>>
io == <<open, reading, writing, pingTimer, keepAliveTimer, ready>>
history == <<handshakes, packets, agreed>>
vars == <<regions, io, keepAliveUsed, waiting, alive, history>>

\* Completions.  A CONNACK states the server's keep alive or leaves it out.
ReadDone == [type |-> "read_done"]            \* the read was cancelled
WriteDone == [type |-> "write_done"]          \* a write was cancelled
ReadFailed == [type |-> "read_failed"]        \* the read ended with an error
WriteFailed == [type |-> "write_failed"]      \* a write ended with an error
ConnectTimeout == [type |-> "connect_timeout"]
PingTimeout == [type |-> "ping_timeout"]
KeepAliveTimeout == [type |-> "keep_alive_timeout"]
Other == [type |-> "other"]                   \* any packet but CONNACK
Connack(given, seconds) == [type |-> "connack", given |-> given, keepAlive |-> seconds]
Packets == {Other, Connack(FALSE, 0)} \cup {Connack(TRUE, k) : k \in KeepAlives}
Timeouts == {ConnectTimeout, PingTimeout, KeepAliveTimeout}
Completions == Packets \cup Timeouts \cup {ReadDone, WriteDone, ReadFailed, WriteFailed}

TypeOK ==
    /\ conn \in {"idle", "handshaking", "connected"}
    /\ rx \in {"rx_idle", "rx_receiving"}
    /\ ping \in {"ping_idle", "ping_waiting"}
    /\ keepAlive \in {"keep_alive_idle", "keep_alive_waiting"}
    /\ open \in BOOLEAN /\ reading \in BOOLEAN /\ writing \in BOOLEAN
    /\ pingTimer \in {"off", "connect", "ping"} /\ keepAliveTimer \in BOOLEAN
    /\ ready \in Seq(Completions)
    /\ keepAliveUsed \in KeepAlives \cup {0} /\ agreed \in KeepAlives \cup {0}
    /\ waiting \in Nat /\ handshakes \in Nat /\ packets \in Nat
    /\ alive \in BOOLEAN

Init ==
    /\ conn = "idle" /\ rx = "rx_idle" /\ ping = "ping_idle" /\ keepAlive = "keep_alive_idle"
    /\ open = FALSE /\ reading = FALSE /\ writing = FALSE
    /\ pingTimer = "off" /\ keepAliveTimer = FALSE
    /\ ready = <<>>
    /\ keepAliveUsed = 0 /\ agreed = 0
    /\ waiting = 0 /\ alive = TRUE
    /\ handshakes = 0 /\ packets = 0
-----------------------------------------------------------------------------
(* Parts of handlers.  Each says what becomes of the variables it names.   *)
(*                                                                         *)
(* Variants named ...Fault are not the program: each is what a likely slip *)
(* in the definition below it would be, and a property rules it out.       *)

Queued(type) == \E i \in DOMAIN ready : ready[i].type = type

\* Operations that closing the socket cancels; their completions are posted.
Aborted ==
    (IF reading THEN <<ReadDone>> ELSE <<>>) \o (IF writing THEN <<WriteDone>> ELSE <<>>)

\* client::close(), with `rest' what is still to be dispatched.
CloseSocket(rest) ==
    /\ open' = FALSE /\ reading' = FALSE /\ writing' = FALSE
    /\ ready' = rest \o Aborted

\* The handshake has no time limit.
StartConnectTimerFault == UNCHANGED pingTimer

StartConnectTimer == pingTimer' = "connect"

\* start_ping_timer and start_keep_alive_timer: without a keep alive they
\* leave the timer as it is, whatever it was last armed for.
StartPingTimer(used) ==
    pingTimer' = IF used > 0 THEN "ping" ELSE pingTimer

StartKeepAliveTimer(used) ==
    keepAliveTimer' = IF used > 0 THEN TRUE ELSE keepAliveTimer

\* The server's seconds are taken for milliseconds.
NegotiatedFault(ack) == ack.keepAlive * 1000

\* The keep alive after the CONNACK: a zero counts as not given.
Negotiated(ack) == IF ack.keepAlive # 0 THEN ack.keepAlive ELSE keepAliveUsed

\* notify_connector_receivers(true).
Notify(receivers) == waiting' = 0

\* rx_receiving has no transition for disconnect_evt.
ReceiverAfterDisconnectFault == rx

ReceiverAfterDisconnect == "rx_idle"
-----------------------------------------------------------------------------
(* The user *)

\* socket_connector completes.  The completions of the old socket's operations
\* were posted before it and have been dispatched.
SocketConnected ==
    /\ alive /\ ~open
    /\ \A i \in DOMAIN ready : ready[i] \in Timeouts
    /\ open' = TRUE
    /\ UNCHANGED <<regions, reading, writing, pingTimer, keepAliveTimer, ready,
                   keepAliveUsed, waiting, alive, history>>

\* connect_sender: the receiver is stored and the operation started with keep
\* alive k.  handshake_evt is ignored while a handshake is under way.  On a
\* closed socket the read and the write of CONNECT fail.  (A packet an earlier
\* connection left in the read buffer is read first; start_handshake has no
\* transition for it, so it is lost.)
Handshake(k) ==
    /\ alive
    /\ handshakes < MaxHandshakes
    /\ handshakes' = handshakes + 1
    /\ UNCHANGED <<ping, keepAlive, open, keepAliveTimer, alive, packets>>
    /\ \/ /\ conn = "connected"
          /\ Notify(waiting + 1)
          /\ UNCHANGED <<conn, rx, reading, writing, pingTimer, ready, keepAliveUsed, agreed>>
       \/ /\ conn = "handshaking"
          /\ waiting' = waiting + 1
          /\ UNCHANGED <<conn, rx, reading, writing, pingTimer, ready, keepAliveUsed, agreed>>
       \/ /\ conn = "idle"
          /\ waiting' = waiting + 1
          /\ conn' = "handshaking"
          /\ rx' = "rx_receiving"
          /\ StartConnectTimer
          /\ keepAliveUsed' = k /\ agreed' = k
          /\ \/ open /\ reading' = TRUE /\ writing' = TRUE /\ UNCHANGED ready
             \/ ~open /\ ready' = ready \o <<ReadFailed, WriteFailed>> /\ UNCHANGED <<reading, writing>>

\* client::close() called by the user.
Close ==
    /\ alive /\ open
    /\ CloseSocket(ready)
    /\ UNCHANGED <<regions, pingTimer, keepAliveTimer, keepAliveUsed, waiting, alive, history>>

\* A packet of the user is written; one write stands for those under way.
Send ==
    /\ alive /\ ~writing /\ Len(ready) < MaxReady
    /\ \/ open /\ writing' = TRUE /\ UNCHANGED ready
       \/ /\ ~open /\ ~Queued("write_failed")
          /\ ready' = Append(ready, WriteFailed)
          /\ UNCHANGED writing
    /\ UNCHANGED <<regions, open, reading, pingTimer, keepAliveTimer, keepAliveUsed,
                   waiting, alive, history>>
-----------------------------------------------------------------------------
(* The outside world *)

\* The bytes of a packet complete the read.
PacketArrives(p) ==
    /\ alive /\ open /\ reading /\ Len(ready) < MaxReady
    /\ packets < MaxPackets
    /\ packets' = packets + 1
    /\ reading' = FALSE
    /\ ready' = Append(ready, p)
    /\ UNCHANGED <<regions, open, writing, pingTimer, keepAliveTimer, keepAliveUsed,
                   waiting, alive, handshakes, agreed>>

\* packet_written_evt, which no region handles.
WriteCompletes ==
    /\ alive /\ writing
    /\ writing' = FALSE
    /\ UNCHANGED <<regions, open, reading, pingTimer, keepAliveTimer, ready,
                   keepAliveUsed, waiting, alive, history>>

PingTimerExpires ==
    /\ alive /\ pingTimer # "off" /\ Len(ready) < MaxReady
    /\ ready' = Append(ready, IF pingTimer = "connect" THEN ConnectTimeout ELSE PingTimeout)
    /\ pingTimer' = "off"
    /\ UNCHANGED <<regions, open, reading, writing, keepAliveTimer,
                   keepAliveUsed, waiting, alive, history>>

KeepAliveTimerExpires ==
    /\ alive /\ keepAliveTimer /\ Len(ready) < MaxReady
    /\ ready' = Append(ready, KeepAliveTimeout)
    /\ keepAliveTimer' = FALSE
    /\ UNCHANGED <<regions, open, reading, writing, pingTimer,
                   keepAliveUsed, waiting, alive, history>>

\* The peer hangs up or the network fails.
PeerFails ==
    /\ alive /\ MayFail /\ open /\ Len(ready) < MaxReady
    /\ \/ /\ reading
          /\ reading' = FALSE
          /\ ready' = Append(ready, ReadFailed)
          /\ UNCHANGED writing
       \/ /\ writing
          /\ writing' = FALSE
          /\ ready' = Append(ready, WriteFailed)
          /\ UNCHANGED reading
    /\ UNCHANGED <<regions, open, pingTimer, keepAliveTimer,
                   keepAliveUsed, waiting, alive, history>>
-----------------------------------------------------------------------------
(* The handlers *)

Dispatch(types) == alive /\ ready # <<>> /\ Head(ready).type \in types

\* The receiver does not read again.
StartReceivingFault(rest) ==
    /\ reading' = FALSE
    /\ ready' = rest
    /\ UNCHANGED packets

\* start_receiving, after which `rest' is to be dispatched: a packet that is
\* in the read buffer already is handled next, even if the socket is closed.
StartReceiving(rest) ==
    \/ /\ packets < MaxPackets
       /\ packets' = packets + 1
       /\ reading' = FALSE
       /\ \E p \in Packets : ready' = <<p>> \o rest
    \/ /\ open'
       /\ reading' = TRUE
       /\ ready' = rest
       /\ UNCHANGED packets
    \/ /\ ~open'
       /\ reading' = FALSE
       /\ ready' = Append(rest, ReadFailed)
       /\ UNCHANGED packets

\* What a handler does to the socket before the receiver region reads again:
\* user code it calls may close it, and the handler or user code may write.
HandleThenReceive ==
    \E closes \in {FALSE, open}, writes \in BOOLEAN :
        LET rest == Tail(ready)
                    \o (IF closes /\ writing THEN <<WriteDone>> ELSE <<>>)
                    \o (IF writes /\ (closes \/ ~open) THEN <<WriteFailed>> ELSE <<>>) IN
        /\ open' = (open /\ ~closes)
        /\ writing' = (open' /\ (writing \/ writes))
        /\ \/ rx = "rx_receiving" /\ StartReceiving(rest)
           \/ rx = "rx_idle" /\ ready' = rest /\ UNCHANGED <<reading, packets>>

\* packet_received_evt with a CONNACK while handshaking: handle_packet(connack)
\* raises handshake_done_evt and tells every stored receiver.  Its reason code
\* is not looked at.  The receivers are user code.
HandleConnack ==
    /\ Dispatch({"connack"})
    /\ conn = "handshaking"
    /\ LET ack == Head(ready)
           used == Negotiated(ack) IN
        /\ keepAliveUsed' = used
        /\ agreed' = IF ack.given THEN ack.keepAlive ELSE agreed
        /\ StartPingTimer(used)
        /\ StartKeepAliveTimer(used)
    /\ conn' = "connected" /\ ping' = "ping_waiting" /\ keepAlive' = "keep_alive_waiting"
    /\ Notify(waiting)
    /\ HandleThenReceive
    /\ UNCHANGED <<rx, alive, handshakes>>

\* packet_received_evt otherwise: what the connection region does with the
\* packet is in the modules of its handlers.  The keep alive region restarts.
HandlePacket ==
    /\ Dispatch({"connack", "other"})
    /\ conn = "handshaking" => Head(ready).type = "other"
    /\ IF keepAlive = "keep_alive_waiting"
       THEN StartKeepAliveTimer(keepAliveUsed)
       ELSE UNCHANGED keepAliveTimer
    /\ HandleThenReceive
    /\ UNCHANGED <<regions, pingTimer, keepAliveUsed, waiting, alive,
                   handshakes, agreed>>

\* disconnect_evt: the time to connect is over, the read or a write ended.
\* The state `connected' has no transition for it.
Disconnected ==
    /\ Dispatch({"connect_timeout", "read_done", "write_done", "read_failed", "write_failed"})
    /\ IF conn = "handshaking" \/ rx = "rx_receiving"
       THEN CloseSocket(Tail(ready))
       ELSE ready' = Tail(ready) /\ UNCHANGED <<open, reading, writing>>
    /\ conn' = IF conn = "handshaking" THEN "idle" ELSE conn
    /\ rx' = ReceiverAfterDisconnect
    /\ ping' = "ping_idle" /\ keepAlive' = "keep_alive_idle"
    /\ pingTimer' = IF ping = "ping_waiting" THEN "off" ELSE pingTimer
    /\ keepAliveTimer' = (keepAliveTimer /\ keepAlive # "keep_alive_waiting")
    /\ UNCHANGED <<keepAliveUsed, waiting, alive, history>>

\* event_emitting_receiver_base::set_error.  Which failures come as an error
\* and which as done is the stream library's affair.
Terminate ==
    /\ MayFail
    /\ Dispatch({"read_failed", "write_failed"})
    /\ alive' = FALSE
    /\ UNCHANGED <<regions, io, keepAliveUsed, waiting, history>>

\* ping_timeout_evt: PINGREQ is sent and the timer armed again.
PingDue ==
    /\ Dispatch({"ping_timeout"})
    /\ \/ /\ ping = "ping_idle"
          /\ ready' = Tail(ready)
          /\ UNCHANGED <<writing, pingTimer>>
       \/ /\ ping = "ping_waiting"
          /\ writing' = open
          /\ ready' = IF open THEN Tail(ready) ELSE Append(Tail(ready), WriteFailed)
          /\ StartPingTimer(keepAliveUsed)
    /\ UNCHANGED <<regions, open, reading, keepAliveTimer, keepAliveUsed, waiting,
                   alive, history>>

\* keep_alive_timeout_evt: nothing was received for the keep alive time.
KeepAliveOver ==
    /\ Dispatch({"keep_alive_timeout"})
    /\ IF keepAlive = "keep_alive_waiting"
       THEN CloseSocket(Tail(ready)) /\ keepAlive' = "keep_alive_idle"
       ELSE ready' = Tail(ready) /\ UNCHANGED <<open, reading, writing, keepAlive>>
    /\ UNCHANGED <<conn, rx, ping, pingTimer, keepAliveTimer, keepAliveUsed,
                   waiting, alive, history>>

Run ==
    \/ HandleConnack \/ HandlePacket \/ Disconnected \/ Terminate
    \/ PingDue \/ KeepAliveOver

Next ==
    \/ SocketConnected \/ Close \/ Send
    \/ \E k \in KeepAlives : Handshake(k)
    \/ \E p \in Packets : PacketArrives(p)
    \/ WriteCompletes \/ PingTimerExpires \/ KeepAliveTimerExpires \/ PeerFails
    \/ Run

Spec == Init /\ [][Next]_vars

\* The io_context dispatches what is ready, and an armed timer expires unless
\* it is armed again or cancelled first.  The peer and the user owe nothing.
Fairness ==
    WF_vars(Run) /\ WF_vars(PingTimerExpires) /\ WF_vars(KeepAliveTimerExpires)

FairSpec == Spec /\ Fairness
-----------------------------------------------------------------------------
(* Properties *)

\* The regions are one machine: without a connection the receiver region runs
\* exactly while a handshake does, and the two timers' regions do not.
RegionsInStep ==
    conn # "connected" =>
        /\ conn = "idle" <=> rx = "rx_idle"
        /\ ping = "ping_idle" /\ keepAlive = "keep_alive_idle"

\* The client always listens and listens once: while the receiver region
\* receives, a read is pending or its completion is queued, not both, and no
\* read is pending that nobody waits for.
OneReader ==
    LET completed == \E kind \in {"read_done", "read_failed", "connack", "other"} : Queued(kind) IN
    /\ alive /\ rx = "rx_receiving" => reading \/ completed
    /\ reading => open /\ rx = "rx_receiving" /\ ~Queued("connack") /\ ~Queued("other")

\* No handshake lasts forever.
HandshakeEnds == conn = "handshaking" ~> conn # "handshaking" \/ ~alive

\* When the connection is gone everything comes to rest: the regions idle and
\* no timer armed.
GoneMeansQuiet ==
    conn = "connected" /\ ~open ~>
        \/ open \/ ~alive
        \/ /\ rx = "rx_idle" /\ ping = "ping_idle" /\ keepAlive = "keep_alive_idle"
           /\ pingTimer = "off" /\ ~keepAliveTimer

\* client.hpp says of get_actual_keep_alive: `This will always reflect what is
\* used by both server and client'.
ActualKeepAlive == conn = "connected" => keepAliveUsed = agreed
=============================================================================
