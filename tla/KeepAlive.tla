----------------------------- MODULE KeepAlive -----------------------------
(***************************************************************************)
(* The timers of mqtt5::client in time: the five seconds of a handshake,   *)
(* the pings at half the keep alive, and the keep alive itself.            *)
(*                                                                         *)
(* ConnectionSM has the state machine with every order of completions and  *)
(* lets an armed timer expire at any moment.  Here a timer expires in its  *)
(* second, so that what the client promises its server, and expects of it, *)
(* can be told in seconds; of the regions only what the timers concern is  *)
(* left.  connect_and_ping_timer_ serves the handshake and the pings:      *)
(* arming it again cancels the wait that was pending, but not an expiry    *)
(* that is queued already.                                                 *)
(*                                                                         *)
(* What happens takes no time.  The clock advances when the io_context has *)
(* nothing to run, no timer is due, and the peer owes no answer: the       *)
(* machine is taken to be fast beside a second.                            *)
(***************************************************************************)
EXTENDS Naturals, Sequences, SequencesExt

CONSTANTS
    HandshakeTime,  \* seconds a handshake may take; 5 in the program
    KeepAlives,     \* keep alive times the user asks for or the server gives
    AnswerTime,     \* seconds, rounded up, a peer takes at most to answer a PINGREQ
    MaxHandshakes,  \* bound on the handshakes
    MaxBurst        \* bound on the pings in one second

ASSUME KeepAlivesAssumption == KeepAlives \subseteq Nat
ASSUME TimesAssumption == HandshakeTime \in Nat \ {0} /\ AnswerTime \in Nat \ {0}
ASSUME BoundsAssumption == MaxHandshakes \in Nat /\ MaxBurst \in Nat \ {0, 1}

VARIABLES
    conn,            \* idle / handshaking / connected
    open,            \* the socket is open
    pingTimer,       \* connect_and_ping_timer_: what the wait is for, seconds left
    keepAliveTimer,  \* keep_alive_timer_, likewise
    ready,           \* completions waiting for the io_context, oldest first
    keepAliveUsed,   \* keep_alive_used_
    answering,       \* the peer answers
    asked,           \* seconds since each PINGREQ that is not answered yet
    handshakes,      \* history: handshakes begun
    waited,          \* history: seconds since the CONNECT, until the CONNACK
    quiet,           \* history: seconds since the client sent a packet or the CONNACK came
    silent,          \* history: seconds since a packet last came from the peer
    burst,           \* history: pings in this second
    ended            \* history: what closed the connection, if anything has

client == <<conn, open, pingTimer, keepAliveTimer, ready, keepAliveUsed>>
vars == <<client, answering, asked, handshakes, waited, quiet, silent, burst, ended>>

Off == [for |-> "nothing", left |-> 0]
Wait(for, seconds) == [for |-> for, left |-> seconds]
Due(timer) == timer # Off /\ timer.left = 0
Connack(seconds) == [type |-> "connack", keepAlive |-> seconds]
Packet == [type |-> "packet"]
HungUp == [type |-> "hung_up"]
Timeout(for) == [type |-> for]
Queued(completion) == \E i \in DOMAIN ready : ready[i] = completion

Init ==
    /\ conn = "idle" /\ open = FALSE
    /\ pingTimer = Off /\ keepAliveTimer = Off
    /\ ready = <<>> /\ keepAliveUsed = 0
    /\ answering = TRUE /\ asked = <<>>
    /\ handshakes = 0 /\ waited = 0 /\ quiet = 0 /\ silent = 0 /\ burst = 0
    /\ ended = "not"
-----------------------------------------------------------------------------
(* Parts of handlers.  Variants named ...Fault are not the program: each   *)
(* is what a likely slip in the definition below it would be, and a        *)
(* property rules it out.                                                  *)

\* The keep alive is doubled instead of halved.
PingIntervalFault(used) == 2 * used

\* It is halved twice.
HalvedIntervalFault(used) == used \div 4

\* keep_alive_used_ / 2, in whole seconds.
PingInterval(used) == used \div 2

StartPingTimer(used) ==
    pingTimer' = IF used > 0 THEN Wait("ping_timeout", PingInterval(used)) ELSE pingTimer

\* The client waits as long as a server would.
StartKeepAliveTimerFault(used) ==
    keepAliveTimer' = IF used > 0 THEN Wait("keep_alive_timeout", (3 * used) \div 2)
                      ELSE keepAliveTimer

StartKeepAliveTimer(used) ==
    keepAliveTimer' = IF used > 0 THEN Wait("keep_alive_timeout", used) ELSE keepAliveTimer

\* What arrives does not put off the end of the keep alive.
RestartKeepAliveTimerFault(used) == UNCHANGED keepAliveTimer

\* keep_alive_waiting on packet_received_evt.
RestartKeepAliveTimer(used) == StartKeepAliveTimer(used)

\* close(), and what disconnect_evt then does to the regions of the timers:
\* that of the pings has a wait to cancel only if it was begun.
CloseSocket(why) ==
    /\ open' = FALSE
    /\ ended' = why
    /\ pingTimer' = IF conn = "connected" THEN Off ELSE pingTimer
    /\ keepAliveTimer' = Off
    /\ asked' = <<>>
-----------------------------------------------------------------------------
(* The user *)

\* A socket is connected and a handshaker with keep alive k started.
Handshake(k) ==
    /\ conn = "idle" /\ handshakes < MaxHandshakes
    /\ handshakes' = handshakes + 1
    /\ conn' = "handshaking" /\ open' = TRUE
    /\ keepAliveUsed' = k
    /\ pingTimer' = Wait("connect_timeout", HandshakeTime)
    /\ waited' = 0 /\ quiet' = 0 /\ silent' = 0 /\ ended' = "not"
    /\ answering' = TRUE
    /\ UNCHANGED <<keepAliveTimer, ready, asked, burst>>

\* A publish or another packet of the user.
Send ==
    /\ conn = "connected" /\ open
    /\ quiet' = 0
    /\ UNCHANGED <<client, answering, asked, handshakes, waited, silent, burst, ended>>
-----------------------------------------------------------------------------
(* The peer and the clock *)

\* Something of the peer's becomes a completion.
Arrives(completion) ==
    /\ open /\ answering /\ ~Queued(completion)
    /\ ready' = Append(ready, completion)
    /\ silent' = 0
    /\ UNCHANGED <<conn, open, pingTimer, keepAliveTimer, keepAliveUsed, answering,
                   handshakes, waited, quiet, burst, ended>>

\* 0 stands for a CONNACK that states no keep alive, or one of 0.
ConnackArrives(k) ==
    /\ conn = "handshaking" /\ \A j \in KeepAlives : ~Queued(Connack(j))
    /\ Arrives(Connack(k))
    /\ UNCHANGED asked

PeerSends == conn = "connected" /\ Arrives(Packet) /\ UNCHANGED asked

PeerAnswers == asked # <<>> /\ Arrives(Packet) /\ asked' = Tail(asked)

PeerHangsUp == Arrives(HungUp) /\ UNCHANGED asked

\* The peer, or the way to it, dies without a word.
PeerDies ==
    /\ open /\ answering
    /\ answering' = FALSE /\ asked' = <<>>
    /\ UNCHANGED <<client, handshakes, waited, quiet, silent, burst, ended>>

PingTimerExpires ==
    /\ Due(pingTimer) /\ burst < MaxBurst
    /\ ready' = Append(ready, Timeout(pingTimer.for))
    /\ pingTimer' = Off
    /\ UNCHANGED <<conn, open, keepAliveTimer, keepAliveUsed, answering, asked,
                   handshakes, waited, quiet, silent, burst, ended>>

KeepAliveTimerExpires ==
    /\ Due(keepAliveTimer)
    /\ ready' = Append(ready, Timeout(keepAliveTimer.for))
    /\ keepAliveTimer' = Off
    /\ UNCHANGED <<conn, open, pingTimer, keepAliveUsed, answering, asked,
                   handshakes, waited, quiet, silent, burst, ended>>

Later(timer) == IF timer = Off THEN Off ELSE [timer EXCEPT !.left = @ - 1]
Counted(seconds) == IF open THEN seconds + 1 ELSE seconds

\* A second passes.  An interval of 0 would never let it: the clock goes on
\* after MaxBurst pings, the next of which is still due.
Tick ==
    /\ ready = <<>>
    /\ ~Due(keepAliveTimer)
    /\ Due(pingTimer) => burst = MaxBurst
    /\ \A i \in DOMAIN asked : asked[i] < AnswerTime
    /\ pingTimer' = IF Due(pingTimer) THEN pingTimer ELSE Later(pingTimer)
    /\ keepAliveTimer' = Later(keepAliveTimer)
    /\ asked' = [i \in DOMAIN asked |-> asked[i] + 1]
    /\ waited' = IF conn = "handshaking" THEN waited + 1 ELSE waited
    /\ quiet' = Counted(quiet) /\ silent' = Counted(silent) /\ burst' = 0
    /\ UNCHANGED <<conn, open, ready, keepAliveUsed, answering, handshakes, ended>>
-----------------------------------------------------------------------------
(* The handlers *)

Dispatch(type) == ready # <<>> /\ Head(ready).type = type /\ ready' = Tail(ready)

\* handle_packet(connack): a keep alive of 0 is taken for none given.
HandleConnack ==
    /\ Dispatch("connack")
    /\ UNCHANGED <<open, answering, asked, handshakes, waited, silent, burst, ended>>
    /\ \/ /\ conn = "handshaking"
          /\ conn' = "connected"
          /\ quiet' = 0
          /\ LET given == Head(ready).keepAlive
                 used == IF given # 0 THEN given ELSE keepAliveUsed IN
             /\ keepAliveUsed' = used
             /\ StartPingTimer(used) /\ StartKeepAliveTimer(used)
       \/ /\ conn # "handshaking"
          /\ UNCHANGED <<conn, pingTimer, keepAliveTimer, keepAliveUsed, quiet>>

\* packet_received_evt: what the other regions do with it takes no time.
HandlePacket ==
    /\ Dispatch("packet")
    /\ IF conn = "connected" /\ open THEN RestartKeepAliveTimer(keepAliveUsed)
       ELSE UNCHANGED keepAliveTimer
    /\ UNCHANGED <<conn, open, pingTimer, keepAliveUsed, answering, asked,
                   handshakes, waited, quiet, silent, burst, ended>>

\* disconnect_evt, after the time to connect or the end of the read.
Disconnected(type) ==
    /\ Dispatch(type)
    /\ IF open THEN CloseSocket(type)
       ELSE UNCHANGED <<open, ended, pingTimer, keepAliveTimer, asked>>
    /\ conn' = IF conn = "handshaking" THEN "idle" ELSE conn
    /\ UNCHANGED <<keepAliveUsed, answering, handshakes, waited, quiet, silent, burst>>

\* ping_timeout_evt in ping_waiting: send_ping and the timer again.
PingDue ==
    /\ Dispatch("ping_timeout")
    /\ IF open
       THEN /\ quiet' = 0 /\ burst' = burst + 1
            /\ asked' = IF answering THEN Append(asked, 0) ELSE asked
            /\ StartPingTimer(keepAliveUsed)
       ELSE UNCHANGED <<quiet, burst, asked, pingTimer>>
    /\ UNCHANGED <<conn, open, keepAliveTimer, keepAliveUsed, answering, handshakes,
                   waited, silent, ended>>

\* keep_alive_timeout_evt in keep_alive_waiting.
KeepAliveOver ==
    /\ Dispatch("keep_alive_timeout")
    /\ IF open THEN CloseSocket("keep_alive_timeout")
       ELSE UNCHANGED <<open, ended, pingTimer, keepAliveTimer, asked>>
    /\ UNCHANGED <<conn, keepAliveUsed, answering, handshakes, waited, quiet, silent, burst>>

Next ==
    \/ Send \/ \E k \in KeepAlives : Handshake(k) \/ ConnackArrives(k)
    \/ PeerSends \/ PeerAnswers \/ PeerHangsUp \/ PeerDies
    \/ PingTimerExpires \/ KeepAliveTimerExpires \/ Tick
    \/ HandleConnack \/ HandlePacket \/ PingDue \/ KeepAliveOver
    \/ \E type \in {"connect_timeout", "hung_up"} : Disconnected(type)

Spec == Init /\ [][Next]_vars
-----------------------------------------------------------------------------
(* Properties *)

\* What the client promises its server: with a keep alive, a packet goes out at
\* least once in that time, whatever the user and the peer do or leave.  The
\* time is counted from the CONNACK: a server that counts from the CONNECT adds
\* what it took to answer, which may be more than a short keep alive.
SpeaksInTime ==
    conn = "connected" /\ open /\ keepAliveUsed > 0 => quiet <= keepAliveUsed

\* A peer that falls silent is dropped in time: within five seconds of the
\* CONNECT as long as there is no CONNACK, and within the keep alive afterwards.
SilenceBounded ==
    open =>
        /\ conn = "handshaking" => waited <= HandshakeTime
        /\ conn = "connected" /\ keepAliveUsed > 0 => silent <= keepAliveUsed

\* A peer that does its part is kept.  The handshake timer closes only a
\* handshake that has had its time, not a later one nor the connection it led
\* to: but for an expiry that was queued at the moment the handshake began or
\* was answered, and but for connections without a keep alive, whose
\* handshake timer nothing stops.  And the keep alive closes a connection to a
\* peer that answers only if the answer to a ping can come too late for it.
EndedForAReason ==
    /\ ended = "connect_timeout" /\ conn = "idle" => waited \in {0, HandshakeTime}
    /\ ended = "connect_timeout" /\ conn = "connected" =>
            waited \in {0, HandshakeTime} \/ keepAliveUsed = 0
    /\ ended = "keep_alive_timeout" /\ answering =>
            keepAliveUsed <= PingInterval(keepAliveUsed) + AnswerTime

\* The client does not flood its server: one ping in a second, but for a keep
\* alive of one second, half of which is none.
PingsPaced == burst > 1 => keepAliveUsed = 1
=============================================================================
