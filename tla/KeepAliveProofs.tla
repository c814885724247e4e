-------------------------- MODULE KeepAliveProofs --------------------------
(***************************************************************************)
(* Proofs about KeepAlive, for all times, any number of handshakes and any *)
(* user, peer and order of completions.                                    *)
(***************************************************************************)
EXTENDS KeepAlive, SequenceTheorems, TLAPS

TimeoutTypes == {"connect_timeout", "ping_timeout", "keep_alive_timeout"}
Completions ==
    {Connack(k) : k \in KeepAlives} \cup {Packet, HungUp} \cup {Timeout(t) : t \in TimeoutTypes}
Timers(for) == {Off} \cup [for : for, left : Nat]

\* Every variable has its type; what a timer is armed for is a timeout.
TypeOK ==
    /\ conn \in {"idle", "handshaking", "connected"}
    /\ open \in BOOLEAN /\ answering \in BOOLEAN
    /\ pingTimer \in Timers({"connect_timeout", "ping_timeout"})
    /\ keepAliveTimer \in Timers({"keep_alive_timeout"})
    /\ ready \in Seq(Completions)
    /\ keepAliveUsed \in Nat
    /\ asked \in Seq(Nat)
    /\ handshakes \in Nat /\ waited \in Nat /\ quiet \in Nat /\ silent \in Nat /\ burst \in Nat
    /\ ended \in {"not", "connect_timeout", "hung_up", "keep_alive_timeout"}

\* A completion of the type t is queued.
Has(t) == \E i \in 1 .. Len(ready) : ready[i].type = t

PingQueuedOnce ==
    \A i, j \in 1 .. Len(ready) :
        ready[i].type = "ping_timeout" /\ ready[j].type = "ping_timeout" => i = j

\* The connection, as far as promises are made about it.
Up == conn = "connected" /\ open /\ keepAliveUsed > 0

\* Before the CONNACK only the handshake is timed, and it is timed to the second.
HandshakeInv ==
    /\ conn = "idle" => ~open
    /\ conn = "handshaking" =>
        /\ open /\ ended = "not"
        /\ \/ pingTimer.for = "connect_timeout" /\ pingTimer.left + waited = HandshakeTime
           \/ Has("connect_timeout") /\ waited = HandshakeTime
    /\ conn # "connected" \/ keepAliveUsed = 0 =>
        /\ pingTimer.for # "ping_timeout" /\ keepAliveTimer = Off
        /\ ~Has("ping_timeout") /\ ~Has("keep_alive_timeout")
        /\ burst = 0 /\ ended # "keep_alive_timeout"
    /\ conn = "connected" /\ pingTimer.for = "connect_timeout" => keepAliveUsed = 0

\* An end of the handshake's time that is queued was queued when the handshake
\* began, or when it was over.
ReasonInv ==
    /\ conn # "idle" /\ Has("connect_timeout") =>
        waited \in {0, HandshakeTime} \/ (conn = "connected" /\ keepAliveUsed = 0)
    /\ ended = "connect_timeout" /\ conn = "idle" => waited \in {0, HandshakeTime}
    /\ ended = "connect_timeout" /\ conn = "connected" =>
            waited \in {0, HandshakeTime} \/ keepAliveUsed = 0

\* The next ping is armed or queued, not both, and comes in time.
PingInv ==
    /\ PingQueuedOnce
    /\ pingTimer.for = "ping_timeout" =>
        ~Has("ping_timeout") /\ pingTimer.left <= PingInterval(keepAliveUsed)
    /\ burst > 0 => quiet = 0
    /\ keepAliveUsed # 1 => burst <= 1
    /\ Up =>
        /\ pingTimer.for = "ping_timeout" \/ Has("ping_timeout")
        /\ quiet + pingTimer.left <=
            IF keepAliveUsed = 1 THEN 1 ELSE PingInterval(keepAliveUsed)
        /\ keepAliveUsed # 1 /\ burst > 0 =>
            pingTimer.for = "ping_timeout" /\ pingTimer.left > 0

\* The keep alive is armed or queued, and what came resets it in its second.
SilenceInv ==
    /\ Has("packet") \/ Has("connack") => silent = 0
    /\ Up =>
        /\ keepAliveTimer.for = "keep_alive_timeout" \/ Has("keep_alive_timeout")
        /\ silent + keepAliveTimer.left <= keepAliveUsed

\* A peer that can answer in time: whatever it is that brings the next packet,
\* the keep alive has longer to go.
AnswerInv ==
    Up /\ answering /\ keepAliveUsed > PingInterval(keepAliveUsed) + AnswerTime =>
        /\ ended # "keep_alive_timeout" /\ ~Has("keep_alive_timeout")
        /\ keepAliveTimer.left > 0
        /\ \/ Has("packet")
           \/ asked # <<>> /\ keepAliveTimer.left + asked[1] > AnswerTime
           \/ pingTimer.for = "ping_timeout" /\ keepAliveTimer.left > pingTimer.left + AnswerTime
           \/ Has("ping_timeout") /\ keepAliveTimer.left > AnswerTime

\* What closed the connection is remembered rightly.
EndInv ==
    /\ ended = "keep_alive_timeout" => ~open
    /\ ended = "keep_alive_timeout" /\ answering =>
            keepAliveUsed <= PingInterval(keepAliveUsed) + AnswerTime

IInv ==
    TypeOK /\ HandshakeInv /\ ReasonInv /\ PingInv /\ SilenceInv /\ AnswerInv /\ EndInv
-----------------------------------------------------------------------------
(* What steps do to the queue and to timers *)

\* Half of the keep alive, in whole seconds.
LEMMA Halves ==
    ASSUME NEW used \in Nat
    PROVE  /\ PingInterval(used) \in Nat /\ PingInterval(used) <= used
           /\ used \in {0, 1} => PingInterval(used) = 0
           /\ used > 1 => PingInterval(used) > 0 /\ PingInterval(used) < used
BY DEF PingInterval

LEMMA TimerType ==
    ASSUME TypeOK
    PROVE  /\ pingTimer.for \in {"nothing", "connect_timeout", "ping_timeout"}
           /\ pingTimer.left \in Nat
           /\ pingTimer.for = "nothing" <=> pingTimer = Off
           /\ keepAliveTimer.for \in {"nothing", "keep_alive_timeout"}
           /\ keepAliveTimer.left \in Nat
           /\ keepAliveTimer.for = "nothing" <=> keepAliveTimer = Off
           /\ Off.for = "nothing" /\ Off.left = 0
BY DEF TypeOK, Timers, Off


LEMMA CompletionTypes ==
    /\ \A k \in KeepAlives : Connack(k) \in Completions /\ Connack(k).type = "connack"
    /\ Packet \in Completions /\ Packet.type = "packet"
    /\ HungUp \in Completions /\ HungUp.type = "hung_up"
    /\ \A t \in TimeoutTypes : Timeout(t) \in Completions /\ Timeout(t).type = t
    /\ \A c \in Completions : c.type = "connack" => c.keepAlive \in Nat
BY KeepAlivesAssumption DEF Completions, TimeoutTypes, Connack, Packet, HungUp, Timeout

\* A completion joins the queue.
LEMMA Queueing ==
    ASSUME TypeOK, NEW c \in Completions, ready' = Append(ready, c)
    PROVE  /\ ready' \in Seq(Completions)
           /\ \A t : Has(t)' <=> Has(t) \/ c.type = t
           /\ PingQueuedOnce /\ (c.type = "ping_timeout" => ~Has("ping_timeout")) => PingQueuedOnce'
<1>1. /\ ready' \in Seq(Completions) /\ Len(ready') = Len(ready) + 1
      /\ \A i \in 1 .. Len(ready) : ready'[i] = ready[i]
      /\ ready'[Len(ready) + 1] = c
  BY AppendProperties DEF TypeOK
<1>2. Len(ready) \in Nat
  BY LenProperties DEF TypeOK
<1>3. \A t : Has(t)' <=> Has(t) \/ c.type = t
  <2> TAKE t
  <2>1. ASSUME Has(t)' PROVE Has(t) \/ c.type = t
    <3>1. PICK i \in 1 .. Len(ready') : ready'[i].type = t
      BY <2>1 DEF Has
    <3>2. QED BY <1>1, <1>2, <3>1 DEF Has
  <2>2. ASSUME Has(t) PROVE Has(t)'
    <3>1. PICK i \in 1 .. Len(ready) : ready[i].type = t
      BY <2>2 DEF Has
    <3>2. i \in 1 .. Len(ready') /\ ready'[i].type = t
      BY <1>1, <1>2, <3>1
    <3>3. QED BY <3>2 DEF Has
  <2>3. ASSUME c.type = t PROVE Has(t)'
    <3>1. Len(ready) + 1 \in 1 .. Len(ready') /\ ready'[Len(ready) + 1].type = t
      BY <1>1, <1>2, <2>3
    <3>2. QED BY <3>1 DEF Has
  <2>4. QED BY <2>1, <2>2, <2>3
<1>4. ASSUME PingQueuedOnce, c.type = "ping_timeout" => ~Has("ping_timeout")
      PROVE  PingQueuedOnce'
  BY <1>1, <1>2, <1>4 DEF PingQueuedOnce, Has
<1>5. QED BY <1>1, <1>3, <1>4

\* The oldest completion leaves the queue.
LEMMA Dispatching ==
    ASSUME TypeOK, NEW type, Dispatch(type)
    PROVE  /\ ready' \in Seq(Completions)
           /\ Head(ready) \in Completions /\ Head(ready).type = type
           /\ Has(type)
           /\ \A t : Has(t)' => Has(t)
           /\ \A t : t # type /\ Has(t) => Has(t)'
           /\ PingQueuedOnce => PingQueuedOnce'
           /\ PingQueuedOnce /\ type = "ping_timeout" => ~Has("ping_timeout")'
<1>1. /\ ready # <<>> /\ ready' = Tail(ready) /\ Head(ready).type = type
  BY DEF Dispatch
<1>2. /\ Head(ready) \in Completions /\ ready' \in Seq(Completions)
      /\ Len(ready') = Len(ready) - 1
      /\ \A i \in 1 .. Len(ready') : ready'[i] = ready[i + 1]
  BY <1>1, HeadTailProperties DEF TypeOK
<1>3. Len(ready) \in Nat /\ Len(ready) > 0 /\ Head(ready) = ready[1]
  BY <1>1, EmptySeq DEF TypeOK
<1>4. Has(type)
  BY <1>1, <1>3 DEF Has
<1>5. ASSUME NEW t, Has(t)' PROVE Has(t)
  <2>1. PICK i \in 1 .. Len(ready') : ready'[i].type = t
    BY <1>5 DEF Has
  <2>2. i + 1 \in 1 .. Len(ready) /\ ready[i + 1].type = t
    BY <1>2, <1>3, <2>1
  <2>3. QED BY <2>2 DEF Has
<1>6. ASSUME NEW t, t # type, Has(t) PROVE Has(t)'
  <2>1. PICK i \in 1 .. Len(ready) : ready[i].type = t
    BY <1>6 DEF Has
  <2>2. i # 1
    BY <1>1, <1>3, <1>6, <2>1
  <2>3. i - 1 \in 1 .. Len(ready') /\ ready'[i - 1].type = t
    BY <1>2, <1>3, <2>1, <2>2
  <2>4. QED BY <2>3 DEF Has
<1>7. ASSUME PingQueuedOnce PROVE PingQueuedOnce'
  <2>1. \A i \in 1 .. Len(ready') : i + 1 \in 1 .. Len(ready) /\ ready'[i] = ready[i + 1]
    BY <1>2, <1>3
  <2>2. QED BY <2>1, <1>7 DEF PingQueuedOnce
<1>8. ASSUME PingQueuedOnce, type = "ping_timeout", Has("ping_timeout")' PROVE FALSE
  <2>1. PICK i \in 1 .. Len(ready') : ready'[i].type = "ping_timeout"
    BY <1>8 DEF Has
  <2>2. i + 1 \in 1 .. Len(ready) /\ ready[i + 1].type = "ping_timeout" /\ i + 1 # 1 /\ 1 \in 1 .. Len(ready)
    BY <1>2, <1>3, <2>1
  <2>3. QED BY <1>1, <1>3, <1>8, <2>2 DEF PingQueuedOnce
<1>9. QED BY <1>1, <1>2, <1>4, <1>5, <1>6, <1>7, <1>8
-----------------------------------------------------------------------------
(* Preservation, one lemma per kind of step *)

\* What the invariants are about, when the queue is left alone.
LEMMA HasFrame ==
    ASSUME UNCHANGED ready
    PROVE  /\ \A t : Has(t)' <=> Has(t)
           /\ PingQueuedOnce' <=> PingQueuedOnce
BY DEF Has, PingQueuedOnce

LEMMA HandshakeStep ==
    ASSUME IInv, NEW k \in KeepAlives, Handshake(k)
    PROVE  IInv'
<1>1. /\ conn = "idle" /\ conn' = "handshaking" /\ open' = TRUE /\ answering' = TRUE
      /\ keepAliveUsed' = k /\ k \in Nat
      /\ handshakes' = handshakes + 1
      /\ waited' = 0 /\ quiet' = 0 /\ silent' = 0 /\ ended' = "not"
      /\ UNCHANGED <<keepAliveTimer, ready, asked, burst>>
  BY KeepAlivesAssumption DEF Handshake
<1>2. pingTimer' \in Timers({"connect_timeout", "ping_timeout"})
      /\ pingTimer'.for = "connect_timeout" /\ pingTimer'.left = HandshakeTime
  BY TimesAssumption DEF Handshake, Wait, Timers
<1>3. TypeOK'
  BY <1>1, <1>2 DEF IInv, TypeOK
<1>4. /\ HandshakeInv' /\ ReasonInv' /\ EndInv'
  BY <1>1, <1>2, HasFrame, TimesAssumption DEF IInv, HandshakeInv, ReasonInv, EndInv
<1>5. PingInv' /\ SilenceInv' /\ AnswerInv'
  BY <1>1, <1>2, HasFrame DEF IInv, HandshakeInv, PingInv, SilenceInv, AnswerInv, Up
<1>6. QED BY <1>3, <1>4, <1>5 DEF IInv

LEMMA SendStep ==
    ASSUME IInv, Send
    PROVE  IInv'
<1>1. /\ quiet' = 0 /\ quiet \in Nat
      /\ UNCHANGED <<client, answering, asked, handshakes, waited, silent, burst, ended>>
  BY DEF Send, IInv, TypeOK
<1>2. TypeOK'
  BY <1>1 DEF IInv, TypeOK, client
<1>3. HandshakeInv' /\ ReasonInv' /\ EndInv' /\ SilenceInv' /\ AnswerInv'
  BY <1>1, HasFrame DEF IInv, client, HandshakeInv, ReasonInv, EndInv, SilenceInv, AnswerInv, Up
<1>4. PingInv'
  <2>1. UNCHANGED <<conn, open, pingTimer, ready, keepAliveUsed, burst>>
    BY <1>1 DEF client
  <2>2. pingTimer.left \in Nat /\ PingInterval(keepAliveUsed) \in Nat /\ keepAliveUsed \in Nat
    BY TimerType, Halves DEF IInv, TypeOK
  <2>3. QED BY <1>1, <2>1, <2>2, HasFrame DEF IInv, PingInv, Up
<1>5. QED BY <1>2, <1>3, <1>4 DEF IInv

\* Whatever arrives, the peer has just been heard; a packet keeps the promise
\* that AnswerInv is about.
LEMMA ArrivesStep ==
    ASSUME IInv, NEW c \in Completions, Arrives(c), c.type \in {"connack", "packet", "hung_up"},
           \/ UNCHANGED asked
           \/ asked # <<>> /\ asked' = Tail(asked) /\ c.type = "packet"
    PROVE  IInv'
<1>1. /\ open /\ ready' = Append(ready, c) /\ silent' = 0 /\ silent \in Nat
      /\ UNCHANGED <<conn, open, pingTimer, keepAliveTimer, keepAliveUsed, answering,
                     handshakes, waited, quiet, burst, ended>>
  BY DEF Arrives, IInv, TypeOK
<1>2. /\ ready' \in Seq(Completions)
      /\ \A t : Has(t)' <=> Has(t) \/ c.type = t
      /\ PingQueuedOnce /\ (c.type = "ping_timeout" => ~Has("ping_timeout")) => PingQueuedOnce'
  BY <1>1, Queueing DEF IInv
<1>3. asked' \in Seq(Nat)
  BY HeadTailProperties DEF IInv, TypeOK
<1>4. TypeOK'
  BY <1>1, <1>2, <1>3 DEF IInv, TypeOK
<1>5. HandshakeInv' /\ ReasonInv' /\ EndInv'
  BY <1>1, <1>2 DEF IInv, HandshakeInv, ReasonInv, EndInv
<1>6. PingInv'
  BY <1>1, <1>2 DEF IInv, PingInv, Up
<1>7. SilenceInv'
  BY <1>1, <1>2, TimerType DEF IInv, TypeOK, SilenceInv, Up
<1>8. AnswerInv'
  BY <1>1, <1>2 DEF IInv, AnswerInv, Up
<1>9. QED BY <1>4, <1>5, <1>6, <1>7, <1>8 DEF IInv

LEMMA PeerDiesStep ==
    ASSUME IInv, PeerDies
    PROVE  IInv'
<1>1. /\ answering' = FALSE /\ asked' = <<>>
      /\ UNCHANGED <<client, handshakes, waited, quiet, silent, burst, ended>>
  BY DEF PeerDies
<1>2. TypeOK'
  BY <1>1, EmptySeq DEF IInv, TypeOK, client
<1>3. HandshakeInv' /\ ReasonInv' /\ EndInv' /\ PingInv' /\ SilenceInv' /\ AnswerInv'
  BY <1>1, HasFrame DEF IInv, client, HandshakeInv, ReasonInv, EndInv, PingInv, SilenceInv, AnswerInv, Up
<1>4. QED BY <1>2, <1>3 DEF IInv

LEMMA PingTimerStep ==
    ASSUME IInv, PingTimerExpires
    PROVE  IInv'
<1>1. /\ pingTimer # Off /\ pingTimer.left = 0 /\ pingTimer' = Off
      /\ ready' = Append(ready, Timeout(pingTimer.for))
      /\ UNCHANGED <<conn, open, keepAliveTimer, keepAliveUsed, answering, asked,
                     handshakes, waited, quiet, silent, burst, ended>>
  BY DEF PingTimerExpires, Due
<1>2. pingTimer.for \in {"connect_timeout", "ping_timeout"}
      /\ pingTimer'.for = "nothing" /\ pingTimer'.left = 0
  BY <1>1, TimerType DEF IInv, Off
<1>3. Timeout(pingTimer.for) \in Completions /\ Timeout(pingTimer.for).type = pingTimer.for
  BY <1>2, CompletionTypes DEF TimeoutTypes
<1>4. /\ ready' \in Seq(Completions)
      /\ \A t : Has(t)' <=> Has(t) \/ pingTimer.for = t
      /\ PingQueuedOnce /\ (pingTimer.for = "ping_timeout" => ~Has("ping_timeout")) => PingQueuedOnce'
  BY <1>1, <1>3, Queueing DEF IInv
<1>5. TypeOK'
  BY <1>1, <1>4 DEF IInv, TypeOK, Timers
<1>6. HandshakeInv' /\ ReasonInv' /\ EndInv'
  BY <1>1, <1>2, <1>4, TimesAssumption DEF IInv, TypeOK, HandshakeInv, ReasonInv, EndInv
<1>7. PingInv'
  BY <1>1, <1>2, <1>4 DEF IInv, TypeOK, HandshakeInv, PingInv, Up
<1>8. SilenceInv' /\ AnswerInv'
  BY <1>1, <1>2, <1>4, TimerType, TimesAssumption
     DEF IInv, TypeOK, HandshakeInv, SilenceInv, AnswerInv, Up
<1>9. QED BY <1>5, <1>6, <1>7, <1>8 DEF IInv

LEMMA KeepAliveTimerStep ==
    ASSUME IInv, KeepAliveTimerExpires
    PROVE  IInv'
<1>1. /\ keepAliveTimer # Off /\ keepAliveTimer.left = 0 /\ keepAliveTimer' = Off
      /\ ready' = Append(ready, Timeout(keepAliveTimer.for))
      /\ UNCHANGED <<conn, open, pingTimer, keepAliveUsed, answering, asked,
                     handshakes, waited, quiet, silent, burst, ended>>
  BY DEF KeepAliveTimerExpires, Due
<1>2. keepAliveTimer.for = "keep_alive_timeout"
      /\ keepAliveTimer'.for = "nothing" /\ keepAliveTimer'.left = 0
  BY <1>1, TimerType DEF IInv, Off
<1>3. Timeout("keep_alive_timeout") \in Completions /\ Timeout("keep_alive_timeout").type = "keep_alive_timeout"
  BY CompletionTypes DEF TimeoutTypes
<1>4. /\ ready' \in Seq(Completions)
      /\ \A t : Has(t)' <=> Has(t) \/ "keep_alive_timeout" = t
      /\ PingQueuedOnce => PingQueuedOnce'
  BY <1>1, <1>2, <1>3, Queueing DEF IInv
<1>5. TypeOK'
  BY <1>1, <1>4 DEF IInv, TypeOK, Timers
<1>6. HandshakeInv' /\ ReasonInv' /\ EndInv'
  BY <1>1, <1>2, <1>4 DEF IInv, TypeOK, HandshakeInv, ReasonInv, EndInv
<1>7. PingInv' /\ SilenceInv'
  BY <1>1, <1>2, <1>4 DEF IInv, TypeOK, HandshakeInv, PingInv, SilenceInv, Up
<1>8. AnswerInv'
  BY <1>1, <1>2, <1>4 DEF IInv, TypeOK, HandshakeInv, AnswerInv, Up
<1>9. QED BY <1>5, <1>6, <1>7, <1>8 DEF IInv

LEMMA LaterType ==
    ASSUME NEW for, "nothing" \notin for, NEW timer \in Timers(for), ~Due(timer)
    PROVE  /\ Later(timer) \in Timers(for)
           /\ Later(timer).for = timer.for
           /\ Later(timer).left = IF timer.for = "nothing" THEN 0 ELSE timer.left - 1
           /\ timer.for # "nothing" => timer.left > 0
<1>1. CASE timer = Off
  BY <1>1 DEF Later, Off, Timers
<1>2. CASE timer # Off
  <2>1. timer \in [for : for, left : Nat] /\ timer.left # 0
    BY <1>2 DEF Timers, Due
  <2>2. Later(timer) = [timer EXCEPT !.left = timer.left - 1]
    BY <1>2 DEF Later
  <2>3. timer.for # "nothing" /\ timer.left \in Nat
    BY <2>1
  <2>4. QED BY <2>1, <2>2, <2>3 DEF Timers
<1>3. QED BY <1>1, <1>2

\* Every ping without an answer is a second older.
LEMMA AskedLater ==
    ASSUME NEW s \in Seq(Nat), NEW t, t = [i \in DOMAIN s |-> s[i] + 1]
    PROVE  /\ t \in Seq(Nat)
           /\ s # <<>> => 1 \in DOMAIN s /\ t # <<>> /\ t[1] = s[1] + 1 /\ s[1] \in Nat
<1>1. /\ Len(s) \in Nat /\ DOMAIN s = 1 .. Len(s)
      /\ \A i \in 1 .. Len(s) : s[i] \in Nat
  BY LenProperties, ElementOfSeq
<1>2. t \in [1 .. Len(s) -> Nat]
  BY <1>1
<1>3. t \in Seq(Nat) /\ Len(t) = Len(s)
  BY <1>1, <1>2
<1>4. s # <<>> => Len(s) > 0
  BY EmptySeq
<1>5. QED BY <1>1, <1>3, <1>4, EmptySeq

LEMMA TickStep ==
    ASSUME IInv, Tick
    PROVE  IInv'
<1>1. /\ ready = <<>> /\ ~Due(keepAliveTimer)
      /\ Due(pingTimer) => burst = MaxBurst
      /\ \A i \in DOMAIN asked : asked[i] < AnswerTime
      /\ waited' = IF conn = "handshaking" THEN waited + 1 ELSE waited
      /\ quiet' = Counted(quiet) /\ silent' = Counted(silent) /\ burst' = 0
      /\ UNCHANGED <<conn, open, ready, keepAliveUsed, answering, handshakes, ended>>
  BY DEF Tick
<1>2. /\ waited \in Nat /\ quiet \in Nat /\ silent \in Nat /\ burst \in Nat /\ keepAliveUsed \in Nat
      /\ keepAliveTimer.left \in Nat /\ pingTimer.left \in Nat
  BY TimerType DEF IInv, TypeOK
<1>3. /\ quiet' \in {quiet, quiet + 1} /\ silent' \in {silent, silent + 1}
      /\ open => quiet' = quiet + 1 /\ silent' = silent + 1
  BY <1>1 DEF Counted
<1>4. \A t : ~Has(t) /\ ~Has(t)'
  <2>1. Len(ready) = 0
    BY <1>1, EmptySeq
  <2>2. QED BY <1>1, <2>1 DEF Has
<1>5. PingQueuedOnce' <=> PingQueuedOnce
  BY <1>1 DEF PingQueuedOnce
<1>6. /\ keepAliveTimer' \in Timers({"keep_alive_timeout"})
      /\ keepAliveTimer'.for = keepAliveTimer.for
      /\ keepAliveTimer'.left = IF keepAliveTimer.for = "nothing" THEN 0 ELSE keepAliveTimer.left - 1
      /\ keepAliveTimer.for # "nothing" => keepAliveTimer.left > 0
      /\ keepAliveTimer = Off => keepAliveTimer' = Off
  BY <1>1, LaterType DEF IInv, TypeOK, Tick, Later
<1>7. /\ pingTimer' \in Timers({"connect_timeout", "ping_timeout"})
      /\ pingTimer'.for = pingTimer.for
      /\ \/ pingTimer.for = "nothing" /\ pingTimer'.left = 0
         \/ pingTimer.left = 0 /\ pingTimer'.left = 0 /\ burst = MaxBurst
         \/ pingTimer.left > 0 /\ pingTimer'.left = pingTimer.left - 1
  <2>1. CASE Due(pingTimer)
    BY <1>1, <2>1 DEF Tick, IInv, TypeOK, Due
  <2>2. CASE ~Due(pingTimer)
    <3>1. pingTimer' = Later(pingTimer)
      BY <2>2 DEF Tick
    <3>2. QED BY <2>2, <3>1, LaterType DEF IInv, TypeOK
  <2>3. QED BY <2>1, <2>2
<1>8. /\ asked' \in Seq(Nat)
      /\ asked # <<>> => asked' # <<>> /\ asked'[1] = asked[1] + 1
                         /\ asked[1] \in Nat /\ asked[1] < AnswerTime
  BY <1>1, AskedLater DEF Tick, IInv, TypeOK
<1>9. MaxBurst \in Nat /\ MaxBurst > 1 /\ HandshakeTime \in Nat /\ HandshakeTime > 0
      /\ AnswerTime \in Nat /\ AnswerTime > 0
  BY BoundsAssumption, TimesAssumption
<1>10. /\ PingInterval(keepAliveUsed) \in Nat /\ PingInterval(keepAliveUsed) <= keepAliveUsed
       /\ keepAliveUsed \in {0, 1} => PingInterval(keepAliveUsed) = 0
  BY <1>2, Halves
<1>11. TypeOK'
  BY <1>1, <1>2, <1>3, <1>6, <1>7, <1>8 DEF IInv, TypeOK
<1>12. HandshakeInv'
  BY <1>1, <1>2, <1>4, <1>6, <1>7, <1>9 DEF IInv, HandshakeInv
<1>13. ReasonInv' /\ EndInv'
  BY <1>1, <1>2, <1>4 DEF IInv, HandshakeInv, ReasonInv, EndInv
<1>14. /\ Up => pingTimer.for = "ping_timeout" /\ keepAliveTimer.for = "keep_alive_timeout"
       /\ keepAliveUsed # 1 => burst < MaxBurst
  BY <1>2, <1>4, <1>9 DEF IInv, PingInv, SilenceInv
<1>15. PingInv'
  <2>1. ASSUME Up, pingTimer.left = 0, burst = MaxBurst
        PROVE  quiet = 0 /\ keepAliveUsed = 1
    BY <1>2, <1>9, <1>14, <2>1 DEF IInv, PingInv
  <2>2. Up => quiet' + pingTimer'.left <=
                IF keepAliveUsed = 1 THEN 1 ELSE PingInterval(keepAliveUsed)
    BY <1>2, <1>3, <1>7, <1>10, <1>14, <2>1 DEF IInv, PingInv, Up
  <2>3. PingQueuedOnce'
    BY <1>5 DEF IInv, PingInv
  <2>4. pingTimer'.left <= pingTimer.left
    BY <1>2, <1>7, TimerType DEF IInv, TypeOK
  <2>5. Up' <=> Up
    BY <1>1 DEF Up
  <2>6. pingTimer'.for = "ping_timeout" => pingTimer'.left <= PingInterval(keepAliveUsed)
    BY <1>2, <1>7, <1>10, <2>4 DEF IInv, PingInv
  <2>7. QED BY <1>1, <1>4, <1>7, <1>14, <2>2, <2>3, <2>5, <2>6 DEF PingInv
<1>16. SilenceInv'
  BY <1>1, <1>2, <1>3, <1>4, <1>6 DEF IInv, SilenceInv, Up
<1>17. AnswerInv'
  <2> SUFFICES ASSUME Up, answering, keepAliveUsed > PingInterval(keepAliveUsed) + AnswerTime
               PROVE  AnswerInv'
    BY <1>1 DEF AnswerInv, Up
  <2>1. keepAliveUsed # 1
    BY <1>9, <1>10
  <2>2. /\ ended # "keep_alive_timeout" /\ keepAliveTimer.left > 0
        /\ \/ asked # <<>> /\ keepAliveTimer.left + asked[1] > AnswerTime
           \/ pingTimer.for = "ping_timeout" /\ keepAliveTimer.left > pingTimer.left + AnswerTime
    BY <1>4 DEF IInv, AnswerInv
  <2>3. keepAliveTimer'.left = keepAliveTimer.left - 1
    BY <1>6, <1>14
  <2>4. CASE asked # <<>> /\ keepAliveTimer.left + asked[1] > AnswerTime
    <3>1. asked' # <<>> /\ asked'[1] = asked[1] + 1 /\ asked[1] \in Nat /\ asked[1] < AnswerTime
      BY <1>8, <2>4
    <3>2. keepAliveTimer'.left > 0 /\ keepAliveTimer'.left + asked'[1] > AnswerTime
      BY <1>2, <1>9, <2>3, <2>4, <3>1, TimerType DEF IInv
    <3>3. QED BY <1>1, <1>4, <2>2, <3>1, <3>2 DEF AnswerInv
  <2>5. CASE pingTimer.for = "ping_timeout" /\ keepAliveTimer.left > pingTimer.left + AnswerTime
    <3>1. pingTimer'.for = "ping_timeout" /\ pingTimer.left > 0 /\ pingTimer'.left = pingTimer.left - 1
      BY <1>7, <1>9, <1>14, <2>1, <2>5
    <3>2. QED BY <1>1, <1>2, <1>4, <1>9, <2>2, <2>3, <2>5, <3>1 DEF AnswerInv
  <2>6. QED BY <2>2, <2>4, <2>5
<1>18. QED BY <1>11, <1>12, <1>13, <1>15, <1>16, <1>17 DEF IInv

\* What the clients' timers become when they are armed for used seconds.
LEMMA StartedTimers ==
    ASSUME TypeOK, NEW used \in Nat
    PROVE  /\ StartPingTimer(used) =>
                /\ pingTimer' \in Timers({"connect_timeout", "ping_timeout"})
                /\ used > 0 => pingTimer'.for = "ping_timeout" /\ pingTimer'.left = PingInterval(used)
                /\ used = 0 => pingTimer' = pingTimer
           /\ StartKeepAliveTimer(used) =>
                /\ keepAliveTimer' \in Timers({"keep_alive_timeout"})
                /\ used > 0 => keepAliveTimer'.for = "keep_alive_timeout" /\ keepAliveTimer'.left = used
                /\ used = 0 => keepAliveTimer' = keepAliveTimer
BY Halves DEF TypeOK, StartPingTimer, StartKeepAliveTimer, Wait, Timers

LEMMA HandleConnackStep ==
    ASSUME IInv, HandleConnack
    PROVE  IInv'
<1>1. /\ ready' \in Seq(Completions)
      /\ Head(ready) \in Completions /\ Head(ready).type = "connack"
      /\ Has("connack")
      /\ \A t : Has(t)' => Has(t)
      /\ \A t : t # "connack" /\ Has(t) => Has(t)'
      /\ PingQueuedOnce => PingQueuedOnce'
  BY Dispatching DEF HandleConnack, IInv
<1>2. UNCHANGED <<open, answering, asked, handshakes, waited, silent, burst, ended>>
  BY DEF HandleConnack
<1>3. CASE conn # "handshaking" /\ UNCHANGED <<conn, pingTimer, keepAliveTimer, keepAliveUsed, quiet>>
  <2>1. TypeOK'
    BY <1>1, <1>2, <1>3 DEF IInv, TypeOK
  <2>2. HandshakeInv' /\ ReasonInv' /\ EndInv' /\ PingInv' /\ SilenceInv' /\ AnswerInv'
    BY <1>1, <1>2, <1>3 DEF IInv, HandshakeInv, ReasonInv, EndInv, PingInv, SilenceInv, AnswerInv, Up
  <2>3. QED BY <2>1, <2>2 DEF IInv
<1>4. CASE conn = "handshaking" /\ conn' = "connected"
  <2> DEFINE used == keepAliveUsed'
  <2>1. used \in Nat /\ StartPingTimer(used) /\ StartKeepAliveTimer(used) /\ quiet' = 0
    <3>1. Head(ready).keepAlive \in Nat
      BY <1>1, CompletionTypes
    <3>2. QED BY <1>4, <3>1 DEF HandleConnack, IInv, TypeOK
  <2> HIDE DEF used
  <2>2. /\ pingTimer' \in Timers({"connect_timeout", "ping_timeout"})
        /\ used > 0 => pingTimer'.for = "ping_timeout" /\ pingTimer'.left = PingInterval(used)
        /\ used = 0 => pingTimer' = pingTimer
        /\ keepAliveTimer' \in Timers({"keep_alive_timeout"})
        /\ used > 0 => keepAliveTimer'.for = "keep_alive_timeout" /\ keepAliveTimer'.left = used
        /\ used = 0 => keepAliveTimer' = keepAliveTimer
    BY <2>1, StartedTimers DEF IInv
  <2>3. /\ PingInterval(used) \in Nat /\ PingInterval(used) <= used
        /\ used \in {0, 1} => PingInterval(used) = 0
    BY <2>1, Halves
  <2>4. TypeOK'
    BY <1>1, <1>2, <1>4, <2>1, <2>2 DEF IInv, TypeOK, used
  <2>5. HandshakeInv' /\ ReasonInv' /\ EndInv'
    BY <1>1, <1>2, <1>4, <2>1, <2>2 DEF IInv, HandshakeInv, ReasonInv, EndInv, used
  <2>6. PingInv'
    BY <1>1, <1>2, <1>4, <2>1, <2>2, <2>3 DEF IInv, HandshakeInv, PingInv, Up, used
  <2>7. SilenceInv'
    BY <1>1, <1>2, <1>4, <2>1, <2>2 DEF IInv, SilenceInv, Up, used
  <2>8. AnswerInv'
    BY <1>1, <1>2, <1>4, <2>1, <2>2, <2>3, TimesAssumption DEF IInv, HandshakeInv, EndInv, AnswerInv, Up, used
  <2>9. QED BY <2>4, <2>5, <2>6, <2>7, <2>8 DEF IInv
<1>5. QED BY <1>3, <1>4 DEF HandleConnack

LEMMA HandlePacketStep ==
    ASSUME IInv, HandlePacket
    PROVE  IInv'
<1>1. /\ ready' \in Seq(Completions)
      /\ Has("packet")
      /\ \A t : Has(t)' => Has(t)
      /\ \A t : t # "packet" /\ Has(t) => Has(t)'
      /\ PingQueuedOnce => PingQueuedOnce'
  BY Dispatching DEF HandlePacket, IInv
<1>2. UNCHANGED <<conn, open, pingTimer, keepAliveUsed, answering, asked,
                  handshakes, waited, quiet, silent, burst, ended>>
  BY DEF HandlePacket
<1>3. /\ keepAliveTimer' \in Timers({"keep_alive_timeout"})
      /\ Up => keepAliveTimer'.for = "keep_alive_timeout" /\ keepAliveTimer'.left = keepAliveUsed
      /\ conn # "connected" \/ keepAliveUsed = 0 => keepAliveTimer' = keepAliveTimer
  BY StartedTimers DEF HandlePacket, RestartKeepAliveTimer, IInv, TypeOK, Up
<1>4. /\ PingInterval(keepAliveUsed) \in Nat /\ keepAliveUsed \in Nat
      /\ pingTimer.left \in Nat /\ silent \in Nat
  BY TimerType, Halves DEF IInv, TypeOK
<1>5. TypeOK'
  BY <1>1, <1>2, <1>3 DEF IInv, TypeOK
<1>6. HandshakeInv' /\ ReasonInv' /\ EndInv' /\ PingInv'
  BY <1>1, <1>2, <1>3 DEF IInv, HandshakeInv, ReasonInv, EndInv, PingInv, Up
<1>7. SilenceInv'
  BY <1>1, <1>2, <1>3, <1>4 DEF IInv, SilenceInv, Up
<1>8. AnswerInv'
  BY <1>1, <1>2, <1>3, <1>4, TimesAssumption DEF IInv, PingInv, AnswerInv, Up
<1>9. QED BY <1>5, <1>6, <1>7, <1>8 DEF IInv

LEMMA DisconnectedStep ==
    ASSUME IInv, NEW type \in {"connect_timeout", "hung_up"}, Disconnected(type)
    PROVE  IInv'
<1>1. /\ ready' \in Seq(Completions)
      /\ Has(type)
      /\ \A t : Has(t)' => Has(t)
      /\ \A t : t # type /\ Has(t) => Has(t)'
      /\ PingQueuedOnce => PingQueuedOnce'
  BY Dispatching DEF Disconnected, IInv
<1>2. /\ conn' = IF conn = "handshaking" THEN "idle" ELSE conn
      /\ UNCHANGED <<keepAliveUsed, answering, handshakes, waited, quiet, silent, burst>>
  BY DEF Disconnected
<1>3. \/ /\ open /\ open' = FALSE /\ ended' = type /\ asked' = <<>> /\ keepAliveTimer' = Off
         /\ pingTimer' = IF conn = "connected" THEN Off ELSE pingTimer
      \/ ~open /\ UNCHANGED <<open, ended, pingTimer, keepAliveTimer, asked>>
  BY DEF Disconnected, CloseSocket
<1>4. Off.for = "nothing" /\ Off.left = 0 /\ Off \in Timers({"keep_alive_timeout"})
      /\ Off \in Timers({"connect_timeout", "ping_timeout"})
  BY DEF Off, Timers
<1>5. TypeOK'
  <2>1. asked' \in Seq(Nat)
    BY <1>3, EmptySeq DEF IInv, TypeOK
  <2>2. pingTimer' \in Timers({"connect_timeout", "ping_timeout"})
        /\ keepAliveTimer' \in Timers({"keep_alive_timeout"})
        /\ open' \in BOOLEAN /\ ended' \in {"not", "connect_timeout", "hung_up", "keep_alive_timeout"}
    BY <1>3, <1>4 DEF IInv, TypeOK
  <2>3. QED BY <1>1, <1>2, <2>1, <2>2 DEF IInv, TypeOK
<1>6. HandshakeInv'
  BY <1>1, <1>2, <1>3, <1>4 DEF IInv, TypeOK, HandshakeInv
<1>7. ReasonInv' /\ EndInv'
  BY <1>1, <1>2, <1>3 DEF IInv, TypeOK, HandshakeInv, ReasonInv, EndInv
<1>8. PingInv'
  BY <1>1, <1>2, <1>3, <1>4 DEF IInv, TypeOK, HandshakeInv, PingInv, Up
<1>9. SilenceInv' /\ AnswerInv'
  BY <1>1, <1>2, <1>3 DEF IInv, TypeOK, HandshakeInv, SilenceInv, AnswerInv, Up
<1>10. QED BY <1>5, <1>6, <1>7, <1>8, <1>9 DEF IInv

LEMMA PingDueStep ==
    ASSUME IInv, PingDue
    PROVE  IInv'
<1>1. /\ ready' \in Seq(Completions)
      /\ Has("ping_timeout")
      /\ \A t : Has(t)' => Has(t)
      /\ \A t : t # "ping_timeout" /\ Has(t) => Has(t)'
      /\ PingQueuedOnce' /\ ~Has("ping_timeout")'
  BY Dispatching DEF PingDue, IInv, PingInv
<1>2. UNCHANGED <<conn, open, keepAliveTimer, keepAliveUsed, answering, handshakes,
                  waited, silent, ended>>
  BY DEF PingDue
<1>3. conn = "connected" /\ keepAliveUsed > 0 /\ pingTimer.for # "ping_timeout"
  BY <1>1 DEF IInv, TypeOK, HandshakeInv, PingInv
<1>4. /\ PingInterval(keepAliveUsed) \in Nat /\ PingInterval(keepAliveUsed) <= keepAliveUsed
      /\ keepAliveUsed \in Nat /\ burst \in Nat /\ keepAliveTimer.left \in Nat
      /\ keepAliveUsed > 1 => PingInterval(keepAliveUsed) > 0
  BY TimerType, Halves DEF IInv, TypeOK
<1>5. CASE ~open /\ UNCHANGED <<quiet, burst, asked, pingTimer>>
  <2>1. TypeOK'
    BY <1>1, <1>2, <1>5 DEF IInv, TypeOK
  <2>2. HandshakeInv' /\ ReasonInv' /\ EndInv' /\ PingInv' /\ SilenceInv' /\ AnswerInv'
    BY <1>1, <1>2, <1>3, <1>5 DEF IInv, HandshakeInv, ReasonInv, EndInv, PingInv, SilenceInv, AnswerInv, Up
  <2>3. QED BY <2>1, <2>2 DEF IInv
<1>6. CASE open /\ quiet' = 0 /\ burst' = burst + 1 /\ StartPingTimer(keepAliveUsed)
  <2>1. /\ pingTimer' \in Timers({"connect_timeout", "ping_timeout"})
        /\ pingTimer'.for = "ping_timeout" /\ pingTimer'.left = PingInterval(keepAliveUsed)
    BY <1>3, <1>4, <1>6, StartedTimers DEF IInv
  <2>2. /\ asked' = IF answering THEN Append(asked, 0) ELSE asked
        /\ asked' \in Seq(Nat)
        /\ answering => asked' # <<>> /\ asked'[1] = IF asked = <<>> THEN 0 ELSE asked[1]
        /\ asked # <<>> => asked[1] \in Nat
    <3>1. asked' = IF answering THEN Append(asked, 0) ELSE asked
      BY <1>6 DEF PingDue
    <3>2. /\ Append(asked, 0) \in Seq(Nat) /\ Append(asked, 0) # <<>>
          /\ \A i \in 1 .. Len(asked) : Append(asked, 0)[i] = asked[i]
          /\ Append(asked, 0)[Len(asked) + 1] = 0
          /\ Len(asked) \in Nat
      BY AppendProperties, LenProperties DEF IInv, TypeOK
    <3>3. asked = <<>> => Len(asked) = 0
      BY EmptySeq
    <3>4. asked # <<>> => 1 \in 1 .. Len(asked) /\ asked[1] \in Nat
      BY EmptySeq, ElementOfSeq DEF IInv, TypeOK
    <3>5. QED BY <3>1, <3>2, <3>3, <3>4 DEF IInv, TypeOK
  <2>3. TypeOK'
    BY <1>1, <1>2, <1>4, <1>6, <2>1, <2>2 DEF IInv, TypeOK
  <2>4. HandshakeInv' /\ ReasonInv' /\ EndInv'
    BY <1>1, <1>2, <1>3, <1>4, <1>6, <2>1 DEF IInv, HandshakeInv, ReasonInv, EndInv
  <2>5. PingInv'
    <3>1. keepAliveUsed # 1 => burst = 0
      BY <1>2, <1>3, <1>4, <1>6 DEF IInv, PingInv, Up
    <3>2. QED BY <1>1, <1>2, <1>3, <1>4, <1>6, <2>1, <3>1 DEF PingInv, Up
  <2>6. SilenceInv'
    BY <1>1, <1>2, <1>6 DEF IInv, SilenceInv, Up
  <2>7. AnswerInv'
    BY <1>1, <1>2, <1>3, <1>4, <1>6, <2>1, <2>2, TimesAssumption DEF IInv, AnswerInv, Up
  <2>8. QED BY <2>3, <2>4, <2>5, <2>6, <2>7 DEF IInv
<1>7. QED BY <1>5, <1>6 DEF PingDue, IInv, TypeOK

LEMMA KeepAliveOverStep ==
    ASSUME IInv, KeepAliveOver
    PROVE  IInv'
<1>1. /\ ready' \in Seq(Completions)
      /\ Has("keep_alive_timeout")
      /\ \A t : Has(t)' => Has(t)
      /\ \A t : t # "keep_alive_timeout" /\ Has(t) => Has(t)'
      /\ PingQueuedOnce => PingQueuedOnce'
  BY Dispatching DEF KeepAliveOver, IInv
<1>2. UNCHANGED <<conn, keepAliveUsed, answering, handshakes, waited, quiet, silent, burst>>
  BY DEF KeepAliveOver
<1>3. conn = "connected" /\ keepAliveUsed > 0
  BY <1>1 DEF IInv, TypeOK, HandshakeInv
<1>4. \/ /\ open /\ open' = FALSE /\ ended' = "keep_alive_timeout" /\ asked' = <<>>
         /\ keepAliveTimer' = Off /\ pingTimer' = Off
      \/ ~open /\ UNCHANGED <<open, ended, pingTimer, keepAliveTimer, asked>>
  BY <1>3 DEF KeepAliveOver, CloseSocket
<1>5. Off.for = "nothing" /\ Off.left = 0 /\ Off \in Timers({"keep_alive_timeout"})
      /\ Off \in Timers({"connect_timeout", "ping_timeout"})
  BY DEF Off, Timers
<1>6. TypeOK'
  <2>1. asked' \in Seq(Nat)
    BY <1>4, EmptySeq DEF IInv, TypeOK
  <2>2. pingTimer' \in Timers({"connect_timeout", "ping_timeout"})
        /\ keepAliveTimer' \in Timers({"keep_alive_timeout"})
        /\ open' \in BOOLEAN /\ ended' \in {"not", "connect_timeout", "hung_up", "keep_alive_timeout"}
    BY <1>4, <1>5 DEF IInv, TypeOK
  <2>3. QED BY <1>1, <1>2, <2>1, <2>2 DEF IInv, TypeOK
<1>7. HandshakeInv' /\ ReasonInv'
  BY <1>1, <1>2, <1>3, <1>4, <1>5 DEF IInv, TypeOK, HandshakeInv, ReasonInv
<1>8. PingInv' /\ SilenceInv' /\ AnswerInv'
  BY <1>1, <1>2, <1>4, <1>5 DEF IInv, TypeOK, PingInv, SilenceInv, AnswerInv, Up
<1>9. EndInv'
  <2>1. open /\ answering => keepAliveUsed <= PingInterval(keepAliveUsed) + AnswerTime
    BY <1>1, <1>3, Halves, TimesAssumption DEF IInv, TypeOK, AnswerInv, Up
  <2>2. QED BY <1>2, <1>4, <2>1 DEF IInv, TypeOK, EndInv
<1>10. QED BY <1>6, <1>7, <1>8, <1>9 DEF IInv
-----------------------------------------------------------------------------
(* The theorems *)

LEMMA InitInv == Init => IInv
<1> SUFFICES ASSUME Init PROVE IInv
  OBVIOUS
<1>1. TypeOK
  BY EmptySeq DEF Init, TypeOK, Timers
<1>2. \A t : ~Has(t)
  BY EmptySeq DEF Init, Has
<1>3. PingQueuedOnce
  BY EmptySeq DEF Init, PingQueuedOnce
<1>4. QED
  BY <1>1, <1>2, <1>3, Halves DEF Init, IInv, HandshakeInv, ReasonInv, PingInv, SilenceInv,
     AnswerInv, EndInv, Up, Off

LEMMA StepInv == IInv /\ [Next]_vars => IInv'
<1> SUFFICES ASSUME IInv, [Next]_vars PROVE IInv'
  OBVIOUS
<1>1. CASE Send
  BY <1>1, SendStep
<1>2. ASSUME NEW k \in KeepAlives, Handshake(k) PROVE IInv'
  BY <1>2, HandshakeStep
<1>3. ASSUME NEW k \in KeepAlives, ConnackArrives(k) PROVE IInv'
  BY <1>3, ArrivesStep, CompletionTypes DEF ConnackArrives
<1>4. CASE PeerSends
  BY <1>4, ArrivesStep, CompletionTypes DEF PeerSends
<1>5. CASE PeerAnswers
  BY <1>5, ArrivesStep, CompletionTypes DEF PeerAnswers
<1>6. CASE PeerHangsUp
  BY <1>6, ArrivesStep, CompletionTypes DEF PeerHangsUp
<1>7. CASE PeerDies
  BY <1>7, PeerDiesStep
<1>8. CASE PingTimerExpires
  BY <1>8, PingTimerStep
<1>9. CASE KeepAliveTimerExpires
  BY <1>9, KeepAliveTimerStep
<1>10. CASE Tick
  BY <1>10, TickStep
<1>11. CASE HandleConnack
  BY <1>11, HandleConnackStep
<1>12. CASE HandlePacket
  BY <1>12, HandlePacketStep
<1>13. CASE PingDue
  BY <1>13, PingDueStep
<1>14. CASE KeepAliveOver
  BY <1>14, KeepAliveOverStep
<1>15. ASSUME NEW type \in {"connect_timeout", "hung_up"}, Disconnected(type) PROVE IInv'
  BY <1>15, DisconnectedStep
<1>16. CASE UNCHANGED vars
  <2>1. TypeOK'
    BY <1>16 DEF IInv, TypeOK, vars, client
  <2>2. HandshakeInv' /\ ReasonInv' /\ EndInv' /\ PingInv' /\ SilenceInv' /\ AnswerInv'
    BY <1>16, HasFrame DEF vars, client, IInv, HandshakeInv, ReasonInv, EndInv,
       PingInv, SilenceInv, AnswerInv, Up
  <2>3. QED BY <2>1, <2>2 DEF IInv
<1>17. QED
  BY <1>1, <1>2, <1>3, <1>4, <1>5, <1>6, <1>7, <1>8, <1>9, <1>10, <1>11, <1>12, <1>13,
     <1>14, <1>15, <1>16 DEF Next

\* The inductive invariant holds in every state of the client.
THEOREM Inductive == Spec => []IInv
<1>1. QED BY InitInv, StepInv, PTL DEF Spec

\* Every variable keeps its type.
THEOREM TypeCorrect == Spec => []TypeOK
<1>1. IInv => TypeOK
  BY DEF IInv
<1>2. QED BY <1>1, Inductive, PTL

\* With a keep alive, a packet goes out at least once in that time.
THEOREM SpeechCorrect == Spec => []SpeaksInTime
<1>1. ASSUME IInv PROVE SpeaksInTime
  <2>1. /\ pingTimer.left \in Nat /\ quiet \in Nat /\ keepAliveUsed \in Nat
        /\ PingInterval(keepAliveUsed) \in Nat /\ PingInterval(keepAliveUsed) <= keepAliveUsed
    BY <1>1, TimerType, Halves DEF IInv, TypeOK
  <2>2. QED BY <1>1, <2>1 DEF IInv, PingInv, SpeaksInTime, Up
<1>2. QED BY <1>1, Inductive, PTL

\* A peer that falls silent is dropped in time, before and after the CONNACK.
THEOREM SilenceCorrect == Spec => []SilenceBounded
<1>1. IInv => SilenceBounded
  BY TimerType, TimesAssumption DEF IInv, TypeOK, HandshakeInv, SilenceInv, SilenceBounded, Up
<1>2. QED BY <1>1, Inductive, PTL

\* No timer of the client closes a connection to a peer that does its part.
THEOREM EndCorrect == Spec => []EndedForAReason
<1>1. IInv => EndedForAReason
  BY DEF IInv, ReasonInv, EndInv, EndedForAReason
<1>2. QED BY <1>1, Inductive, PTL

\* Pings are a second apart, unless the keep alive is a single second.
THEOREM PaceCorrect == Spec => []PingsPaced
<1>1. IInv => PingsPaced
  BY DEF IInv, TypeOK, PingInv, PingsPaced
<1>2. QED BY <1>1, Inductive, PTL
=============================================================================
