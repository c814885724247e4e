-------------------------- MODULE ConnectionProofs --------------------------
(***************************************************************************)
(* Proofs about ConnectionSM, for all keep alives, any number of           *)
(* handshakes and packets, and any order of completions.                   *)
(***************************************************************************)
EXTENDS ConnectionSM, SequenceTheorems, TLAPS

PacketTypes == {"connack", "other"}

\* The types in a queue, and that it holds one packet at most.
Types(s) == {s[i].type : i \in 1 .. Len(s)}
NoPacket(s) == Types(s) \cap PacketTypes = {}
OnePacket(s) ==
    \A i, j \in 1 .. Len(s) : s[i].type \in PacketTypes /\ s[j].type \in PacketTypes => i = j

\* The reader has one packet in hand at most, none while it reads, and none
\* from an earlier connection when it starts to.
ReaderInv ==
    /\ OnePacket(ready)
    /\ alive /\ rx = "rx_receiving" =>
            reading \/ Types(ready) \cap {"read_done", "read_failed", "connack", "other"} # {}
    /\ reading => open /\ rx = "rx_receiving" /\ NoPacket(ready)
    /\ open /\ rx = "rx_idle" => NoPacket(ready)

IInv == TypeOK /\ RegionsInStep /\ ReaderInv
-----------------------------------------------------------------------------
(* The queue *)

LEMMA CompletionTypes ==
    /\ \A p \in Packets : p \in Completions /\ p.type \in PacketTypes
    /\ \A c \in Timeouts : c \in Completions
         /\ c.type \in {"connect_timeout", "ping_timeout", "keep_alive_timeout"}
    /\ ReadDone \in Completions /\ ReadDone.type = "read_done"
    /\ WriteDone \in Completions /\ WriteDone.type = "write_done"
    /\ ReadFailed \in Completions /\ ReadFailed.type = "read_failed"
    /\ WriteFailed \in Completions /\ WriteFailed.type = "write_failed"
    /\ \A c \in Completions : c.type \in PacketTypes => c \in Packets
    /\ \A c \in Completions : c.type = "connack" => c.keepAlive \in KeepAlives \cup {0}
BY DEF Completions, Packets, Timeouts, PacketTypes, Other, Connack, ConnectTimeout, PingTimeout,
       KeepAliveTimeout, ReadDone, WriteDone, ReadFailed, WriteFailed

LEMMA ConcatTypes ==
    ASSUME NEW s \in Seq(Completions), NEW t \in Seq(Completions)
    PROVE  /\ s \o t \in Seq(Completions)
           /\ Types(s \o t) = Types(s) \cup Types(t)
           /\ OnePacket(s) /\ NoPacket(t) => OnePacket(s \o t)
           /\ NoPacket(s) /\ OnePacket(t) => OnePacket(s \o t)
<1>1. /\ s \o t \in Seq(Completions) /\ Len(s \o t) = Len(s) + Len(t)
      /\ \A i \in 1 .. Len(s) + Len(t) :
            (s \o t)[i] = IF i <= Len(s) THEN s[i] ELSE t[i - Len(s)]
      /\ Len(s) \in Nat /\ Len(t) \in Nat
  BY ConcatProperties, LenProperties
<1> DEFINE u == s \o t
<1> HIDE DEF u
<1>2. \A i \in 1 .. Len(s) : i \in 1 .. Len(u) /\ u[i] = s[i]
  BY <1>1 DEF u
<1>3. \A i \in 1 .. Len(t) : Len(s) + i \in 1 .. Len(u) /\ u[Len(s) + i] = t[i]
  <2> TAKE i \in 1 .. Len(t)
  <2>1. Len(s) + i \in 1 .. Len(s) + Len(t) /\ ~(Len(s) + i <= Len(s)) /\ (Len(s) + i) - Len(s) = i
    BY <1>1
  <2>2. QED BY <1>1, <2>1 DEF u
<1>4. \A i \in 1 .. Len(u) : \/ i \in 1 .. Len(s)
                             \/ i - Len(s) \in 1 .. Len(t) /\ i = Len(s) + (i - Len(s))
  <2> TAKE i \in 1 .. Len(u)
  <2>1. Len(u) = Len(s) + Len(t)
    BY <1>1 DEF u
  <2>2. QED BY <1>1, <2>1
<1>5. Types(u) \subseteq Types(s) \cup Types(t)
  <2> SUFFICES ASSUME NEW i \in 1 .. Len(u) PROVE u[i].type \in Types(s) \cup Types(t)
    BY DEF Types
  <2>1. CASE i \in 1 .. Len(s)
    BY <1>2, <2>1 DEF Types
  <2>2. CASE i - Len(s) \in 1 .. Len(t) /\ i = Len(s) + (i - Len(s))
    BY <1>3, <2>2 DEF Types
  <2>3. QED BY <1>4, <2>1, <2>2
<1>6. Types(s) \subseteq Types(u) /\ Types(t) \subseteq Types(u)
  BY <1>2, <1>3 DEF Types
<1>7. ASSUME OnePacket(s), NoPacket(t) PROVE OnePacket(u)
  <2>1. \A i \in 1 .. Len(t) : t[i].type \notin PacketTypes
    BY <1>7 DEF NoPacket, Types
  <2>2. \A i \in 1 .. Len(u) : u[i].type \in PacketTypes => i \in 1 .. Len(s)
    BY <1>3, <1>4, <2>1
  <2>3. QED BY <1>2, <1>7, <2>2 DEF OnePacket
<1>8. ASSUME NoPacket(s), OnePacket(t) PROVE OnePacket(u)
  <2>1. \A i \in 1 .. Len(s) : s[i].type \notin PacketTypes
    BY <1>8 DEF NoPacket, Types
  <2>2. \A i \in 1 .. Len(u) : u[i].type \in PacketTypes =>
            i - Len(s) \in 1 .. Len(t) /\ i = Len(s) + (i - Len(s)) /\ u[i] = t[i - Len(s)]
    BY <1>2, <1>3, <1>4, <2>1
  <2>3. SUFFICES ASSUME NEW i \in 1 .. Len(u), NEW j \in 1 .. Len(u),
                        u[i].type \in PacketTypes, u[j].type \in PacketTypes
                 PROVE  i = j
    BY DEF OnePacket
  <2>4. i - Len(s) = j - Len(s)
    BY <1>8, <2>2, <2>3 DEF OnePacket
  <2>5. QED BY <1>1, <2>2, <2>3, <2>4
<1>9. QED BY <1>1, <1>5, <1>6, <1>7, <1>8 DEF u

LEMMA SmallQueues ==
    /\ <<>> \in Seq(Completions) /\ Types(<<>>) = {} /\ OnePacket(<<>>)
    /\ \A c \in Completions : <<c>> \in Seq(Completions) /\ Types(<<c>>) = {c.type} /\ OnePacket(<<c>>)
    /\ \A c, d \in Completions : <<c, d>> \in Seq(Completions) /\ Types(<<c, d>>) = {c.type, d.type}
BY DEF Types, OnePacket

LEMMA AppendTypes ==
    ASSUME NEW s \in Seq(Completions), NEW c \in Completions
    PROVE  /\ Append(s, c) \in Seq(Completions)
           /\ Types(Append(s, c)) = Types(s) \cup {c.type}
           /\ OnePacket(s) /\ c.type \notin PacketTypes => OnePacket(Append(s, c))
           /\ NoPacket(s) => OnePacket(Append(s, c))
<1>1. Append(s, c) = s \o <<c>>
  BY AppendIsConcat
<1>2. /\ <<c>> \in Seq(Completions) /\ Types(<<c>>) = {c.type} /\ OnePacket(<<c>>)
      /\ c.type \notin PacketTypes => NoPacket(<<c>>)
  BY SmallQueues DEF NoPacket
<1>3. QED BY <1>1, <1>2, ConcatTypes

LEMMA HeadTypes ==
    ASSUME NEW s \in Seq(Completions), s # <<>>
    PROVE  /\ Head(s) \in Completions /\ Tail(s) \in Seq(Completions)
           /\ Types(s) = {Head(s).type} \cup Types(Tail(s))
           /\ OnePacket(s) => OnePacket(Tail(s))
           /\ OnePacket(s) /\ Head(s).type \in PacketTypes => NoPacket(Tail(s))
<1> DEFINE t == Tail(s)
<1>1. /\ Head(s) \in Completions /\ t \in Seq(Completions)
      /\ Len(t) = Len(s) - 1 /\ \A i \in 1 .. Len(t) : t[i] = s[i + 1]
  BY HeadTailProperties
<1>2. Len(s) \in Nat /\ Len(s) > 0 /\ Head(s) = s[1]
  BY EmptySeq
<1> HIDE DEF t
<1>3. \A i \in 1 .. Len(t) : i + 1 \in 1 .. Len(s) /\ i + 1 # 1 /\ t[i] = s[i + 1]
  BY <1>1, <1>2
<1>4. \A i \in 1 .. Len(s) : i = 1 \/ (i - 1 \in 1 .. Len(t) /\ t[i - 1] = s[i])
  <2> TAKE i \in 1 .. Len(s)
  <2>1. i # 1 => i - 1 \in 1 .. Len(t) /\ (i - 1) + 1 = i
    BY <1>1, <1>2
  <2>2. QED BY <1>3, <2>1
<1>5. 1 \in 1 .. Len(s)
  BY <1>2
<1>6. Types(s) = {Head(s).type} \cup Types(t)
  <2>1. ASSUME NEW i \in 1 .. Len(s) PROVE s[i].type \in {Head(s).type} \cup Types(t)
    BY <1>2, <1>4 DEF Types
  <2>2. ASSUME NEW i \in 1 .. Len(t) PROVE t[i].type \in Types(s)
    BY <1>3 DEF Types
  <2>3. Head(s).type \in Types(s)
    BY <1>2, <1>5 DEF Types
  <2>4. QED BY <2>1, <2>2, <2>3 DEF Types
<1>7. OnePacket(s) => OnePacket(t)
  <2> SUFFICES ASSUME OnePacket(s), NEW i \in 1 .. Len(t), NEW j \in 1 .. Len(t),
                      t[i].type \in PacketTypes, t[j].type \in PacketTypes
               PROVE  i = j
    BY DEF OnePacket
  <2>1. i + 1 = j + 1
    BY <1>3 DEF OnePacket
  <2>2. QED BY <2>1
<1>8. OnePacket(s) /\ Head(s).type \in PacketTypes => NoPacket(t)
  BY <1>2, <1>3, <1>5 DEF OnePacket, NoPacket, Types
<1>9. QED BY <1>1, <1>6, <1>7, <1>8 DEF t
-----------------------------------------------------------------------------
(* Preservation, one lemma per kind of step *)

\* What RegionsInStep and ReaderInv say of the queue, for a queue of the same
\* types.
LEMMA FrameInv ==
    ASSUME IInv, TypeOK', UNCHANGED <<regions, open, reading, ready>>, alive' => alive
    PROVE  IInv'
BY DEF IInv, RegionsInStep, ReaderInv, regions, NoPacket, OnePacket, Types

LEMMA SocketConnectedStep ==
    ASSUME IInv, SocketConnected
    PROVE  IInv'
<1>1. /\ alive /\ ~open /\ open' = TRUE
      /\ \A i \in DOMAIN ready : ready[i] \in Timeouts
      /\ UNCHANGED <<conn, rx, ping, keepAlive, reading, writing, pingTimer, keepAliveTimer, ready,
                     keepAliveUsed, waiting, alive, handshakes, packets, agreed>>
  BY DEF SocketConnected, regions, history
<1>2. Types(ready) \subseteq {"connect_timeout", "ping_timeout", "keep_alive_timeout"}
  BY <1>1, CompletionTypes, LenProperties DEF IInv, TypeOK, Types
<1>3. TypeOK'
  BY <1>1 DEF IInv, TypeOK
<1>4. RegionsInStep' /\ ReaderInv'
  BY <1>1, <1>2 DEF IInv, RegionsInStep, ReaderInv, NoPacket, PacketTypes
<1>5. QED BY <1>3, <1>4 DEF IInv

LEMMA HandshakeStep ==
    ASSUME IInv, NEW k \in KeepAlives, Handshake(k)
    PROVE  IInv'
<1>1. /\ handshakes' \in Nat /\ waiting' \in Nat
      /\ UNCHANGED <<ping, keepAlive, open, keepAliveTimer, alive, packets>>
  BY DEF Handshake, Notify, IInv, TypeOK
<1>2. CASE UNCHANGED <<conn, rx, reading, writing, pingTimer, ready, keepAliveUsed, agreed>>
  <2>1. TypeOK'
    BY <1>1, <1>2 DEF IInv, TypeOK
  <2>2. QED BY <1>1, <1>2, <2>1, FrameInv DEF regions
<1>3. CASE /\ conn = "idle" /\ conn' = "handshaking" /\ rx' = "rx_receiving" /\ pingTimer' = "connect"
           /\ keepAliveUsed' = k /\ agreed' = k
           /\ \/ open /\ reading' = TRUE /\ writing' = TRUE /\ UNCHANGED ready
              \/ ~open /\ ready' = ready \o <<ReadFailed, WriteFailed>> /\ UNCHANGED <<reading, writing>>
  <2>1. rx = "rx_idle" /\ ping = "ping_idle" /\ keepAlive = "keep_alive_idle"
    BY <1>3 DEF IInv, RegionsInStep
  <2>2. CASE open /\ reading' = TRUE /\ writing' = TRUE /\ UNCHANGED ready
    <3>1. TypeOK'
      BY <1>1, <1>3, <2>2 DEF IInv, TypeOK
    <3>2. RegionsInStep' /\ ReaderInv'
      BY <1>1, <1>3, <2>1, <2>2 DEF IInv, RegionsInStep, ReaderInv
    <3>3. QED BY <3>1, <3>2 DEF IInv
  <2>3. CASE ~open /\ ready' = ready \o <<ReadFailed, WriteFailed>> /\ UNCHANGED <<reading, writing>>
    <3>1. /\ <<ReadFailed, WriteFailed>> \in Seq(Completions)
          /\ Types(<<ReadFailed, WriteFailed>>) = {"read_failed", "write_failed"}
          /\ NoPacket(<<ReadFailed, WriteFailed>>)
      BY CompletionTypes, SmallQueues DEF NoPacket, PacketTypes
    <3>2. /\ ready' \in Seq(Completions) /\ OnePacket(ready') /\ "read_failed" \in Types(ready')
      BY <2>3, <3>1, ConcatTypes DEF IInv, TypeOK, ReaderInv
    <3>3. TypeOK'
      BY <1>1, <1>3, <2>3, <3>2 DEF IInv, TypeOK
    <3>4. RegionsInStep' /\ ReaderInv'
      BY <1>1, <1>3, <2>1, <2>3, <3>2 DEF IInv, RegionsInStep, ReaderInv
    <3>5. QED BY <3>3, <3>4 DEF IInv
  <2>4. QED BY <1>3, <2>2, <2>3
<1>4. QED BY <1>2, <1>3 DEF Handshake, StartConnectTimer

LEMMA AbortedTypes ==
    ASSUME TypeOK
    PROVE  /\ Aborted \in Seq(Completions) /\ NoPacket(Aborted)
           /\ reading => "read_done" \in Types(Aborted)
<1>1. /\ <<>> \in Seq(Completions) /\ <<ReadDone>> \in Seq(Completions) /\ <<WriteDone>> \in Seq(Completions)
      /\ Types(<<>>) = {} /\ Types(<<ReadDone>>) = {"read_done"} /\ Types(<<WriteDone>>) = {"write_done"}
  BY CompletionTypes, SmallQueues
<1>2. Types(Aborted) = (IF reading THEN {"read_done"} ELSE {}) \cup (IF writing THEN {"write_done"} ELSE {})
      /\ Aborted \in Seq(Completions)
  <2> DEFINE s == IF reading THEN <<ReadDone>> ELSE <<>>
             t == IF writing THEN <<WriteDone>> ELSE <<>>
  <2>1. s \in Seq(Completions) /\ Types(s) = IF reading THEN {"read_done"} ELSE {}
    BY <1>1
  <2>2. t \in Seq(Completions) /\ Types(t) = IF writing THEN {"write_done"} ELSE {}
    BY <1>1
  <2>3. Aborted = s \o t
    BY DEF Aborted
  <2> HIDE DEF s, t
  <2>4. s \o t \in Seq(Completions) /\ Types(s \o t) = Types(s) \cup Types(t)
    BY <2>1, <2>2, ConcatTypes
  <2>5. QED BY <2>1, <2>2, <2>3, <2>4
<1>3. QED BY <1>2 DEF NoPacket, PacketTypes

\* close() from a handler or by the user.
LEMMA CloseSocketProperties ==
    ASSUME TypeOK, NEW rest \in Seq(Completions), CloseSocket(rest)
    PROVE  /\ open' = FALSE /\ reading' = FALSE /\ writing' = FALSE
           /\ ready' \in Seq(Completions)
           /\ OnePacket(rest) => OnePacket(ready')
           /\ Types(rest) \subseteq Types(ready')
           /\ reading => "read_done" \in Types(ready')
BY AbortedTypes, ConcatTypes DEF CloseSocket

LEMMA CloseStep ==
    ASSUME IInv, Close
    PROVE  IInv'
<1>1. /\ open' = FALSE /\ reading' = FALSE /\ writing' = FALSE
      /\ ready' \in Seq(Completions)
      /\ OnePacket(ready')
      /\ Types(ready) \subseteq Types(ready')
      /\ reading => "read_done" \in Types(ready')
  BY CloseSocketProperties DEF Close, IInv, TypeOK, ReaderInv
<1>2. UNCHANGED <<conn, rx, ping, keepAlive, pingTimer, keepAliveTimer, keepAliveUsed, waiting, alive,
                  handshakes, packets, agreed>>
  BY DEF Close, regions, history
<1>3. TypeOK'
  BY <1>1, <1>2 DEF IInv, TypeOK
<1>4. RegionsInStep' /\ ReaderInv'
  BY <1>1, <1>2 DEF IInv, RegionsInStep, ReaderInv
<1>5. QED BY <1>3, <1>4 DEF IInv

\* A completion other than a packet is queued, and nothing else matters.
LEMMA PostedStep ==
    ASSUME IInv, TypeOK', NEW c \in Completions, c.type \notin PacketTypes,
           UNCHANGED <<regions, open, alive>>,
           ready' = Append(ready, c),
           \/ UNCHANGED reading
           \/ reading' = FALSE /\ c = ReadFailed
    PROVE  IInv'
<1>1. /\ Types(ready') = Types(ready) \cup {c.type} /\ OnePacket(ready')
      /\ NoPacket(ready) => NoPacket(ready')
  BY AppendTypes DEF IInv, TypeOK, ReaderInv, NoPacket
<1>2. RegionsInStep' /\ ReaderInv'
  BY <1>1, CompletionTypes DEF IInv, regions, TypeOK, RegionsInStep, ReaderInv
<1>3. QED BY <1>2 DEF IInv

LEMMA SendStep ==
    ASSUME IInv, Send
    PROVE  IInv'
<1>1. UNCHANGED <<regions, open, reading, pingTimer, keepAliveTimer, keepAliveUsed,
                   waiting, alive, history>>
  BY DEF Send
<1>2. CASE writing' = TRUE /\ UNCHANGED ready
  <2>1. TypeOK'
    BY <1>1, <1>2 DEF IInv, TypeOK, regions, history
  <2>2. QED BY <1>1, <1>2, <2>1, FrameInv
<1>3. CASE ready' = Append(ready, WriteFailed) /\ UNCHANGED writing
  <2>1. WriteFailed \in Completions /\ WriteFailed.type \notin PacketTypes
    BY CompletionTypes DEF PacketTypes
  <2>2. TypeOK'
    BY <1>1, <1>3, <2>1, AppendTypes DEF IInv, TypeOK, regions, history
  <2>3. QED BY <1>1, <1>3, <2>1, <2>2, PostedStep
<1>4. QED BY <1>2, <1>3 DEF Send

LEMMA PacketArrivesStep ==
    ASSUME IInv, NEW p \in Packets, PacketArrives(p)
    PROVE  IInv'
<1>1. /\ open /\ reading /\ reading' = FALSE /\ ready' = Append(ready, p) /\ packets' \in Nat
      /\ UNCHANGED <<conn, rx, ping, keepAlive, open, writing, pingTimer, keepAliveTimer, keepAliveUsed,
                   waiting, alive, handshakes, agreed>>
  BY DEF PacketArrives, regions, IInv, TypeOK
<1>2. rx = "rx_receiving" /\ NoPacket(ready)
  BY <1>1 DEF IInv, ReaderInv
<1>3. p \in Completions /\ p.type \in PacketTypes
  BY CompletionTypes
<1>4. /\ ready' \in Seq(Completions) /\ Types(ready') = Types(ready) \cup {p.type} /\ OnePacket(ready')
  BY <1>1, <1>2, <1>3, AppendTypes DEF IInv, TypeOK
<1>5. TypeOK'
  <2>1. reading' \in BOOLEAN /\ ready' \in Seq(Completions) /\ packets' \in Nat
    BY <1>1, <1>4
  <2>2. QED BY <1>1, <2>1 DEF IInv, TypeOK
<1>6. RegionsInStep'
  BY <1>1 DEF IInv, RegionsInStep
<1>7. Types(ready') \cap {"read_done", "read_failed", "connack", "other"} # {}
  BY <1>3, <1>4 DEF PacketTypes
<1>8. ReaderInv'
  BY <1>1, <1>2, <1>4, <1>7 DEF ReaderInv
<1>9. QED BY <1>5, <1>6, <1>8 DEF IInv

\* WriteCompletes, the timers and the peer that hangs up.
LEMMA OutsideStep ==
    ASSUME IInv, WriteCompletes \/ PingTimerExpires \/ KeepAliveTimerExpires \/ PeerFails
    PROVE  IInv'
<1>1. CASE WriteCompletes
  <2>1. TypeOK'
    BY <1>1 DEF WriteCompletes, IInv, TypeOK, regions, history
  <2>2. QED BY <1>1, <2>1, FrameInv DEF WriteCompletes
<1>2. ASSUME NEW c \in Timeouts, ready' = Append(ready, c), PingTimerExpires \/ KeepAliveTimerExpires
      PROVE  IInv'
  <2>1. c \in Completions /\ c.type \notin PacketTypes
    BY CompletionTypes DEF PacketTypes
  <2>2. ready' \in Seq(Completions)
    BY <1>2, <2>1, AppendTypes DEF IInv, TypeOK
  <2>3. UNCHANGED <<regions, open, reading, writing, keepAliveUsed, waiting, alive, history>>
        /\ pingTimer' \in {"off", "connect", "ping"} /\ keepAliveTimer' \in BOOLEAN
    BY <1>2 DEF PingTimerExpires, KeepAliveTimerExpires, IInv, TypeOK
  <2>4. TypeOK'
    BY <2>2, <2>3 DEF IInv, TypeOK, regions, history
  <2>5. QED BY <1>2, <2>1, <2>3, <2>4, PostedStep
<1>3. CASE PingTimerExpires
  BY <1>2, <1>3 DEF PingTimerExpires, Timeouts
<1>4. CASE KeepAliveTimerExpires
  BY <1>2, <1>4 DEF KeepAliveTimerExpires, Timeouts
<1>5. CASE PeerFails
  <2>1. /\ ReadFailed \in Completions /\ ReadFailed.type \notin PacketTypes
        /\ WriteFailed \in Completions /\ WriteFailed.type \notin PacketTypes
    BY CompletionTypes DEF PacketTypes
  <2>2. UNCHANGED <<regions, open, pingTimer, keepAliveTimer, keepAliveUsed, waiting, alive, history>>
    BY <1>5 DEF PeerFails
  <2>3. \/ reading' = FALSE /\ ready' = Append(ready, ReadFailed) /\ UNCHANGED writing
        \/ writing' = FALSE /\ ready' = Append(ready, WriteFailed) /\ UNCHANGED reading
    BY <1>5 DEF PeerFails
  <2>4. ready' \in Seq(Completions) /\ reading' \in BOOLEAN /\ writing' \in BOOLEAN
    BY <2>1, <2>3, AppendTypes DEF IInv, TypeOK
  <2>5. TypeOK'
    BY <2>2, <2>4 DEF IInv, TypeOK, regions, history
  <2>6. QED BY <2>1, <2>2, <2>3, <2>5, PostedStep
<1>6. QED BY <1>1, <1>3, <1>4, <1>5

\* What a handler leaves in the queue before the receiver region reads again.
LEMMA RestTypes ==
    ASSUME NEW s \in Seq(Completions), NEW done, NEW failed
    PROVE  LET rest == s \o (IF done THEN <<WriteDone>> ELSE <<>>)
                         \o (IF failed THEN <<WriteFailed>> ELSE <<>>) IN
           /\ rest \in Seq(Completions)
           /\ NoPacket(s) => NoPacket(rest)
<1> DEFINE a == IF done THEN <<WriteDone>> ELSE <<>>
           b == IF failed THEN <<WriteFailed>> ELSE <<>>
<1>1. a \in Seq(Completions) /\ b \in Seq(Completions) /\ NoPacket(a) /\ NoPacket(b)
  BY CompletionTypes, SmallQueues DEF NoPacket, PacketTypes
<1> HIDE DEF a, b
<1> DEFINE u == s \o a
<1>2. u \in Seq(Completions) /\ Types(u) = Types(s) \cup Types(a)
  BY <1>1, ConcatTypes
<1> HIDE DEF u
<1>3. u \o b \in Seq(Completions) /\ Types(u \o b) = Types(u) \cup Types(b)
  BY <1>1, <1>2, ConcatTypes
<1>4. u \o b \in Seq(Completions) /\ (NoPacket(s) => NoPacket(u \o b))
  BY <1>1, <1>2, <1>3 DEF NoPacket
<1>5. QED BY <1>4 DEF a, b, u

\* start_receiving with no packet in the queue.
LEMMA StartReceivingProperties ==
    ASSUME packets \in Nat, NEW rest \in Seq(Completions), NoPacket(rest), StartReceiving(rest)
    PROVE  /\ reading' \in BOOLEAN /\ packets' \in Nat /\ ready' \in Seq(Completions)
           /\ OnePacket(ready')
           /\ reading' \/ Types(ready') \cap {"read_done", "read_failed", "connack", "other"} # {}
           /\ reading' => open' /\ NoPacket(ready')
<1>1. CASE /\ packets < MaxPackets /\ packets' = packets + 1 /\ reading' = FALSE
           /\ \E p \in Packets : ready' = <<p>> \o rest
  <2>1. PICK p \in Packets : ready' = <<p>> \o rest
    BY <1>1
  <2>2. /\ <<p>> \in Seq(Completions) /\ Types(<<p>>) = {p.type} /\ OnePacket(<<p>>)
        /\ p.type \in {"connack", "other"}
    BY CompletionTypes, SmallQueues DEF PacketTypes
  <2>3. /\ <<p>> \o rest \in Seq(Completions) /\ OnePacket(<<p>> \o rest)
        /\ Types(<<p>> \o rest) = {p.type} \cup Types(rest)
    BY <2>2, ConcatTypes
  <2>4. p.type \in Types(<<p>> \o rest)
    BY <2>3
  <2>5. Types(ready') \cap {"connack", "other"} # {}
    BY <2>1, <2>2, <2>4
  <2>6. reading' = FALSE /\ packets' \in Nat
    BY <1>1
  <2>7. QED BY <2>1, <2>3, <2>5, <2>6
<1>2. CASE open' /\ reading' = TRUE /\ ready' = rest /\ UNCHANGED packets
  BY <1>2 DEF OnePacket, NoPacket, Types
<1>3. CASE ~open' /\ reading' = FALSE /\ ready' = Append(rest, ReadFailed) /\ UNCHANGED packets
  <2>1. ReadFailed \in Completions /\ ReadFailed.type = "read_failed"
    BY CompletionTypes
  <2>2. /\ ready' \in Seq(Completions) /\ Types(ready') = Types(rest) \cup {"read_failed"}
        /\ OnePacket(ready')
    BY <1>3, <2>1, AppendTypes
  <2>3. QED BY <1>3, <2>2
<1>4. QED BY <1>1, <1>2, <1>3 DEF StartReceiving

\* The handler of a packet.
LEMMA HandlerProperties ==
    ASSUME IInv, ready # <<>>, Head(ready).type \in PacketTypes, HandleThenReceive
    PROVE  /\ open' \in BOOLEAN /\ writing' \in BOOLEAN /\ reading' \in BOOLEAN
           /\ ready' \in Seq(Completions) /\ packets' \in Nat
           /\ OnePacket(ready')
           /\ rx = "rx_receiving" =>
                  reading' \/ Types(ready') \cap {"read_done", "read_failed", "connack", "other"} # {}
           /\ reading' => open' /\ rx = "rx_receiving" /\ NoPacket(ready')
           /\ rx = "rx_idle" => NoPacket(ready')
<1>1. Tail(ready) \in Seq(Completions) /\ NoPacket(Tail(ready))
  BY HeadTypes DEF IInv, TypeOK, ReaderInv
<1>2. PICK closes \in {FALSE, open}, writes \in BOOLEAN :
        LET rest == Tail(ready)
                    \o (IF closes /\ writing THEN <<WriteDone>> ELSE <<>>)
                    \o (IF writes /\ (closes \/ ~open) THEN <<WriteFailed>> ELSE <<>>) IN
        /\ open' = (open /\ ~closes)
        /\ writing' = (open' /\ (writing \/ writes))
        /\ \/ rx = "rx_receiving" /\ StartReceiving(rest)
           \/ rx = "rx_idle" /\ ready' = rest /\ UNCHANGED <<reading, packets>>
  BY DEF HandleThenReceive
<1> DEFINE rest == Tail(ready)
                   \o (IF closes /\ writing THEN <<WriteDone>> ELSE <<>>)
                   \o (IF writes /\ (closes \/ ~open) THEN <<WriteFailed>> ELSE <<>>)
<1>3. rest \in Seq(Completions) /\ NoPacket(rest)
  BY <1>1, RestTypes
<1>4. \/ rx = "rx_receiving" /\ StartReceiving(rest)
      \/ rx = "rx_idle" /\ ready' = rest /\ UNCHANGED <<reading, packets>>
  BY <1>2
<1>5. open' = (open /\ ~closes) /\ writing' = (open' /\ (writing \/ writes))
  BY <1>2
<1> HIDE DEF rest
<1>6. open' \in BOOLEAN /\ writing' \in BOOLEAN
  BY <1>5
<1>7. CASE rx = "rx_receiving" /\ StartReceiving(rest)
  <2>1. packets \in Nat
    BY DEF IInv, TypeOK
  <2>2. QED BY <1>3, <1>6, <1>7, <2>1, StartReceivingProperties
<1>8. CASE rx = "rx_idle" /\ ready' = rest /\ UNCHANGED <<reading, packets>>
  <2>1. reading = FALSE /\ packets \in Nat
    BY <1>8 DEF IInv, TypeOK, ReaderInv
  <2>2. OnePacket(rest)
    BY <1>3 DEF NoPacket, OnePacket, Types
  <2>3. QED BY <1>3, <1>6, <1>8, <2>1, <2>2
<1>9. QED BY <1>4, <1>7, <1>8

LEMMA HandleConnackStep ==
    ASSUME IInv, HandleConnack
    PROVE  IInv'
<1>1. ready # <<>> /\ Head(ready).type \in PacketTypes /\ HandleThenReceive
  BY DEF HandleConnack, Dispatch, PacketTypes
<1>2. /\ open' \in BOOLEAN /\ writing' \in BOOLEAN /\ reading' \in BOOLEAN
      /\ ready' \in Seq(Completions) /\ packets' \in Nat
      /\ OnePacket(ready')
      /\ rx = "rx_receiving" =>
             reading' \/ Types(ready') \cap {"read_done", "read_failed", "connack", "other"} # {}
      /\ reading' => open' /\ rx = "rx_receiving" /\ NoPacket(ready')
  BY <1>1, HandlerProperties
<1>3. rx = "rx_receiving"
  BY DEF HandleConnack, IInv, TypeOK, RegionsInStep
<1>4. conn' = "connected" /\ ping' = "ping_waiting" /\ keepAlive' = "keep_alive_waiting"
      /\ waiting' = 0 /\ UNCHANGED <<rx, alive, handshakes>>
  BY DEF HandleConnack, Notify
<1>5. Head(ready).keepAlive \in KeepAlives \cup {0}
  <2>1. Head(ready) \in Completions /\ Head(ready).type = "connack"
    BY <1>1, HeadTypes DEF HandleConnack, Dispatch, IInv, TypeOK
  <2>2. QED BY <2>1, CompletionTypes
<1>6. keepAliveUsed' \in KeepAlives \cup {0} /\ agreed' \in KeepAlives \cup {0}
      /\ pingTimer' \in {"off", "connect", "ping"} /\ keepAliveTimer' \in BOOLEAN
  BY <1>5 DEF HandleConnack, Negotiated, StartPingTimer, StartKeepAliveTimer, IInv, TypeOK
<1>7. TypeOK'
  BY <1>2, <1>4, <1>6 DEF IInv, TypeOK
<1>8. RegionsInStep' /\ ReaderInv'
  BY <1>2, <1>3, <1>4 DEF RegionsInStep, ReaderInv
<1>9. QED BY <1>7, <1>8 DEF IInv

LEMMA HandlePacketStep ==
    ASSUME IInv, HandlePacket
    PROVE  IInv'
<1>1. ready # <<>> /\ Head(ready).type \in PacketTypes /\ HandleThenReceive
  BY DEF HandlePacket, Dispatch, PacketTypes
<1>2. /\ open' \in BOOLEAN /\ writing' \in BOOLEAN /\ reading' \in BOOLEAN
      /\ ready' \in Seq(Completions) /\ packets' \in Nat
      /\ OnePacket(ready')
      /\ rx = "rx_receiving" =>
             reading' \/ Types(ready') \cap {"read_done", "read_failed", "connack", "other"} # {}
      /\ reading' => open' /\ rx = "rx_receiving" /\ NoPacket(ready')
      /\ rx = "rx_idle" => NoPacket(ready')
  BY <1>1, HandlerProperties
<1>3. UNCHANGED <<conn, rx, ping, keepAlive, pingTimer, keepAliveUsed, waiting, alive, handshakes, agreed>>
  BY DEF HandlePacket, regions
<1>4. keepAliveTimer' \in BOOLEAN
  BY DEF HandlePacket, StartKeepAliveTimer, IInv, TypeOK
<1>5. TypeOK'
  BY <1>2, <1>3, <1>4 DEF IInv, TypeOK
<1>6. RegionsInStep' /\ ReaderInv'
  BY <1>2, <1>3 DEF IInv, TypeOK, RegionsInStep, ReaderInv
<1>7. QED BY <1>5, <1>6 DEF IInv

LEMMA DisconnectedStep ==
    ASSUME IInv, Disconnected
    PROVE  IInv'
<1>1. ready # <<>> /\ Head(ready).type \notin PacketTypes
      /\ UNCHANGED <<keepAliveUsed, waiting, alive, handshakes, packets, agreed>>
  BY DEF Disconnected, Dispatch, PacketTypes, history
<1>2. Tail(ready) \in Seq(Completions) /\ OnePacket(Tail(ready))
      /\ Types(Tail(ready)) \subseteq Types(ready)
  BY <1>1, HeadTypes DEF IInv, TypeOK, ReaderInv
<1>3. /\ conn' = (IF conn = "handshaking" THEN "idle" ELSE conn)
      /\ rx' = "rx_idle" /\ ping' = "ping_idle" /\ keepAlive' = "keep_alive_idle"
      /\ pingTimer' \in {"off", "connect", "ping"} /\ keepAliveTimer' \in BOOLEAN
  BY DEF Disconnected, ReceiverAfterDisconnect, IInv, TypeOK
<1>4. RegionsInStep'
  BY <1>3 DEF RegionsInStep, IInv, TypeOK
<1>5. CASE conn = "handshaking" \/ rx = "rx_receiving"
  <2>1. CloseSocket(Tail(ready)) /\ TypeOK
    BY <1>5 DEF Disconnected, IInv
  <2>2. /\ open' = FALSE /\ reading' = FALSE /\ writing' = FALSE
        /\ ready' \in Seq(Completions) /\ OnePacket(ready')
    BY <1>2, <2>1, CloseSocketProperties
  <2>3. TypeOK'
    BY <1>1, <1>3, <2>2 DEF IInv, TypeOK
  <2>4. ReaderInv'
    BY <1>3, <2>2 DEF ReaderInv
  <2>5. QED BY <1>4, <2>3, <2>4 DEF IInv
<1>6. CASE ~(conn = "handshaking" \/ rx = "rx_receiving")
  <2>1. ready' = Tail(ready) /\ UNCHANGED <<open, reading, writing>>
    BY <1>6 DEF Disconnected
  <2>2. TypeOK'
    BY <1>1, <1>2, <1>3, <2>1 DEF IInv, TypeOK
  <2>3. reading = FALSE /\ (open => NoPacket(ready))
    BY <1>6 DEF IInv, TypeOK, ReaderInv
  <2>4. open' => NoPacket(ready')
    BY <1>2, <2>1, <2>3 DEF NoPacket
  <2>5. ReaderInv'
    BY <1>2, <1>3, <2>1, <2>3, <2>4 DEF ReaderInv
  <2>6. QED BY <1>4, <2>2, <2>5 DEF IInv
<1>7. QED BY <1>5, <1>6

LEMMA TerminateStep ==
    ASSUME IInv, Terminate
    PROVE  IInv'
<1>1. alive' = FALSE /\ UNCHANGED <<regions, io, keepAliveUsed, waiting, history>>
  BY DEF Terminate
<1>2. /\ UNCHANGED <<conn, rx, ping, keepAlive>>
      /\ UNCHANGED <<open, reading, writing, pingTimer, keepAliveTimer, ready>>
      /\ UNCHANGED <<handshakes, packets, agreed, keepAliveUsed, waiting>>
  BY <1>1 DEF regions, io, history
<1>3. TypeOK'
  <2>1. alive' \in BOOLEAN
    BY <1>1
  <2>2. TypeOK
    BY DEF IInv
  <2>3. QED BY ONLY <1>2, <2>1, <2>2 DEF TypeOK
<1>4. UNCHANGED <<regions, open, reading, ready>> /\ (alive' => alive)
  BY <1>1, <1>2
<1>5. QED BY <1>3, <1>4, FrameInv

\* A timeout is taken from the queue; a failed write may be posted.
LEMMA PingDueStep ==
    ASSUME IInv, PingDue
    PROVE  IInv'
<1>1. /\ ready # <<>> /\ Head(ready).type = "ping_timeout"
      /\ UNCHANGED <<conn, rx, ping, keepAlive, open, reading, keepAliveTimer, keepAliveUsed, waiting,
                     alive, handshakes, packets, agreed>>
  BY DEF PingDue, Dispatch, regions, history
<1>2. /\ Tail(ready) \in Seq(Completions) /\ OnePacket(Tail(ready))
      /\ Types(ready) = {"ping_timeout"} \cup Types(Tail(ready))
  BY <1>1, HeadTypes DEF IInv, TypeOK, ReaderInv
<1>3. ready' \in {Tail(ready), Append(Tail(ready), WriteFailed)}
      /\ writing' \in BOOLEAN /\ pingTimer' \in {"off", "connect", "ping"}
  BY DEF PingDue, StartPingTimer, IInv, TypeOK
<1>4. /\ ready' \in Seq(Completions) /\ OnePacket(ready')
      /\ Types(ready') = Types(Tail(ready)) \/ Types(ready') = Types(Tail(ready)) \cup {"write_failed"}
  <2>1. WriteFailed \in Completions /\ WriteFailed.type = "write_failed" /\ WriteFailed.type \notin PacketTypes
    BY CompletionTypes DEF PacketTypes
  <2>2. QED BY <1>2, <1>3, <2>1, AppendTypes
<1>5. TypeOK'
  BY <1>1, <1>3, <1>4 DEF IInv, TypeOK
<1>6. RegionsInStep' /\ ReaderInv'
  BY <1>1, <1>2, <1>4 DEF IInv, RegionsInStep, ReaderInv, NoPacket, PacketTypes
<1>7. QED BY <1>5, <1>6 DEF IInv

LEMMA KeepAliveOverStep ==
    ASSUME IInv, KeepAliveOver
    PROVE  IInv'
<1>1. /\ ready # <<>> /\ Head(ready).type = "keep_alive_timeout"
      /\ UNCHANGED <<conn, rx, ping, pingTimer, keepAliveTimer, keepAliveUsed, waiting,
                     alive, handshakes, packets, agreed>>
  BY DEF KeepAliveOver, Dispatch, history
<1>2. /\ Tail(ready) \in Seq(Completions) /\ OnePacket(Tail(ready))
      /\ Types(ready) = {"keep_alive_timeout"} \cup Types(Tail(ready))
  BY <1>1, HeadTypes DEF IInv, TypeOK, ReaderInv
<1>3. CASE keepAlive = "keep_alive_waiting"
  <2>1. CloseSocket(Tail(ready)) /\ keepAlive' = "keep_alive_idle" /\ TypeOK
    BY <1>3 DEF KeepAliveOver, IInv
  <2>2. /\ open' = FALSE /\ reading' = FALSE /\ writing' = FALSE
        /\ ready' \in Seq(Completions) /\ OnePacket(ready')
        /\ Types(Tail(ready)) \subseteq Types(ready')
        /\ reading => "read_done" \in Types(ready')
    BY <1>2, <2>1, CloseSocketProperties
  <2>3. TypeOK'
    BY <1>1, <2>1, <2>2 DEF IInv, TypeOK
  <2>4. RegionsInStep' /\ ReaderInv'
    BY <1>1, <1>2, <2>1, <2>2 DEF IInv, RegionsInStep, ReaderInv
  <2>5. QED BY <2>3, <2>4 DEF IInv
<1>4. CASE keepAlive # "keep_alive_waiting"
  <2>1. ready' = Tail(ready) /\ UNCHANGED <<open, reading, writing, keepAlive>>
    BY <1>4 DEF KeepAliveOver
  <2>2. TypeOK'
    BY <1>1, <1>2, <2>1 DEF IInv, TypeOK
  <2>3. RegionsInStep' /\ ReaderInv'
    BY <1>1, <1>2, <2>1 DEF IInv, RegionsInStep, ReaderInv, NoPacket, PacketTypes
  <2>4. QED BY <2>2, <2>3 DEF IInv
<1>5. QED BY <1>3, <1>4
-----------------------------------------------------------------------------
(* The theorems *)

LEMMA InitIInv == Init => IInv
<1> SUFFICES ASSUME Init PROVE IInv
  OBVIOUS
<1>1. ready \in Seq(Completions) /\ Types(ready) = {} /\ OnePacket(ready)
  BY SmallQueues DEF Init
<1>2. TypeOK
  BY <1>1 DEF Init, TypeOK
<1>3. RegionsInStep /\ ReaderInv
  BY <1>1 DEF Init, RegionsInStep, ReaderInv, NoPacket
<1>4. QED BY <1>2, <1>3 DEF IInv

LEMMA StepIInv == IInv /\ [Next]_vars => IInv'
<1> SUFFICES ASSUME IInv, [Next]_vars PROVE IInv'
  OBVIOUS
<1>1. ASSUME NEW k \in KeepAlives, Handshake(k) PROVE IInv'
  BY <1>1, HandshakeStep
<1>2. ASSUME NEW p \in Packets, PacketArrives(p) PROVE IInv'
  BY <1>2, PacketArrivesStep
<1>3. CASE SocketConnected \/ Close \/ Send
  BY <1>3, SocketConnectedStep, CloseStep, SendStep
<1>4. CASE WriteCompletes \/ PingTimerExpires \/ KeepAliveTimerExpires \/ PeerFails
  BY <1>4, OutsideStep
<1>5. CASE Run
  BY <1>5, HandleConnackStep, HandlePacketStep, DisconnectedStep, TerminateStep, PingDueStep,
     KeepAliveOverStep DEF Run
<1>6. CASE UNCHANGED vars
  <2>1. TypeOK'
    BY <1>6 DEF IInv, TypeOK, vars, regions, io, history
  <2>2. QED BY <1>6, <2>1, FrameInv DEF vars, io
<1>7. QED BY <1>1, <1>2, <1>3, <1>4, <1>5, <1>6 DEF Next

\* What the regions, the socket and the queue of completions are to each other.
THEOREM Inductive == Spec => []IInv
<1>1. QED BY InitIInv, StepIInv, PTL DEF Spec

\* Every variable keeps its type, however many completions are queued.
THEOREM TypeCorrect == Spec => []TypeOK
<1>1. IInv => TypeOK
  BY DEF IInv
<1>2. QED BY <1>1, Inductive, PTL

\* The four regions of the state machine stay in step: no order of handshakes,
\* late timeouts and cancelled operations leaves one of them in the state of
\* a connection that the others have left.
THEOREM RegionsCorrect == Spec => []RegionsInStep
<1>1. IInv => RegionsInStep
  BY DEF IInv
<1>2. QED BY <1>1, Inductive, PTL

LEMMA QueuedTypes ==
    ASSUME TypeOK, NEW kind
    PROVE  Queued(kind) <=> kind \in Types(ready)
<1>1. DOMAIN ready = 1 .. Len(ready)
  BY LenProperties DEF TypeOK
<1>2. QED BY <1>1 DEF Queued, Types

\* The client listens, and once: whenever the receiver region receives, a read
\* is pending or its completion is queued, never both, and no packet of an
\* earlier connection is queued behind a read of this one.
THEOREM ReaderCorrect == Spec => []OneReader
<1>1. ASSUME IInv PROVE OneReader
  <2>1. \A kind : Queued(kind) <=> kind \in Types(ready)
    BY <1>1, QueuedTypes DEF IInv
  <2>2. QED BY <1>1, <2>1 DEF IInv, ReaderInv, NoPacket, PacketTypes, OneReader
<1>2. QED BY <1>1, Inductive, PTL
=============================================================================
